-------------------------- MODULE ConnectionProofs --------------------------
(***************************************************************************)
(* Theorems about Connection, for all timeouts and numbers of threads.     *)
(***************************************************************************)
EXTENDS Connection, TLAPS

\* The operations of a timer whose times are at most n stay within n.
LEMMA TimerType ==
  ASSUME NEW n \in Nat, NEW t \in Timer(n), NEW m \in Times(n)
  PROVE  /\ NewTimer \in Timer(n)
         /\ AsyncWait(t) \in Timer(n)
         /\ Cancel(t) \in Timer(n)
         /\ SetExpiry(t, m) \in Timer(n)
         /\ ExpiresAfter(t, m) \in Timer(n)
         /\ Ended(t) \in Timer(n)
         /\ Fire(t) \in Timer(n)
         /\ Elapse(t) \in Timer(n)
<1> USE DEF Timer, Times, Never
<1>1. NewTimer \in Timer(n)  BY DEF NewTimer
<1>2. AsyncWait(t) \in Timer(n)  BY DEF AsyncWait
<1>3. Cancel(t) \in Timer(n)  BY DEF Cancel
<1>4. SetExpiry(t, m) \in Timer(n)  BY DEF SetExpiry
<1>5. ExpiresAfter(t, m) \in Timer(n)  BY <1>3 DEF ExpiresAfter, SetExpiry
<1>6. Ended(t) \in Timer(n)  BY DEF Ended
<1>7. Fire(t) \in Timer(n)  BY DEF Fire
<1>8. Elapse(t) \in Timer(n)
  <2>1. ASSUME NEW x \in Times(n) PROVE CountDown(x) \in Times(n)
    BY DEF CountDown
  <2> QED  BY <2>1 DEF Elapse
<1> QED  BY <1>1, <1>2, <1>3, <1>4, <1>5, <1>6, <1>7, <1>8

\* What Session::stop() leaves behind has the right type.
LEMMA StopType ==
  ASSUME TypeOK, NEW t \in Timer(IdleSeconds), NEW r \in ReadOp, Stop(t, r)
  PROVE  /\ stopped' \in BOOLEAN
         /\ open' \in BOOLEAN
         /\ strand' \in {"free", "closing"}
         /\ idle' \in Timer(IdleSeconds)
         /\ read' \in ReadOp
<1>1. AbortRead(r) \in ReadOp
  BY DEF AbortRead, ReadOp, NoRead
<1>2. Cancel(t) \in Timer(IdleSeconds)
  BY ConnectionAssumption DEF Cancel, Timer, Times, Never
<1> QED  BY <1>1, <1>2 DEF TypeOK, Stop

\* Every variable keeps to its type: in particular no timer is ever set
\* further ahead than its timeout.
THEOREM TypeCorrect == Spec => []TypeOK
<1>1. Init => TypeOK
  <2> SUFFICES ASSUME Init PROVE TypeOK
    OBVIOUS
  <2>1. Ended(NewTimer) \in Timer(IdleSeconds) /\ Ended(NewTimer) \in Timer(ReadSeconds)
    BY ConnectionAssumption DEF Ended, NewTimer, Timer, Times, Never
  <2> QED  BY <2>1 DEF Init, TypeOK, Faults, ReadOp, NoRead
<1>2. TypeOK /\ [Next]_vars => TypeOK'
  <2> SUFFICES ASSUME TypeOK, [Next]_vars PROVE TypeOK'
    OBVIOUS
  <2> USE ConnectionAssumption DEF TypeOK
  <2>0. /\ ReadSeconds \in Times(ReadSeconds)
        /\ IdleSeconds \in Times(IdleSeconds)
    BY DEF Times, Never
  <2>1. CASE PeerAlreadyGone
    BY <2>1 DEF PeerAlreadyGone, Faults
  <2>2. CASE ConstructSession
    BY <2>2, <2>0, TimerType DEF ConstructSession, HandlerStep, StartSteps
  <2>3. CASE ConstructorThrows
    BY <2>3 DEF ConstructorThrows, Faults
  <2>4. CASE StartCancelIdle
    BY <2>4, <2>0, TimerType DEF StartCancelIdle, HandlerStep, StartSteps
  <2>5. CASE StartArmIdle
    BY <2>5, <2>0, TimerType DEF StartArmIdle, HandlerStep, StartSteps
  <2>6. CASE StartCancelRead
    BY <2>6, <2>0, TimerType DEF StartCancelRead, HandlerStep, StartSteps
  <2>7. CASE StartArmRead
    BY <2>7, <2>0, TimerType DEF StartArmRead, HandlerStep, StartSteps
  <2>8. CASE StartRead
    BY <2>8 DEF StartRead, AsyncRead, ReadOp, HandlerStep, StartSteps
  <2>9. CASE InsertSession
    BY <2>9 DEF InsertSession, HandlerStep, StartSteps
  <2>10. CASE ReleaseSession
    BY <2>10 DEF ReleaseSession, HandlerStep, StartSteps
  <2>11. CASE CheckIdleTimer
    <3>1. CASE idle.wait = "aborted" /\ idle' = AsyncWait(idle)
               /\ UNCHANGED <<stopped, open, strand, read>>
      BY <2>11, <3>1, <2>0, TimerType DEF CheckIdleTimer
    <3>2. CASE idle.wait = "expired" /\ Stop(Ended(idle), read)
      <4>1. Ended(idle) \in Timer(IdleSeconds)
        BY <2>0, TimerType
      <4> QED  BY <2>11, <3>2, <4>1, StopType DEF CheckIdleTimer
    <3> QED  BY <2>11, <3>1, <3>2 DEF CheckIdleTimer
  <2>12. CASE CheckReadDeadline
    <3>1. readTimer' \in Timer(ReadSeconds)
      BY <2>12, <2>0, TimerType DEF CheckReadDeadline
    <3>2. CASE UNCHANGED <<stopped, open, strand, idle, read>>
      BY <2>12, <3>1, <3>2 DEF CheckReadDeadline
    <3>3. CASE Stop(idle, read)
      BY <2>12, <3>1, <3>3, StopType DEF CheckReadDeadline
    <3> QED  BY <2>12, <3>2, <3>3 DEF CheckReadDeadline
  <2>13. CASE ReadDoneAfterDestroy
    BY <2>13 DEF ReadDoneAfterDestroy, Faults, ReadOp, NoRead
  <2>14. CASE ReadDoneAfterClose
    BY <2>14 DEF ReadDoneAfterClose, ReadOp, NoRead
  <2>15. NoRead \in ReadOp
    BY DEF ReadOp
  <2>16. ASSUME NEW part \in {"length", "body"}, NextRead(part)
         PROVE  readTimer' \in Timer(ReadSeconds) /\ read' \in ReadOp
    BY <2>16, <2>0, TimerType DEF NextRead, AsyncRead, ReadOp
  <2>17. CASE LengthRead
    <3>1. CASE NextRead("body") /\ UNCHANGED <<stopped, open, strand, idle>>
      BY <2>17, <2>16, <3>1 DEF LengthRead
    <3>2. CASE Stop(idle, NoRead) /\ UNCHANGED readTimer
      BY <2>17, <2>15, <3>2, StopType DEF LengthRead
    <3> QED  BY <2>17, <3>1, <3>2 DEF LengthRead
  <2>18. CASE BodyRead
    <3>1. CASE NextRead("length") /\ UNCHANGED fault
      BY <2>18, <2>16, <3>1 DEF BodyRead
    <3>2. CASE fault' = "invalid_argument" /\ UNCHANGED <<readTimer, read>>
      BY <2>18, <3>2 DEF BodyRead, Faults
    <3> QED  BY <2>18, <3>1, <3>2 DEF BodyRead
  <2>19. CASE ReadFailed
    BY <2>19, <2>15, StopType DEF ReadFailed
  <2>20. CASE RemoveSession
    BY <2>20 DEF RemoveSession
  <2>21. CASE ReadCompletes
    BY <2>21 DEF ReadCompletes, ReadOp, NoRead
  <2>22. CASE IdleTimerFires
    BY <2>22, <2>0, TimerType DEF IdleTimerFires
  <2>23. CASE ReadTimerFires
    BY <2>23, <2>0, TimerType DEF ReadTimerFires
  <2>24. CASE Tick
    BY <2>24, <2>0, TimerType DEF Tick
  <2>25. CASE UNCHANGED vars
    BY <2>25 DEF vars
  <2> QED
    BY <2>1, <2>2, <2>3, <2>4, <2>5, <2>6, <2>7, <2>8, <2>9, <2>10, <2>11,
       <2>12, <2>13, <2>14, <2>17, <2>18, <2>19, <2>20, <2>21, <2>22, <2>23,
       <2>24, <2>25
    DEF Next, AcceptHandler, ReadHandler
<1> QED  BY <1>1, <1>2, PTL DEF Spec
-----------------------------------------------------------------------------
(***************************************************************************)
(* The strengthening from which the guarantees for every number of threads *)
(* follow.  Nothing exists before the accept handler has constructed the   *)
(* session; as long as stop() has not run, the idle wait owns the session; *)
(* stop() is the only way to close the socket and leaves no pending read.  *)
(***************************************************************************)
Owned ==
  /\ open <=> ~stopped
  /\ ~Constructed => /\ idle.wait = "none" /\ readTimer.wait = "none"
                     /\ read = NoRead /\ strand = "free"
                     /\ ~registered /\ ~stopped
  /\ Constructed /\ ~stopped => idle.wait # "none"
  /\ stopped => read.ec # "pending"
  /\ strand = "closing" => stopped

\* A call of stop() in a constructed session keeps the strengthening, even
\* when the idle wait or the read whose handler calls it has ended.
LEMMA StopOwned ==
  ASSUME TypeOK, Owned, Constructed, strand = "free",
         NEW t, NEW r \in ReadOp, Stop(t, r),
         stopped => r.ec # "pending",
         UNCHANGED <<handler, registered>>
  PROVE  Owned'
<1>1. AbortRead(r).ec # "pending"
  BY DEF AbortRead, ReadOp, NoRead
<1>2. CASE stopped
  BY <1>2 DEF Stop, Owned, Constructed
<1>3. CASE ~stopped
  BY <1>1, <1>3 DEF Stop, Owned, Constructed, TypeOK
<1> QED  BY <1>2, <1>3 DEF TypeOK

LEMMA OwnedInductive == TypeOK /\ Owned /\ [Next]_vars => Owned'
<1> SUFFICES ASSUME TypeOK, Owned, [Next]_vars PROVE Owned'
  OBVIOUS
<1> USE DEF Owned, Constructed
<1>1. CASE PeerAlreadyGone
  BY <1>1 DEF PeerAlreadyGone
<1>2. CASE ConstructSession
  BY <1>2 DEF ConstructSession, HandlerStep, NewTimer
<1>3. CASE ConstructorThrows
  BY <1>3 DEF ConstructorThrows
<1>4. CASE StartCancelIdle
  BY <1>4 DEF StartCancelIdle, HandlerStep, Cancel, TypeOK, Timer
<1>5. CASE StartArmIdle
  BY <1>5 DEF StartArmIdle, HandlerStep, SetExpiry, TypeOK, Timer
<1>6. CASE StartCancelRead
  BY <1>6 DEF StartCancelRead, HandlerStep
<1>7. CASE StartArmRead
  BY <1>7 DEF StartArmRead, HandlerStep
<1>8. CASE StartRead
  BY <1>8 DEF StartRead, HandlerStep, AsyncRead
<1>9. CASE InsertSession
  BY <1>9 DEF InsertSession, HandlerStep
<1>10. CASE ReleaseSession
  BY <1>10 DEF ReleaseSession, HandlerStep
<1>11. CASE CheckIdleTimer
  <2>1. Constructed /\ strand = "free"
    BY <1>11 DEF CheckIdleTimer, CanRunHandler
  <2>2. CASE idle' = AsyncWait(idle) /\ UNCHANGED <<stopped, open, strand, read>>
    BY <1>11, <2>1, <2>2 DEF CheckIdleTimer, AsyncWait, TypeOK, Timer
  <2>3. CASE idle.wait = "expired" /\ Stop(Ended(idle), read)
    BY <1>11, <2>1, <2>3, StopOwned DEF CheckIdleTimer, TypeOK
  <2> QED  BY <1>11, <2>2, <2>3 DEF CheckIdleTimer
<1>12. CASE CheckReadDeadline
  <2>1. Constructed /\ strand = "free"
    BY <1>12 DEF CheckReadDeadline, CanRunHandler
  <2>2. CASE UNCHANGED <<stopped, open, strand, idle, read>>
    BY <1>12, <2>1, <2>2 DEF CheckReadDeadline
  <2>3. CASE Stop(idle, read)
    BY <1>12, <2>1, <2>3, StopOwned DEF CheckReadDeadline, TypeOK
  <2> QED  BY <1>12, <2>2, <2>3 DEF CheckReadDeadline
<1>13. CASE ReadDoneAfterDestroy
  BY <1>13 DEF ReadDoneAfterDestroy, NoRead
<1>14. CASE ReadDoneAfterClose
  BY <1>14 DEF ReadDoneAfterClose, NoRead
<1>15. NoRead \in ReadOp /\ NoRead.ec # "pending" /\ NoRead.op = "none"
  BY DEF ReadOp, NoRead
<1>16. CASE LengthRead
  <2>1. Constructed /\ strand = "free" /\ ~stopped
    BY <1>16, <1>15 DEF LengthRead, ReadDone, CanRunHandler
  <2>2. CASE NextRead("body") /\ UNCHANGED <<stopped, open, strand, idle>>
    BY <1>16, <2>1, <2>2 DEF LengthRead, NextRead, AsyncRead
  <2>3. CASE Stop(idle, NoRead)
    BY <1>15, <1>16, <2>1, <2>3, StopOwned DEF LengthRead
  <2> QED  BY <1>16, <2>2, <2>3 DEF LengthRead
<1>17. CASE BodyRead
  <2>1. Constructed /\ ~stopped
    BY <1>17, <1>15 DEF BodyRead, ReadDone
  <2> QED  BY <1>17, <2>1 DEF BodyRead, NextRead, AsyncRead
<1>18. CASE ReadFailed
  <2>1. Constructed /\ strand = "free" /\ ~stopped
    BY <1>18, <1>15 DEF ReadFailed, ReadDone, CanRunHandler
  <2> QED  BY <1>15, <1>18, <2>1, StopOwned DEF ReadFailed
<1>19. CASE RemoveSession
  BY <1>19 DEF RemoveSession
<1>20. CASE ReadCompletes
  BY <1>15, <1>20 DEF ReadCompletes, TypeOK, ReadOp
<1>21. CASE IdleTimerFires
  BY <1>21 DEF IdleTimerFires, IsDue, Fire, TypeOK, Timer
<1>22. CASE ReadTimerFires
  BY <1>22 DEF ReadTimerFires, IsDue, Fire, TypeOK, Timer
<1>23. CASE Tick
  BY <1>23 DEF Tick, Elapse, TypeOK, Timer
<1>24. CASE UNCHANGED vars
  BY <1>24 DEF vars
<1> QED
  BY <1>1, <1>2, <1>3, <1>4, <1>5, <1>6, <1>7, <1>8, <1>9, <1>10, <1>11,
     <1>12, <1>13, <1>14, <1>16, <1>17, <1>18, <1>19, <1>20, <1>21, <1>22,
     <1>23, <1>24
  DEF Next, AcceptHandler, ReadHandler

LEMMA OwnedInvariant == Spec => []Owned
<1>1. Init => Owned
  BY DEF Init, Owned, Constructed, NoRead, Ended, NewTimer
<1> QED  BY <1>1, OwnedInductive, TypeCorrect, PTL DEF Spec

\* With any number of worker threads, the kernel never holds a read into the
\* buffer of a connection whose Session is destroyed: the last owner goes
\* only after stop() has closed the socket and so aborted the read.
THEOREM ReadsHaveASession == Spec => []NoPendingReadWithoutSession
<1>1. Owned => NoPendingReadWithoutSession
  BY DEF Owned, NoPendingReadWithoutSession, SessionAlive
<1> QED  BY <1>1, OwnedInvariant, PTL
-----------------------------------------------------------------------------
\* A handler that calls stop() takes a stop step or, after the first call,
\* none at all.
LEMMA StopStep ==
  ASSUME Owned, Constructed, Up, strand = "free", NEW t, NEW r, Stop(t, r),
         UNCHANGED <<fault, handler, registered>>
  PROVE  [Life!LifeNext]_(Life!lifeVars)
<1> USE DEF Constructed, Started
<1>1. CASE stopped
  <2>1. UNCHANGED <<handler, stopped, strand, registered, fault>>
    BY <1>1 DEF Stop
  <2> QED  BY <2>1 DEF Life!lifeVars, Up
<1>2. CASE ~stopped
  <2>1. Life!LifeStop
    BY <1>2 DEF Stop, Life!LifeStop
  <2> QED  BY <2>1 DEF Life!LifeNext, Life!LifeStep, Up
<1> QED  BY <1>1, <1>2

LEMMA LifeStepSimulation ==
  TypeOK /\ Owned /\ [Next]_vars => [Life!LifeNext]_(Life!lifeVars)
<1> SUFFICES ASSUME TypeOK, Owned, [Next]_vars
             PROVE  [Life!LifeNext]_(Life!lifeVars)
  OBVIOUS
<1> USE DEF Constructed, Started
<1>1. ASSUME Up, fault' # "none", UNCHANGED <<handler, stopped, strand, registered>>
      PROVE  Life!LifeNext
  BY <1>1 DEF Life!LifeNext, Life!LifeThrow, Up
<1>2. ASSUME UNCHANGED <<fault, handler, stopped, strand, registered>>
      PROVE  UNCHANGED Life!lifeVars
  BY <1>2 DEF Life!lifeVars, Up
<1>3. CASE PeerAlreadyGone
  BY <1>1, <1>3 DEF PeerAlreadyGone
<1>4. CASE ConstructSession
  <2>1. Life!LifeStart
    BY <1>4 DEF ConstructSession, HandlerStep, Owned, Life!LifeStart
  <2> QED  BY <1>4, <2>1
           DEF ConstructSession, HandlerStep, Up, Life!LifeNext, Life!LifeStep
<1>5. CASE ConstructorThrows
  BY <1>1, <1>5 DEF ConstructorThrows
<1>6. CASE StartCancelIdle \/ StartArmIdle \/ StartCancelRead \/ StartArmRead
           \/ StartRead \/ ReleaseSession
  <2>1. UNCHANGED <<fault, stopped, strand, registered>>
    BY <1>6 DEF StartCancelIdle, StartArmIdle, StartCancelRead, StartArmRead,
                StartRead, ReleaseSession
  <2>2. /\ handler # "accepted" /\ handler' # "accepted"
        /\ Started <=> Started'
    BY <1>6 DEF StartCancelIdle, StartArmIdle, StartCancelRead, StartArmRead,
                StartRead, ReleaseSession, HandlerStep
  <2> QED  BY <2>1, <2>2 DEF Life!lifeVars, Up
<1>7. CASE InsertSession
  <2>1. Life!LifeInsert
    BY <1>7 DEF InsertSession, HandlerStep, Life!LifeInsert
  <2> QED  BY <1>7, <2>1
           DEF InsertSession, HandlerStep, Up, Life!LifeNext, Life!LifeStep
<1>8. CASE CheckIdleTimer
  <2>1. Constructed /\ strand = "free" /\ Up
    BY <1>8 DEF CheckIdleTimer, CanRunHandler, Owned
  <2> QED  BY <1>2, <1>8, <2>1, StopStep DEF CheckIdleTimer
<1>9. CASE CheckReadDeadline
  <2>1. Constructed /\ strand = "free" /\ Up
    BY <1>9 DEF CheckReadDeadline, CanRunHandler, Owned
  <2> QED  BY <1>2, <1>9, <2>1, StopStep DEF CheckReadDeadline
<1>10. CASE ReadDoneAfterDestroy
  BY <1>1, <1>2, <1>10 DEF ReadDoneAfterDestroy, ReadDone, CanRunHandler, Up
<1>11. CASE ReadDoneAfterClose
  BY <1>2, <1>11 DEF ReadDoneAfterClose
<1>12. CASE LengthRead \/ ReadFailed
  <2>1. Constructed /\ strand = "free" /\ Up
    BY <1>12 DEF LengthRead, ReadFailed, ReadDone, CanRunHandler, Owned, NoRead
  <2> QED  BY <1>2, <1>12, <2>1, StopStep DEF LengthRead, ReadFailed
<1>13. CASE BodyRead
  BY <1>1, <1>2, <1>13 DEF BodyRead, ReadDone, CanRunHandler
<1>14. CASE RemoveSession
  <2>1. Life!LifeRemove
    BY <1>14 DEF RemoveSession, Owned, Life!LifeRemove
  <2> QED  BY <1>14, <2>1 DEF RemoveSession, Up, Life!LifeNext, Life!LifeStep
<1>15. CASE ReadCompletes \/ IdleTimerFires \/ ReadTimerFires \/ Tick
  BY <1>2, <1>15 DEF ReadCompletes, IdleTimerFires, ReadTimerFires, Tick
<1>16. CASE UNCHANGED vars
  BY <1>2, <1>16 DEF vars
<1> QED
  BY <1>3, <1>4, <1>5, <1>6, <1>7, <1>8, <1>9, <1>10, <1>11, <1>12, <1>13,
     <1>14, <1>15, <1>16
  DEF Next, AcceptHandler, ReadHandler

\* Connection implements ConnectionLife: whatever its peer, its timers and
\* the other threads do, a connection is started once, inserted once, and
\* stopped and removed at most once, the removal after the stop.
THEOREM ConnectionImplementsLife == Spec => LifeContract
<1>1. Init => Life!LifeInit
  BY DEF Init, Life!LifeInit, Up
<1> QED
  BY <1>1, LifeStepSimulation, OwnedInvariant, TypeCorrect, PTL
  DEF Spec, LifeContract, Life!LifeSpec
-----------------------------------------------------------------------------
(***************************************************************************)
(* One worker thread: no handler of the strand runs between the first and  *)
(* the last statement of the accept handler, so start() is done with the   *)
(* timers when their handlers run, and the session is inserted before it   *)
(* can stop.                                                               *)
(***************************************************************************)
Serial ==
  /\ stopped => handler = "done"
  /\ stopped /\ strand = "free" => ~registered
  /\ handler \in {"cancel_idle", "arm_idle", "cancel_read"} => readTimer = NewTimer
  /\ handler \in {"arm_read", "start_read"} => readTimer.wait = "aborted"
  /\ handler \in {"start_read", "insert", "release", "done"} /\ ~stopped =>
       /\ readTimer.wait # "none"
       /\ readTimer.wait = "aborted" => readTimer.expiry # Never
       /\ readTimer.wait = "pending" => readTimer.due # Never

\* With one thread a handler of the strand runs before the accept handler of
\* the connection or after it.
LEMMA HandlersAlone ==
  ASSUME ThreadCount = 1, TypeOK, FreeThread
  PROVE  handler \in {"accepted", "done"} /\ strand = "free"
BY DEF FreeThread, Busy, TypeOK

\* NextRead leaves a wait that will be started again with a finite expiry,
\* unless its handler already runs.
LEMMA NextReadDeadline ==
  ASSUME TypeOK, NEW part, NextRead(part), readTimer.wait # "none"
  PROVE  /\ readTimer'.wait \in {"aborted", "expired"}
         /\ readTimer'.expiry # Never
BY ConnectionAssumption
DEF NextRead, ExpiresAfter, SetExpiry, Cancel, TypeOK, Timer, Never

LEMMA SerialInductive ==
  ASSUME ThreadCount = 1
  PROVE  TypeOK /\ Owned /\ Serial /\ [Next]_vars => Serial'
<1> SUFFICES ASSUME TypeOK, Owned, Serial, [Next]_vars PROVE Serial'
  OBVIOUS
<1> USE DEF Serial
<1>0. /\ Never \notin Nat
      /\ NoRead.op = "none"
  BY DEF Never, NoRead
<1>1. CASE PeerAlreadyGone
  BY <1>1 DEF PeerAlreadyGone
<1>2. CASE ConstructSession
  BY <1>2 DEF ConstructSession, HandlerStep
<1>3. CASE ConstructorThrows
  BY <1>3 DEF ConstructorThrows
<1>4. CASE StartCancelIdle
  BY <1>4 DEF StartCancelIdle, HandlerStep
<1>5. CASE StartArmIdle
  BY <1>5 DEF StartArmIdle, HandlerStep
<1>6. CASE StartCancelRead
  BY <1>6 DEF StartCancelRead, HandlerStep, Cancel, NewTimer
<1>7. CASE StartArmRead
  BY <1>0, <1>7, ConnectionAssumption
  DEF StartArmRead, HandlerStep, SetExpiry, TypeOK, Timer
<1>8. CASE StartRead
  BY <1>8 DEF StartRead, HandlerStep
<1>9. CASE InsertSession
  BY <1>9 DEF InsertSession, HandlerStep
<1>10. CASE ReleaseSession
  BY <1>10 DEF ReleaseSession, HandlerStep
<1>11. CASE CheckIdleTimer
  <2>1. handler = "done" /\ strand = "free"
    BY <1>11, HandlersAlone DEF CheckIdleTimer, CanRunHandler, Owned, Constructed
  <2> QED  BY <1>11, <2>1 DEF CheckIdleTimer, Stop
<1>12. CASE CheckReadDeadline
  <2>1. handler = "done" /\ strand = "free"
    BY <1>12, HandlersAlone DEF CheckReadDeadline, CanRunHandler, Owned, Constructed
  <2>2. CASE readTimer.wait = "aborted" /\ readTimer' = AsyncWait(readTimer)
             /\ UNCHANGED <<stopped, open, strand, idle, read>>
    BY <1>12, <2>1, <2>2 DEF CheckReadDeadline, AsyncWait, TypeOK, Timer
  <2>3. CASE SessionAlive /\ Stop(idle, read)
    BY <1>12, <2>1, <2>3 DEF CheckReadDeadline, Stop
  <2>4. CASE ~SessionAlive /\ UNCHANGED <<stopped, open, strand, idle, read>>
    <3>1. stopped
      BY <2>1, <2>4 DEF Owned, Constructed, SessionAlive
    <3> QED  BY <1>12, <2>1, <2>4, <3>1 DEF CheckReadDeadline
  <2> QED  BY <1>12, <2>2, <2>3, <2>4 DEF CheckReadDeadline
<1>13. CASE ReadDoneAfterDestroy
  BY <1>13 DEF ReadDoneAfterDestroy
<1>14. CASE ReadDoneAfterClose
  BY <1>14 DEF ReadDoneAfterClose
<1>15. CASE LengthRead
  <2>1. handler = "done" /\ strand = "free" /\ ~stopped
    BY <1>0, <1>15, HandlersAlone
    DEF LengthRead, ReadDone, CanRunHandler, Owned, Constructed
  <2>2. CASE NextRead("body") /\ UNCHANGED <<stopped, open, strand, idle>>
    BY <1>15, <2>1, <2>2, NextReadDeadline DEF LengthRead
  <2>3. CASE Stop(idle, NoRead) /\ UNCHANGED readTimer
    BY <1>15, <2>1, <2>3 DEF LengthRead, Stop
  <2> QED  BY <1>15, <2>2, <2>3 DEF LengthRead
<1>16. CASE BodyRead
  <2>1. handler = "done" /\ strand = "free" /\ ~stopped
    BY <1>0, <1>16, HandlersAlone
    DEF BodyRead, ReadDone, CanRunHandler, Owned, Constructed
  <2>2. CASE NextRead("length")
    BY <1>16, <2>1, <2>2, NextReadDeadline DEF BodyRead
  <2>3. CASE UNCHANGED <<readTimer, read>>
    BY <1>16, <2>1, <2>3 DEF BodyRead
  <2> QED  BY <1>16, <2>2, <2>3 DEF BodyRead
<1>17. CASE ReadFailed
  <2>1. handler = "done" /\ strand = "free" /\ ~stopped
    BY <1>0, <1>17, HandlersAlone
    DEF ReadFailed, ReadDone, CanRunHandler, Owned, Constructed
  <2>2. stopped' /\ strand' = "closing"
    BY <1>17, <2>1 DEF ReadFailed, Stop
  <2> QED  BY <1>17, <2>1, <2>2 DEF ReadFailed
<1>18. CASE RemoveSession
  BY <1>18 DEF RemoveSession
<1>19. CASE ReadCompletes
  BY <1>19 DEF ReadCompletes
<1>20. CASE IdleTimerFires
  BY <1>20 DEF IdleTimerFires
<1>21. CASE ReadTimerFires
  <2>1. handler \notin {"cancel_idle", "arm_idle", "cancel_read", "arm_read",
                       "start_read"}
    BY <1>21 DEF ReadTimerFires, IsDue, NewTimer, Never
  <2>2. readTimer'.wait = "expired"
    BY <1>21 DEF ReadTimerFires, Fire, TypeOK, Timer
  <2> QED  BY <1>21, <2>1, <2>2 DEF ReadTimerFires
<1>22. CASE Tick
  <2>1. /\ readTimer'.wait = readTimer.wait
        /\ readTimer.expiry # Never => readTimer'.expiry # Never
        /\ readTimer.due # Never => readTimer'.due # Never
        /\ readTimer = NewTimer => readTimer' = NewTimer
    <3>1. /\ CountDown(Never) = Never
          /\ \A x \in Times(ReadSeconds) : x # Never => CountDown(x) # Never
      BY ConnectionAssumption DEF CountDown, Never, Times
    <3>2. /\ readTimer'.wait = readTimer.wait
          /\ readTimer'.expiry = CountDown(readTimer.expiry)
          /\ readTimer'.due = CountDown(readTimer.due)
          /\ readTimer' = [readTimer EXCEPT !.expiry = readTimer'.expiry,
                                            !.due = readTimer'.due]
      BY <1>22 DEF Tick, Elapse, TypeOK, Timer
    <3>3. /\ readTimer.expiry \in Times(ReadSeconds)
          /\ readTimer.due \in Times(ReadSeconds)
      BY DEF TypeOK, Timer
    <3>4. readTimer = NewTimer => readTimer' = NewTimer
      BY <3>1, <3>2 DEF NewTimer
    <3> QED  BY <3>1, <3>2, <3>3, <3>4
  <2> QED  BY <1>22, <2>1 DEF Tick
<1>23. CASE UNCHANGED vars
  BY <1>23 DEF vars
<1> QED
  BY <1>1, <1>2, <1>3, <1>4, <1>5, <1>6, <1>7, <1>8, <1>9, <1>10, <1>11,
     <1>12, <1>13, <1>14, <1>15, <1>16, <1>17, <1>18, <1>19, <1>20, <1>21,
     <1>22, <1>23
  DEF Next, AcceptHandler, ReadHandler

LEMMA SerialInvariant == ASSUME ThreadCount = 1 PROVE Spec => []Serial
<1>1. Init => Serial
  BY DEF Init, Serial
<1> QED
  BY <1>1, SerialInductive, OwnedInvariant, TypeCorrect, PTL DEF Spec

\* With one worker thread no session stays in sessions_ once it has stopped,
\* so every stopped session is destroyed in the end.
THEOREM OneThreadLeavesNoGhost ==
  ASSUME ThreadCount = 1
  PROVE  Spec => []NoGhostSession
<1>1. Serial => NoGhostSession
  BY DEF Serial, NoGhostSession
<1> QED  BY <1>1, SerialInvariant, PTL

\* With one worker thread no pending read is without its deadline, so a
\* silent peer is always found out.
THEOREM OneThreadKeepsDeadlines ==
  ASSUME ThreadCount = 1
  PROVE  Spec => []PendingReadHasDeadline
<1>1. TypeOK /\ Owned /\ Serial => PendingReadHasDeadline
  BY DEF TypeOK, Owned, Serial, PendingReadHasDeadline, Started
<1> QED  BY <1>1, SerialInvariant, OwnedInvariant, TypeCorrect, PTL
-----------------------------------------------------------------------------
(***************************************************************************)
(* What StartedSessionStops and StoppedSessionReleased rest on.  A wait    *)
(* that is pending ends when its due time has run down, one that was       *)
(* cancelled is started again with the expiry.                             *)
(***************************************************************************)
Remaining(t) == IF t.wait = "pending" THEN t.due
                ELSE IF t.wait = "aborted" THEN t.expiry
                ELSE 0

\* A timer whose next wait, or the one pending, ends with its expiry.
Punctual(t) == t.expiry # Never /\ (t.wait = "pending" => t.due = t.expiry)

LEMMA RemainingIsExpiry ==
  ASSUME NEW n \in Nat, NEW t \in Timer(n), Punctual(t)
  PROVE  /\ Remaining(t) = IF t.wait \in {"pending", "aborted"} THEN t.expiry ELSE 0
         /\ Remaining(t) \in 0 .. n
BY DEF Remaining, Punctual, Timer, Times, Never

\* No operation of a timer but a new expiry makes it late or gives it time.
LEMMA PunctualOperations ==
  ASSUME NEW n \in Nat, NEW t \in Timer(n), Punctual(t)
  PROVE  /\ Punctual(Ended(t)) /\ Ended(t).expiry = t.expiry
         /\ Punctual(Cancel(t)) /\ Cancel(t).expiry = t.expiry
         /\ Cancel(t).wait = "none" <=> t.wait = "none"
         /\ Cancel(t).wait \in {"pending", "aborted"} => t.wait \in {"pending", "aborted"}
         /\ t.wait = "aborted" => Punctual(AsyncWait(t))
         /\ AsyncWait(t).expiry = t.expiry
         /\ Punctual(Fire(t)) /\ Fire(t).expiry = t.expiry
         /\ Punctual(Elapse(t)) /\ Elapse(t).wait = t.wait
         /\ Elapse(t).expiry <= t.expiry
         /\ t.expiry > 0 => Elapse(t).expiry < t.expiry
         /\ \A m \in 0 .. n : Punctual(ExpiresAfter(t, m))
<1> USE DEF Punctual, Timer, Never
<1>1. CountDown(t.expiry) # -1
  BY DEF CountDown, Times
<1>2. /\ CountDown(t.expiry) <= t.expiry
      /\ t.expiry > 0 => CountDown(t.expiry) < t.expiry
  BY DEF CountDown, Times
<1>3. /\ Elapse(t).wait = t.wait
      /\ Elapse(t).expiry = CountDown(t.expiry)
      /\ Elapse(t).due = CountDown(t.due)
  BY DEF Elapse
<1>4. /\ Punctual(Elapse(t)) /\ Elapse(t).wait = t.wait
      /\ Elapse(t).expiry <= t.expiry
      /\ t.expiry > 0 => Elapse(t).expiry < t.expiry
  BY <1>1, <1>2, <1>3
<1>5. /\ Punctual(Ended(t)) /\ Ended(t).expiry = t.expiry
      /\ Punctual(Fire(t)) /\ Fire(t).expiry = t.expiry
      /\ t.wait = "aborted" => Punctual(AsyncWait(t))
      /\ AsyncWait(t).expiry = t.expiry
  BY DEF Ended, Fire, AsyncWait
<1>6. /\ Punctual(Cancel(t)) /\ Cancel(t).expiry = t.expiry
      /\ Cancel(t).wait = "none" <=> t.wait = "none"
      /\ Cancel(t).wait \in {"pending", "aborted"} => t.wait \in {"pending", "aborted"}
  BY DEF Cancel
<1>7. \A m \in 0 .. n : Punctual(ExpiresAfter(t, m))
  BY DEF ExpiresAfter, SetExpiry, Cancel
<1> QED  BY <1>4, <1>5, <1>6, <1>7

\* With one thread the wait of each timer is as long as its expiry from the
\* statement of start() on that sets it.
Timely ==
  /\ handler = "cancel_idle" => idle.wait = "pending" /\ idle.due = Never
  /\ handler = "arm_idle" => idle.wait = "aborted"
  /\ handler \in {"cancel_read", "arm_read", "start_read", "insert"} \/ Started
       => Punctual(idle)
  /\ handler \in {"start_read", "insert"} \/ Started => Punctual(readTimer)

\* After a call of stop() the idle timer ends no later than without it.
LEMMA StopPunctual ==
  ASSUME TypeOK, NEW t \in Timer(IdleSeconds), Punctual(t), NEW r, Stop(t, r)
  PROVE  /\ Punctual(idle') /\ idle'.expiry = t.expiry
         /\ idle'.wait = "none" <=> t.wait = "none"
         /\ idle'.wait \in {"pending", "aborted"} => t.wait \in {"pending", "aborted"}
BY PunctualOperations, ConnectionAssumption DEF Stop

\* No handler of a started session sets the idle timer back, packets included,
\* and of a stopped one none begins a wait or a read again.
HandlerRunsDown ==
  /\ Punctual(idle') /\ Punctual(readTimer')
  /\ idle'.expiry <= idle.expiry
  /\ idle.wait \notin {"pending", "aborted"} => idle'.wait \notin {"pending", "aborted"}
  /\ stopped => /\ readTimer'.expiry <= readTimer.expiry
                /\ readTimer.wait \notin {"pending", "aborted"}
                     => readTimer'.wait \notin {"pending", "aborted"}
                /\ idle.wait = "none" => idle'.wait = "none"
                /\ readTimer.wait = "none" => readTimer'.wait = "none"
                /\ read' \in {read, NoRead}

LEMMA HandlersRunDown ==
  ASSUME ThreadCount = 1, TypeOK, Owned, Timely,
         CheckIdleTimer \/ CheckReadDeadline \/ ReadHandler
  PROVE  handler = "done" /\ handler' = "done" /\ HandlerRunsDown
<1>1. NoRead.op = "none" /\ IdleSeconds \in Nat /\ ReadSeconds \in Nat
  BY ConnectionAssumption DEF NoRead
<1>2. handler = "done" /\ handler' = "done" /\ strand = "free"
  BY <1>1, HandlersAlone
  DEF CheckIdleTimer, CheckReadDeadline, ReadHandler, ReadDoneAfterDestroy,
      ReadDoneAfterClose, LengthRead, BodyRead, ReadFailed, ReadDone, CanRunHandler,
      Owned, Constructed
<1> SUFFICES HandlerRunsDown
  BY <1>2
<1>3. /\ Punctual(idle) /\ idle \in Timer(IdleSeconds)
      /\ Punctual(readTimer) /\ readTimer \in Timer(ReadSeconds)
      /\ idle.expiry <= idle.expiry /\ readTimer.expiry <= readTimer.expiry
      /\ open <=> ~stopped
      /\ stopped => read.ec # "pending"
  BY <1>2 DEF Timely, Started, TypeOK, Owned, Timer, Times, Never
<1>4. ASSUME NEW r, Stop(idle, r), UNCHANGED readTimer, r \in {read, NoRead}
      PROVE  HandlerRunsDown
  BY <1>1, <1>3, <1>4, StopPunctual DEF HandlerRunsDown, Stop
<1>5. CASE CheckIdleTimer
  <2>1. CASE idle.wait = "aborted" /\ idle' = AsyncWait(idle)
             /\ UNCHANGED <<stopped, open, strand, read>>
    BY <1>1, <1>3, <1>5, <2>1, PunctualOperations DEF CheckIdleTimer, HandlerRunsDown
  <2>2. CASE idle.wait = "expired" /\ Stop(Ended(idle), read)
    <3>1. /\ Punctual(Ended(idle)) /\ Ended(idle).expiry = idle.expiry
          /\ Ended(idle) \in Timer(IdleSeconds) /\ Ended(idle).wait = "none"
      BY <1>1, <1>3, PunctualOperations DEF Ended, Timer
    <3>2. /\ Punctual(idle') /\ idle'.expiry = idle.expiry
          /\ idle'.wait \notin {"pending", "aborted"}
          /\ idle'.wait = "none"
      BY <3>1, <2>2, StopPunctual
    <3> QED  BY <1>3, <1>5, <2>2, <3>2 DEF CheckIdleTimer, HandlerRunsDown, Stop
  <2> QED  BY <1>5, <2>1, <2>2 DEF CheckIdleTimer
<1>6. CASE CheckReadDeadline
  <2>1. CASE readTimer.wait = "aborted" /\ readTimer' = AsyncWait(readTimer)
             /\ UNCHANGED <<stopped, open, strand, idle, read>>
    BY <1>1, <1>3, <1>6, <2>1, PunctualOperations DEF CheckReadDeadline, HandlerRunsDown
  <2>2. CASE readTimer.wait = "expired" /\ readTimer' = Ended(readTimer)
    <3>1. /\ Punctual(readTimer') /\ readTimer'.expiry = readTimer.expiry
          /\ readTimer'.wait = "none"
      BY <1>1, <1>3, <2>2, PunctualOperations DEF Ended, Timer
    <3>2. CASE Stop(idle, read)
      BY <1>1, <1>3, <3>1, <3>2, StopPunctual DEF HandlerRunsDown, Stop
    <3>3. CASE UNCHANGED <<stopped, open, strand, idle, read>>
      BY <1>3, <3>1, <3>3 DEF HandlerRunsDown
    <3> QED  BY <1>6, <2>2, <3>2, <3>3 DEF CheckReadDeadline
  <2> QED  BY <1>6, <2>1, <2>2 DEF CheckReadDeadline
<1>7. CASE ReadHandler
  <2>1. CASE ReadDoneAfterDestroy \/ ReadDoneAfterClose
    BY <1>3, <2>1 DEF ReadDoneAfterDestroy, ReadDoneAfterClose, HandlerRunsDown
  <2>2. ASSUME NEW part, NextRead(part), ~stopped, UNCHANGED idle
        PROVE  HandlerRunsDown
    <3>1. Punctual(readTimer')
      BY <1>1, <1>3, <2>2, PunctualOperations DEF NextRead
    <3> QED  BY <1>3, <2>2, <3>1 DEF HandlerRunsDown
  <2>3. CASE LengthRead
    BY <1>3, <1>4, <2>2, <2>3 DEF LengthRead
  <2>4. CASE BodyRead
    <3>1. CASE NextRead("length")
      BY <1>3, <2>2, <2>4, <3>1 DEF BodyRead
    <3>2. CASE UNCHANGED <<readTimer, read>>
      BY <1>3, <2>4, <3>2 DEF BodyRead, HandlerRunsDown
    <3> QED  BY <2>4, <3>1, <3>2 DEF BodyRead
  <2>5. CASE ReadFailed
    BY <1>3, <1>4, <2>5 DEF ReadFailed
  <2> QED  BY <1>7, <2>1, <2>3, <2>4, <2>5 DEF ReadHandler
<1> QED  BY <1>5, <1>6, <1>7

\* Time takes from both timers what they have left.
LEMMA TickRunsDown ==
  ASSUME TypeOK, Punctual(idle), Punctual(readTimer), Tick
  PROVE  /\ Punctual(idle') /\ idle'.wait = idle.wait
         /\ idle'.expiry <= idle.expiry
         /\ idle.expiry > 0 => idle'.expiry < idle.expiry
         /\ Punctual(readTimer') /\ readTimer'.wait = readTimer.wait
         /\ readTimer'.expiry <= readTimer.expiry
         /\ readTimer.expiry > 0 => readTimer'.expiry < readTimer.expiry
BY PunctualOperations, ConnectionAssumption DEF Tick, TypeOK

\* The other steps that move a timer of a started session.
LEMMA ClockRunsDown ==
  ASSUME TypeOK, Punctual(idle), Punctual(readTimer),
         IdleTimerFires \/ ReadTimerFires \/ Tick
  PROVE  handler' = handler /\ HandlerRunsDown
<1>1. /\ idle \in Timer(IdleSeconds) /\ IdleSeconds \in Nat
      /\ readTimer \in Timer(ReadSeconds) /\ ReadSeconds \in Nat
      /\ idle.expiry <= idle.expiry /\ readTimer.expiry <= readTimer.expiry
  BY ConnectionAssumption DEF TypeOK, Timer, Times, Never
<1>2. CASE IdleTimerFires
  <2>1. idle.wait = "pending" /\ idle'.wait = "expired"
    BY <1>1, <1>2 DEF IdleTimerFires, IsDue, Fire, Timer
  <2>2. Punctual(idle') /\ idle'.expiry = idle.expiry
    BY <1>1, <1>2, PunctualOperations DEF IdleTimerFires
  <2> QED  BY <1>1, <1>2, <2>1, <2>2 DEF IdleTimerFires, HandlerRunsDown
<1>3. CASE ReadTimerFires
  <2>1. readTimer.wait = "pending" /\ readTimer'.wait = "expired"
    BY <1>1, <1>3 DEF ReadTimerFires, IsDue, Fire, Timer
  <2>2. Punctual(readTimer') /\ readTimer'.expiry = readTimer.expiry
    BY <1>1, <1>3, PunctualOperations DEF ReadTimerFires
  <2> QED  BY <1>1, <1>3, <2>1, <2>2 DEF ReadTimerFires, HandlerRunsDown
<1>4. CASE Tick
  BY <1>4, TickRunsDown DEF Tick, HandlerRunsDown
<1> QED  BY <1>2, <1>3, <1>4

LEMMA TimelyInductive ==
  ASSUME ThreadCount = 1
  PROVE  TypeOK /\ Owned /\ Serial /\ Timely /\ [Next]_vars => Timely'
<1> SUFFICES ASSUME TypeOK, Owned, Serial, Timely, [Next]_vars PROVE Timely'
  OBVIOUS
<1>0. /\ idle \in Timer(IdleSeconds) /\ IdleSeconds \in Nat
      /\ readTimer \in Timer(ReadSeconds) /\ ReadSeconds \in Nat
  BY ConnectionAssumption DEF TypeOK
<1>1. CASE PeerAlreadyGone \/ ConstructorThrows \/ RemoveSession \/ ReadCompletes
           \/ UNCHANGED vars
  BY <1>1 DEF PeerAlreadyGone, ConstructorThrows, RemoveSession, ReadCompletes, vars,
              Timely, Started
<1>2. CASE StartRead \/ InsertSession \/ ReleaseSession
  BY <1>2 DEF StartRead, InsertSession, ReleaseSession, HandlerStep, Timely, Started
<1>3. CASE ConstructSession
  BY <1>3 DEF ConstructSession, HandlerStep, NewTimer, Timely, Started
<1>4. CASE StartCancelIdle
  BY <1>4 DEF StartCancelIdle, HandlerStep, Timely, Started, Cancel, NewTimer
<1>5. CASE StartArmIdle
  <2>1. idle' = SetExpiry(idle, IdleSeconds) /\ idle.wait = "aborted"
    BY <1>5 DEF StartArmIdle, HandlerStep, Timely
  <2>2. Punctual(idle')
    BY <1>0, <2>1 DEF SetExpiry, Punctual, Timer, Never
  <2> QED  BY <1>5, <2>2 DEF StartArmIdle, HandlerStep, Timely, Started
<1>6. CASE StartCancelRead
  BY <1>6 DEF StartCancelRead, HandlerStep, Timely, Started
<1>7. CASE StartArmRead
  <2>1. readTimer' = SetExpiry(readTimer, ReadSeconds) /\ readTimer.wait = "aborted"
    BY <1>7 DEF StartArmRead, HandlerStep, Serial
  <2>2. Punctual(readTimer')
    BY <1>0, <2>1 DEF SetExpiry, Punctual, Timer, Never
  <2> QED  BY <1>7, <2>2 DEF StartArmRead, HandlerStep, Timely, Started
<1>8. CASE CheckIdleTimer \/ CheckReadDeadline \/ ReadHandler
  BY <1>8, HandlersRunDown DEF HandlerRunsDown, Timely
<1>9. CASE IdleTimerFires \/ ReadTimerFires \/ Tick
  <2>1. handler' = handler
    BY <1>9 DEF IdleTimerFires, ReadTimerFires, Tick
  <2>2. handler = "cancel_idle" => idle'.wait = "pending" /\ idle'.due = Never
    <3>1. CountDown(Never) = Never /\ Never # 0
      BY DEF CountDown, Never
    <3>2. /\ Elapse(idle).wait = idle.wait
          /\ Elapse(idle).due = CountDown(idle.due)
      BY <1>0 DEF Elapse, Timer
    <3> QED
      BY <1>9, <3>1, <3>2 DEF IdleTimerFires, ReadTimerFires, Tick, IsDue, Timely
  <2>3. handler = "arm_idle" => idle'.wait = "aborted"
    BY <1>0, <1>9
    DEF Timely, IdleTimerFires, ReadTimerFires, Tick, IsDue, Elapse, Timer
  <2>4. Punctual(idle) => Punctual(idle')
    BY <1>0, <1>9, PunctualOperations DEF IdleTimerFires, ReadTimerFires, Tick
  <2>5. Punctual(readTimer) => Punctual(readTimer')
    BY <1>0, <1>9, PunctualOperations DEF IdleTimerFires, ReadTimerFires, Tick
  <2> QED  BY <2>1, <2>2, <2>3, <2>4, <2>5 DEF Timely, Started
<1> QED
  BY <1>1, <1>2, <1>3, <1>4, <1>5, <1>6, <1>7, <1>8, <1>9 DEF Next, AcceptHandler

LEMMA TimelyInvariant == ASSUME ThreadCount = 1 PROVE Spec => []Timely
<1>1. Init => Timely
  BY DEF Init, Timely, Started
<1> QED
  BY <1>1, TimelyInductive, SerialInvariant, OwnedInvariant, TypeCorrect, PTL DEF Spec
-----------------------------------------------------------------------------
\* A started session is stopped by its idle wait at the latest: until then
\* the wait exists, and it ends within the timeout.
IdleWaitEnds ==
  Started => /\ Remaining(idle) \in 0 .. IdleSeconds
             /\ Remaining(readTimer) \in 0 .. ReadSeconds
             /\ ~stopped => idle.wait # "none"

\* With one worker thread no session outlives its timers, for all timeouts.
THEOREM OneThreadWaitsAreFinite ==
  ASSUME ThreadCount = 1
  PROVE  Spec => []IdleWaitEnds
<1>1. TypeOK /\ Owned /\ Timely => IdleWaitEnds
  BY RemainingIsExpiry, ConnectionAssumption
  DEF TypeOK, Owned, Constructed, Timely, Started, IdleWaitEnds
<1> QED  BY <1>1, TimelyInvariant, OwnedInvariant, TypeCorrect, PTL

\* The clock of a started session only runs down: packets give it no time,
\* each second takes one from it, and after stop() no wait and no read that
\* has ended begins again.
SessionRunsDown ==
  [][Started =>
       /\ Remaining(idle') <= Remaining(idle)
       /\ Tick /\ Remaining(idle) > 0 => Remaining(idle') < Remaining(idle)
       /\ stopped => /\ Remaining(readTimer') <= Remaining(readTimer)
                     /\ Tick /\ Remaining(readTimer) > 0
                          => Remaining(readTimer') < Remaining(readTimer)
                     /\ idle.wait = "none" => idle'.wait = "none"
                     /\ readTimer.wait = "none" => readTimer'.wait = "none"
                     /\ read' \in {read, NoRead}]_vars

\* With one worker thread nothing a peer sends defers the end of its session.
THEOREM OneThreadSessionsRunDown ==
  ASSUME ThreadCount = 1
  PROVE  Spec => SessionRunsDown
<1> DEFINE Waits(t) == t.wait \in {"pending", "aborted"}
           Left(t) == IF Waits(t) THEN t.expiry ELSE 0
           Down == /\ Remaining(idle') <= Remaining(idle)
                   /\ Tick /\ Remaining(idle) > 0 => Remaining(idle') < Remaining(idle)
                   /\ stopped => /\ Remaining(readTimer') <= Remaining(readTimer)
                                 /\ Tick /\ Remaining(readTimer) > 0
                                      => Remaining(readTimer') < Remaining(readTimer)
                                 /\ idle.wait = "none" => idle'.wait = "none"
                                 /\ readTimer.wait = "none" => readTimer'.wait = "none"
                                 /\ read' \in {read, NoRead}
<1>1. ASSUME TypeOK, TypeOK', Owned, Timely, Timely', Next, Started
      PROVE  Down
  <2>1. \/ /\ UNCHANGED <<handler, idle, readTimer>>
           /\ stopped => UNCHANGED read
        \/ /\ ReleaseSession
        \/ /\ handler' = handler
           /\ HandlerRunsDown
    <3>1. CASE RemoveSession \/ ReadCompletes
      BY <1>1, <3>1 DEF RemoveSession, ReadCompletes, Owned
    <3>2. CASE CheckIdleTimer \/ CheckReadDeadline \/ ReadHandler
      BY <1>1, <3>2, HandlersRunDown
    <3>3. CASE IdleTimerFires \/ ReadTimerFires \/ Tick
      BY <1>1, <3>3, ClockRunsDown DEF Timely
    <3> QED
      BY <1>1, <3>1, <3>2, <3>3
      DEF Started, Next, AcceptHandler, PeerAlreadyGone, ConstructSession,
          ConstructorThrows, StartCancelIdle, StartArmIdle, StartCancelRead,
          StartArmRead, StartRead, InsertSession, HandlerStep
  <2>2. /\ Punctual(idle) /\ Punctual(readTimer)
        /\ Punctual(idle') /\ Punctual(readTimer')
    BY <1>1, <2>1 DEF Timely, Started, ReleaseSession, HandlerStep
  <2>3. /\ Remaining(idle) = Left(idle) /\ Remaining(idle') = Left(idle')
        /\ Remaining(readTimer) = Left(readTimer)
        /\ Remaining(readTimer') = Left(readTimer')
    BY <1>1, <2>2, RemainingIsExpiry, ConnectionAssumption DEF TypeOK
  <2>4. {idle.expiry, idle'.expiry, readTimer.expiry, readTimer'.expiry} \subseteq Nat
    BY <1>1, <2>2, ConnectionAssumption DEF TypeOK, Timer, Times, Punctual, Never
  <2>5. CASE Tick
    <3>1. /\ Waits(idle') = Waits(idle) /\ Waits(readTimer') = Waits(readTimer)
          /\ UNCHANGED read
          /\ idle'.wait = idle.wait /\ readTimer'.wait = readTimer.wait
      BY <1>1, <2>2, <2>5, TickRunsDown DEF Tick
    <3> QED  BY <1>1, <2>4, <2>2, <2>3, <2>5, <3>1, TickRunsDown
  <2>6. CASE HandlerRunsDown /\ ~Tick
    BY <2>4, <2>3, <2>6 DEF HandlerRunsDown
  <2>7. CASE UNCHANGED <<idle, readTimer>> /\ (stopped => UNCHANGED read) /\ ~Tick
    BY <2>4, <2>3, <2>7
  <2> QED
    BY <2>1, <2>5, <2>6, <2>7 DEF ReleaseSession
<1>2. TypeOK /\ TypeOK' /\ Owned /\ Timely /\ Timely' /\ [Next]_vars => [Started => Down]_vars
  BY <1>1
<1> QED
  BY <1>2, TimelyInvariant, OwnedInvariant, TypeCorrect, PTL DEF Spec, SessionRunsDown
-----------------------------------------------------------------------------
\* sessions_ holds a session from the end of its start to the return of
\* on_close_, neither shorter nor longer.
HeldWhileOpen == registered <=> Started /\ (~stopped \/ strand = "closing")

\* With one worker thread insert() and remove_session() leave sessions_ exact.
THEOREM OneThreadSessionsAreHeld ==
  ASSUME ThreadCount = 1
  PROVE  Spec => []HeldWhileOpen
<1> USE DEF HeldWhileOpen, Started
<1>1. Init => HeldWhileOpen
  BY DEF Init
<1>2. TypeOK /\ Owned /\ Serial /\ HeldWhileOpen /\ [Next]_vars => HeldWhileOpen'
  <2> SUFFICES ASSUME TypeOK, Owned, Serial, HeldWhileOpen, [Next]_vars
               PROVE  HeldWhileOpen'
    OBVIOUS
  <2>1. CASE UNCHANGED <<registered, handler, stopped, strand>>
    BY <2>1
  <2>2. ASSUME NEW t, NEW r, Stop(t, r), strand = "free", UNCHANGED <<registered, handler>>
        PROVE  HeldWhileOpen'
    BY <2>2 DEF Stop, TypeOK
  <2>3. CASE CheckIdleTimer
    BY <2>1, <2>2, <2>3 DEF CheckIdleTimer, CanRunHandler
  <2>4. CASE CheckReadDeadline
    BY <2>1, <2>2, <2>4 DEF CheckReadDeadline, CanRunHandler
  <2>5. CASE ReadHandler
    <3>1. strand = "free" /\ UNCHANGED <<registered, handler>>
      BY <2>5 DEF ReadHandler, ReadDoneAfterDestroy, ReadDoneAfterClose, LengthRead,
                  BodyRead, ReadFailed, ReadDone, CanRunHandler
    <3>2. UNCHANGED <<stopped, strand>> \/ \E t, r : Stop(t, r)
      BY <2>5 DEF ReadHandler, ReadDoneAfterDestroy, ReadDoneAfterClose, LengthRead,
                  BodyRead, ReadFailed
    <3> QED  BY <2>1, <2>2, <3>1, <3>2
  <2>6. CASE RemoveSession
    BY <2>6 DEF RemoveSession, Owned
  <2>7. CASE InsertSession
    BY <2>7 DEF InsertSession, HandlerStep, Serial
  <2>8. CASE ConstructSession \/ ReleaseSession
    BY <2>8 DEF ConstructSession, ReleaseSession, HandlerStep
  <2>9. CASE \/ StartCancelIdle \/ StartArmIdle \/ StartCancelRead \/ StartArmRead
             \/ StartRead
    BY <2>9 DEF StartCancelIdle, StartArmIdle, StartCancelRead, StartArmRead,
                StartRead, HandlerStep
  <2>10. CASE \/ PeerAlreadyGone \/ ConstructorThrows \/ ReadCompletes
              \/ IdleTimerFires \/ ReadTimerFires \/ Tick \/ UNCHANGED vars
    BY <2>1, <2>10 DEF PeerAlreadyGone, ConstructorThrows, ReadCompletes,
                       IdleTimerFires, ReadTimerFires, Tick, vars
  <2> QED
    BY <2>3, <2>4, <2>5, <2>6, <2>7, <2>8, <2>9, <2>10 DEF Next, AcceptHandler
<1> QED
  BY <1>1, <1>2, SerialInvariant, OwnedInvariant, TypeCorrect, PTL DEF Spec
=============================================================================
