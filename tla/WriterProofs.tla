---------------------------- MODULE WriterProofs ----------------------------
(***************************************************************************)
(* Theorems about Writer, for every set of packets, every number of them   *)
(* and every write timeout.                                                *)
(***************************************************************************)
EXTENDS Writer, SequenceTheorems, TLAPS

\* A sequence that is not empty is its head followed by its tail.
LEMMA HeadThenTail ==
  ASSUME NEW S, NEW s \in Seq(S), s # <<>>
  PROVE  /\ <<Head(s)>> \in Seq(S)
         /\ s = <<Head(s)>> \o Tail(s)
<1>1. Head(s) \in S /\ Tail(s) \in Seq(S)
  BY HeadTailProperties
<1>2. <<Head(s)>> \in Seq(S)
  BY <1>1
<1>3. /\ Len(<<Head(s)>> \o Tail(s)) = Len(s)
      /\ \A i \in 1 .. Len(s) : (<<Head(s)>> \o Tail(s))[i] = s[i]
  BY <1>1, <1>2, HeadTailProperties, ConcatProperties, LenProperties
<1>4. <<Head(s)>> \o Tail(s) \in Seq(S)
  BY <1>1, <1>2, ConcatProperties
<1> QED  BY <1>2, <1>3, <1>4, SeqEqual

\* Appending to a concatenation appends to its right part.
LEMMA AppendLast ==
  \A s, t \in Seq(Packets), e \in Packets : Append(s \o t, e) = s \o Append(t, e)
<1> TAKE s, t \in Seq(Packets), e \in Packets
<1>1. s \o t \in Seq(Packets) /\ <<e>> \in Seq(Packets)
  BY ConcatProperties
<1>2. Append(s \o t, e) = (s \o t) \o <<e>>
  BY <1>1, AppendIsConcat
<1>3. Append(t, e) = t \o <<e>>
  BY AppendIsConcat
<1> QED  BY <1>1, <1>2, <1>3, ConcatAssociative

\* The head of the right part may as well be the last of the left part.
LEMMA MoveHead ==
  ASSUME NEW S, NEW s \in Seq(S), NEW t \in Seq(S), t # <<>>
  PROVE  s \o t = Append(s, Head(t)) \o Tail(t)
<1>1. /\ Head(t) \in S
      /\ Tail(t) \in Seq(S)
  BY HeadTailProperties
<1>2. /\ <<Head(t)>> \in Seq(S)
      /\ t = <<Head(t)>> \o Tail(t)
  BY HeadThenTail
<1>3. Append(s, Head(t)) = s \o <<Head(t)>>
  BY <1>1, AppendIsConcat
<1>4. (s \o <<Head(t)>>) \o Tail(t) = s \o (<<Head(t)>> \o Tail(t))
  BY <1>1, <1>2, ConcatAssociative
<1> QED  BY <1>2, <1>3, <1>4

\* The first element after the left part is the head of the right part.
LEMMA HeadOfRest ==
  ASSUME NEW S, NEW s \in Seq(S), NEW t \in Seq(S), t # <<>>
  PROVE  /\ Len(s) < Len(s \o t)
         /\ (s \o t)[Len(s) + 1] = Head(t)
<1>1. Len(t) \in Nat \ {0} /\ Len(s) \in Nat
  BY EmptySeq, LenProperties
<1>2. /\ Len(s \o t) = Len(s) + Len(t)
      /\ (s \o t)[Len(s) + 1] = t[1]
  BY <1>1, ConcatProperties
<1>3. Head(t) = t[1]
  OBVIOUS
<1> QED  BY <1>1, <1>2, <1>3
-----------------------------------------------------------------------------
\* The effect of write() on the deadline and on the state of the write.
LEMMA StartWriteType ==
  ASSUME TypeOK, StartWrite
  PROVE  /\ writeTimer' \in Timer(WriteSeconds)
         /\ write' \in {"pending", "error"}
<1>1. Cancel(writeTimer) \in Timer(WriteSeconds)
  BY DEF Cancel, TypeOK, Timer, Times, Never
<1>2. WriteSeconds \in Times(WriteSeconds)
  BY WriterAssumption DEF Times, Never
<1>3. ExpiresAfter(writeTimer, WriteSeconds) \in Timer(WriteSeconds)
  BY <1>1, <1>2 DEF ExpiresAfter, SetExpiry, Timer
<1> QED  BY <1>3 DEF StartWrite

\* What is written is the front of the queue.
WritesFront == write \in {"pending", "success"} => queue # <<>>

LEMMA TypedInductive == TypeOK /\ WritesFront /\ [Next]_vars => (TypeOK /\ WritesFront)'
<1> SUFFICES ASSUME TypeOK, WritesFront, [Next]_vars PROVE (TypeOK /\ WritesFront)'
  OBVIOUS
<1> USE WriterAssumption DEF TypeOK, WritesFront
<1>1. CASE AddPacket
  BY <1>1, AppendProperties DEF AddPacket
<1>2. CASE RunPost
  <2>1. Head(posts) \in Packets /\ Tail(posts) \in Seq(Packets)
    BY <1>2, HeadTailProperties DEF RunPost
  <2>2. Append(queue, Head(posts)) \in Seq(Packets) /\ Append(queue, Head(posts)) # <<>>
    BY <2>1, AppendProperties
  <2>3. CASE UNCHANGED <<fault, write, writeTimer, dangling>>
    BY <1>2, <2>1, <2>2, <2>3 DEF RunPost
  <2>4. CASE TouchSocket /\ StartWrite
    BY <1>2, <2>1, <2>2, <2>4, StartWriteType DEF RunPost, TouchSocket
  <2> QED  BY <1>2, <2>3, <2>4 DEF RunPost
<1>3. CASE WriteCompletes
  <2>1. Append(wire, Head(queue)) \in Seq(Packets)
    BY <1>3, HeadTailProperties, AppendProperties DEF WriteCompletes
  <2> QED  BY <1>3, <2>1 DEF WriteCompletes
<1>4. CASE WriteDoneAfterClose
  BY <1>4 DEF WriteDoneAfterClose, TouchSocket
<1>5. CASE PacketWritten
  <2>1. Tail(queue) \in Seq(Packets)
    BY <1>5, HeadTailProperties DEF PacketWritten
  <2>2. CASE Tail(queue) # <<>> /\ StartWrite
    BY <1>5, <2>1, <2>2, StartWriteType DEF PacketWritten
  <2>3. CASE Tail(queue) = <<>> /\ write' = "none" /\ writeTimer' = ExpiresAfter(writeTimer, Never)
    <3>1. writeTimer' \in Timer(WriteSeconds)
      BY <2>3 DEF ExpiresAfter, SetExpiry, Cancel, Timer, Times, Never
    <3> QED  BY <1>5, <2>1, <2>3, <3>1 DEF PacketWritten
  <2> QED  BY <1>5, <2>2, <2>3 DEF PacketWritten
<1>6. CASE WriteFailed
  BY <1>6 DEF WriteFailed, Stop
<1>7. CASE CheckWriteDeadline
  <2>1. writeTimer' \in Timer(WriteSeconds)
    BY <1>7 DEF CheckWriteDeadline, AsyncWait, Ended, Timer, Times
  <2> QED  BY <1>7, <2>1 DEF CheckWriteDeadline, Stop
<1>8. CASE SessionStops
  BY <1>8 DEF SessionStops, Stop
<1>9. CASE SessionDestroyed
  BY <1>9 DEF SessionDestroyed
<1>10. CASE WriteTimerFires
  <2>1. writeTimer' \in Timer(WriteSeconds)
    BY <1>10 DEF WriteTimerFires, Fire, Timer, Times, Never
  <2> QED  BY <1>10, <2>1 DEF WriteTimerFires
<1>11. CASE Tick
  <2>1. ASSUME NEW x \in Times(WriteSeconds) PROVE CountDown(x) \in Times(WriteSeconds)
    BY DEF CountDown, Times, Never
  <2>2. writeTimer' \in Timer(WriteSeconds)
    BY <1>11, <2>1 DEF Tick, Elapse, Timer
  <2> QED  BY <1>11, <2>2 DEF Tick
<1>12. CASE UNCHANGED vars
  BY <1>12 DEF vars
<1> QED
  BY <1>1, <1>2, <1>3, <1>4, <1>5, <1>6, <1>7, <1>8, <1>9, <1>10, <1>11, <1>12
  DEF Next, WriteHandler

LEMMA InitTyped == Init => TypeOK /\ WritesFront
<1>1. NewTimer \in Timer(WriteSeconds)
  BY DEF NewTimer, Timer, Times, Never
<1>2. <<>> \in Seq(Packets)
  BY EmptySeq
<1> QED  BY <1>1, <1>2 DEF Init, TypeOK, WritesFront

LEMMA Typed == Spec => [](TypeOK /\ WritesFront)
BY InitTyped, TypedInductive, PTL DEF Spec

\* Every variable keeps to its type: packets are never mixed with anything
\* else, and no deadline is further ahead than the write timeout.
THEOREM TypeCorrect == Spec => []TypeOK
BY Typed, PTL
-----------------------------------------------------------------------------
(***************************************************************************)
(* The inductive invariant about the packets.  While the socket is open,   *)
(* nothing is lost, and the queue is empty exactly when nothing is being   *)
(* written; once it is closed no write is pending.                         *)
(***************************************************************************)
PacketInv ==
  /\ NothingLost
  /\ QueueIsWritten
  /\ ~Open => write # "pending"

LEMMA PacketInvInductive ==
  TypeOK /\ WritesFront /\ PacketInv /\ [Next]_vars => PacketInv'
<1> SUFFICES ASSUME TypeOK, WritesFront, PacketInv, [Next]_vars PROVE PacketInv'
  OBVIOUS
<1> USE DEF TypeOK, PacketInv, NothingLost, QueueIsWritten, Open
<1>0. Unsent \in Seq(Packets) /\ wire \o Unsent \in Seq(Packets)
  <2>1. Unsent \in Seq(Packets)
    BY HeadTailProperties DEF Unsent, WritesFront
  <2> QED  BY <2>1, ConcatProperties
<1>1. CASE AddPacket
  <2>1. PICK p \in Packets : posts' = Append(posts, p) /\ submitted' = Append(submitted, p)
    BY <1>1 DEF AddPacket
  <2>2. Unsent' = Unsent
    BY <1>1 DEF AddPacket, Unsent
  <2>3. Append(wire \o Unsent \o posts, p) = wire \o Unsent \o Append(posts, p)
    <3>1. PICK u \in Seq(Packets) : u = Unsent
      BY <1>0
    <3>2. Append((wire \o u) \o posts, p) = (wire \o u) \o Append(posts, p)
      <4>1. wire \in Seq(Packets) /\ wire \o u \in Seq(Packets)
        BY <3>1, ConcatProperties
      <4>2. posts \in Seq(Packets) /\ p \in Packets
        BY <2>1
      <4> QED  BY ONLY <4>1, <4>2, AppendLast
    <3> QED  BY <3>1, <3>2
  <2> QED  BY <1>1, <2>1, <2>2, <2>3 DEF AddPacket
<1>2. CASE RunPost
  <2>1. Head(posts) \in Packets /\ Tail(posts) \in Seq(Packets)
    BY <1>2, HeadTailProperties DEF RunPost
  <2>2. queue' # <<>>
    BY <1>2, <2>1, AppendProperties DEF RunPost
  <2>3. CASE Open
    <3>1. Unsent' = Append(Unsent, Head(posts))
      <4>1. CASE queue # <<>> /\ UNCHANGED write
        BY <1>2, <2>1, <4>1, HeadTailAppend DEF RunPost, Unsent
      <4>2. CASE queue = <<>> /\ StartWrite
        BY <1>2, <2>3, <4>2 DEF RunPost, StartWrite, Unsent
      <4> QED  BY <1>2, <4>1, <4>2 DEF RunPost
    <3>2. wire \o Unsent \o posts = Append(wire \o Unsent, Head(posts)) \o Tail(posts)
      BY <1>0, <1>2, MoveHead DEF RunPost
    <3>3. Append(wire \o Unsent, Head(posts)) = wire \o Append(Unsent, Head(posts))
      BY <1>0, <2>1, AppendLast
    <3>4. write' # "none"
      BY <1>2, <2>3 DEF RunPost, StartWrite
    <3>5. NothingLost'
      BY <1>2, <2>3, <3>1, <3>2, <3>3 DEF RunPost
    <3> QED  BY <1>2, <2>2, <2>3, <3>4, <3>5 DEF RunPost
  <2>4. CASE ~Open
    BY <1>2, <2>4 DEF RunPost, StartWrite
  <2> QED  BY <2>3, <2>4
<1>3. CASE WriteCompletes
  <2>1. CASE write' = "error" /\ UNCHANGED wire
    BY <1>3, <2>1 DEF WriteCompletes, Unsent
  <2>2. CASE write' = "success" /\ wire' = Append(wire, Head(queue))
    <3>1. queue # <<>> /\ Unsent = queue /\ Unsent' = Tail(queue)
      BY <1>3, <2>2 DEF WriteCompletes, WritesFront, Unsent
    <3>2. wire \o queue = Append(wire, Head(queue)) \o Tail(queue)
      BY <3>1, MoveHead
    <3> QED  BY <1>3, <2>2, <3>1, <3>2 DEF WriteCompletes
  <2> QED  BY <1>3, <2>1, <2>2 DEF WriteCompletes
<1>4. CASE WriteDoneAfterClose
  BY <1>4 DEF WriteDoneAfterClose
<1>5. CASE PacketWritten
  <2>1. Unsent = Tail(queue) /\ Unsent' = Tail(queue)
    BY <1>5 DEF PacketWritten, StartWrite, Unsent
  <2> QED  BY <1>5, <2>1 DEF PacketWritten, StartWrite
<1>6. CASE WriteFailed
  BY <1>6 DEF WriteFailed, Stop
<1>7. CASE CheckWriteDeadline
  BY <1>7 DEF CheckWriteDeadline, Stop, Unsent
<1>8. CASE SessionStops
  BY <1>8 DEF SessionStops, Stop
<1>9. CASE SessionDestroyed
  BY <1>9 DEF SessionDestroyed
<1>10. CASE WriteTimerFires
  BY <1>10 DEF WriteTimerFires, Unsent
<1>11. CASE Tick
  BY <1>11 DEF Tick, Unsent
<1>12. CASE UNCHANGED vars
  BY <1>12 DEF vars, Unsent
<1> QED
  BY <1>1, <1>2, <1>3, <1>4, <1>5, <1>6, <1>7, <1>8, <1>9, <1>10, <1>11, <1>12
  DEF Next, WriteHandler

LEMMA PacketInvariant == Spec => []PacketInv
<1>1. Init => PacketInv
  <2>1. <<>> \o <<>> = <<>>
    BY EmptySeq, ConcatEmptySeq
  <2> QED  BY <2>1 DEF Init, PacketInv, NothingLost, QueueIsWritten, Unsent
<1> QED  BY <1>1, PacketInvInductive, Typed, PTL DEF Spec

\* While the socket is open, what was handed over is what is on the wire,
\* followed by what is queued, followed by what is posted.
THEOREM NoPacketIsLost == Spec => []NothingLost
BY PacketInvariant, PTL DEF PacketInv

\* A queue that is not empty is being written.
THEOREM QueueNeverStalls == Spec => []QueueIsWritten
BY PacketInvariant, PTL DEF PacketInv
-----------------------------------------------------------------------------
LEMMA ChannelSimulation ==
  TypeOK /\ WritesFront /\ PacketInv /\ [Next]_vars
    => [Channel!ChannelNext]_(Channel!channelVars)
<1> SUFFICES ASSUME TypeOK, WritesFront, PacketInv, [Next]_vars
             PROVE  [Channel!ChannelNext]_(Channel!channelVars)
  OBVIOUS
<1>1. ASSUME UNCHANGED <<submitted, wire, session>>
      PROVE  UNCHANGED Channel!channelVars
  BY <1>1 DEF Channel!channelVars, Open
<1>2. ASSUME NEW w, Stop(w), UNCHANGED <<submitted, wire>>
      PROVE  [Channel!ChannelNext]_(Channel!channelVars)
  <2>1. CASE Open
    BY <1>2, <2>1 DEF Stop, Open, Channel!ChannelNext, Channel!Close
  <2>2. CASE ~Open
    BY <1>1, <1>2, <2>2 DEF Stop, Open
  <2> QED  BY <2>1, <2>2
<1>3. CASE AddPacket
  <2>1. Channel!Send
    BY <1>3 DEF AddPacket, Open, Channel!Send
  <2> QED  BY <2>1 DEF Channel!ChannelNext
<1>4. CASE WriteCompletes
  <2>1. CASE UNCHANGED wire
    BY <1>1, <1>4, <2>1 DEF WriteCompletes
  <2>2. CASE write' = "success" /\ wire' = Append(wire, Head(queue))
    <3>1. Open /\ queue # <<>> /\ Unsent = queue
      BY <1>4 DEF WriteCompletes, PacketInv, WritesFront, Unsent
    <3>2. submitted = wire \o (queue \o posts)
      <4>1. wire \in Seq(Packets) /\ queue \in Seq(Packets) /\ posts \in Seq(Packets)
        BY DEF TypeOK
      <4>2. submitted = wire \o queue \o posts
        BY <3>1 DEF PacketInv, NothingLost
      <4> QED  BY ONLY <4>1, <4>2, ConcatAssociative
    <3>3. /\ queue \o posts \in Seq(Packets)
          /\ queue \o posts # <<>>
          /\ Head(queue \o posts) = Head(queue)
      BY <3>1, ConcatProperties, EmptySeq, LenProperties DEF TypeOK
    <3>4. Len(wire) < Len(submitted) /\ submitted[Len(wire) + 1] = Head(queue)
      BY <3>2, <3>3, HeadOfRest DEF TypeOK
    <3>5. Channel!Deliver
      BY <1>4, <2>2, <3>1, <3>4 DEF WriteCompletes, Open, Channel!Deliver
    <3> QED  BY <3>5 DEF Channel!ChannelNext
  <2> QED  BY <1>4, <2>1, <2>2 DEF WriteCompletes
<1>5. CASE SessionDestroyed
  BY <1>5 DEF SessionDestroyed, Open, Channel!channelVars
<1>6. CASE RunPost \/ WriteDoneAfterClose \/ PacketWritten \/ WriteTimerFires
           \/ Tick \/ UNCHANGED vars
  BY <1>1, <1>6 DEF RunPost, WriteDoneAfterClose, PacketWritten,
                    WriteTimerFires, Tick, vars
<1>7. CASE WriteFailed \/ SessionStops
  BY <1>2, <1>7 DEF WriteFailed, SessionStops
<1>8. CASE CheckWriteDeadline
  BY <1>1, <1>2, <1>8 DEF CheckWriteDeadline
<1> QED
  BY <1>3, <1>4, <1>5, <1>6, <1>7, <1>8 DEF Next, WriteHandler

\* Writer implements FifoChannel: the strand, the queue, the deadline and a
\* stop at any moment included, packets reach the wire once and in order.
THEOREM WriterImplementsChannel == Spec => FifoContract
<1>1. Init => Channel!ChannelInit
  BY DEF Init, Open, Channel!ChannelInit
<1> QED
  BY <1>1, ChannelSimulation, PacketInvariant, Typed, PTL
  DEF Spec, FifoContract, Channel!ChannelSpec
-----------------------------------------------------------------------------
(***************************************************************************)
(* The deadline, with what the next wait will be started with: a wait that *)
(* was cancelled is pending again as soon as its handler runs.             *)
(***************************************************************************)
DeadlineInv ==
  Open =>
    /\ write = "pending" =>
         /\ writeTimer.wait = "pending" => writeTimer.due # Never
         /\ writeTimer.wait = "aborted" => writeTimer.expiry # Never
    /\ queue = <<>> =>
         /\ writeTimer.wait = "pending" => writeTimer.due = Never
         /\ writeTimer.wait = "aborted" => writeTimer.expiry = Never

LEMMA DeadlineInductive ==
  TypeOK /\ WritesFront /\ PacketInv /\ DeadlineInv /\ [Next]_vars => DeadlineInv'
<1> SUFFICES ASSUME TypeOK, WritesFront, PacketInv, DeadlineInv, [Next]_vars
             PROVE  DeadlineInv'
  OBVIOUS
<1> USE DEF DeadlineInv, Open
<1>1. ASSUME StartWrite, queue' # <<>>, UNCHANGED session PROVE DeadlineInv'
  <2>1. writeTimer'.wait # "pending" /\ writeTimer'.expiry # Never
    BY <1>1, WriterAssumption
    DEF StartWrite, ExpiresAfter, SetExpiry, Cancel, Never, TypeOK, Timer
  <2> QED  BY <1>1, <2>1
<1>2. CASE AddPacket
  BY <1>2 DEF AddPacket
<1>3. CASE RunPost
  <2>1. queue' # <<>>
    BY <1>3, HeadTailProperties, AppendProperties DEF RunPost, TypeOK
  <2>2. CASE queue # <<>> /\ UNCHANGED <<write, writeTimer>>
    BY <1>3, <2>1, <2>2 DEF RunPost
  <2>3. CASE StartWrite
    BY <1>1, <1>3, <2>1, <2>3 DEF RunPost
  <2> QED  BY <1>3, <2>2, <2>3 DEF RunPost
<1>4. CASE WriteCompletes
  BY <1>4 DEF WriteCompletes
<1>5. CASE WriteDoneAfterClose
  BY <1>5 DEF WriteDoneAfterClose
<1>6. CASE PacketWritten
  <2>1. CASE Tail(queue) # <<>> /\ StartWrite
    BY <1>1, <1>6, <2>1 DEF PacketWritten
  <2>2. CASE write' = "none" /\ writeTimer' = ExpiresAfter(writeTimer, Never)
    <3>1. writeTimer'.wait # "pending" /\ writeTimer'.expiry = Never
      BY <2>2 DEF ExpiresAfter, SetExpiry, Cancel, TypeOK, Timer
    <3> QED  BY <1>6, <2>2, <3>1
  <2> QED  BY <1>6, <2>1, <2>2 DEF PacketWritten
<1>7. CASE WriteFailed
  BY <1>7 DEF WriteFailed, Stop
<1>8. CASE CheckWriteDeadline
  <2>1. CASE writeTimer.wait = "aborted" /\ writeTimer' = AsyncWait(writeTimer)
             /\ UNCHANGED <<session, write>>
    <3>1. writeTimer'.wait = "pending" /\ writeTimer'.due = writeTimer.expiry
      BY <2>1 DEF AsyncWait, TypeOK, Timer
    <3> QED  BY <1>8, <2>1, <3>1 DEF CheckWriteDeadline
  <2>2. CASE Stop(write)
    BY <2>2 DEF Stop
  <2> QED  BY <1>8, <2>1, <2>2 DEF CheckWriteDeadline
<1>9. CASE SessionStops
  BY <1>9 DEF SessionStops, Stop
<1>10. CASE SessionDestroyed
  BY <1>10 DEF SessionDestroyed
<1>11. CASE WriteTimerFires
  <2>1. writeTimer'.wait = "expired"
    BY <1>11 DEF WriteTimerFires, Fire, TypeOK, Timer
  <2> QED  BY <1>11, <2>1 DEF WriteTimerFires
<1>12. CASE Tick
  <2>1. \A x \in Times(WriteSeconds) : CountDown(x) = Never <=> x = Never
    BY WriterAssumption DEF CountDown, Never, Times
  <2>2. /\ writeTimer'.wait = writeTimer.wait
        /\ writeTimer'.expiry = CountDown(writeTimer.expiry)
        /\ writeTimer'.due = CountDown(writeTimer.due)
        /\ writeTimer.expiry \in Times(WriteSeconds)
        /\ writeTimer.due \in Times(WriteSeconds)
    BY <1>12 DEF Tick, Elapse, TypeOK, Timer
  <2> QED  BY <1>12, <2>1, <2>2 DEF Tick
<1>13. CASE UNCHANGED vars
  BY <1>13 DEF vars
<1> QED
  BY <1>2, <1>3, <1>4, <1>5, <1>6, <1>7, <1>8, <1>9, <1>10, <1>11, <1>12, <1>13
  DEF Next, WriteHandler

\* The deadline of a write runs while the write is pending, and no deadline
\* runs while nothing is to be written.
THEOREM DeadlineIsTheWrites == Spec => []DeadlineFollowsWrite
<1>1. Init => DeadlineInv
  BY DEF Init, DeadlineInv, NewTimer
<1>2. DeadlineInv => DeadlineFollowsWrite
  BY DEF DeadlineInv, DeadlineFollowsWrite
<1> QED
  BY <1>1, <1>2, DeadlineInductive, PacketInvariant, Typed, PTL DEF Spec
-----------------------------------------------------------------------------
(***************************************************************************)
(* What the wire got is a prefix of what add_packet() was given, also when *)
(* the connection has ended, at whatever packet it did.                    *)
(***************************************************************************)
WireIsAPrefix == \E rest \in Seq(Packets) : submitted = wire \o rest

LEMMA PrefixInductive ==
  /\ TypeOK /\ PacketInv /\ WireIsAPrefix /\ [Next]_vars
  /\ TypeOK' /\ WritesFront' /\ PacketInv'
  => WireIsAPrefix'
<1> SUFFICES ASSUME TypeOK, PacketInv, WireIsAPrefix, [Next]_vars,
                    TypeOK', WritesFront', PacketInv'
             PROVE  WireIsAPrefix'
  OBVIOUS
<1>1. CASE Open'
  <2>1. PICK u \in Seq(Packets) : u = Unsent'
    BY HeadTailProperties DEF TypeOK, Unsent, WritesFront
  <2>2. wire' \in Seq(Packets) /\ posts' \in Seq(Packets)
    BY DEF TypeOK
  <2>3. submitted' = (wire' \o u) \o posts'
    BY <1>1, <2>1 DEF PacketInv, NothingLost
  <2>4. submitted' = wire' \o (u \o posts') /\ u \o posts' \in Seq(Packets)
    BY <2>1, <2>2, <2>3, ConcatAssociative, ConcatProperties
  <2> QED  BY <2>4 DEF WireIsAPrefix
<1>2. CASE ~Open'
  <2>1. PICK rest \in Seq(Packets) : submitted = wire \o rest
    BY DEF WireIsAPrefix
  <2>2. wire' = wire
    BY <1>2 DEF PacketInv, Open, Next, vars, AddPacket, RunPost, WriteCompletes,
                WriteHandler, WriteDoneAfterClose, PacketWritten, WriteFailed,
                CheckWriteDeadline, SessionStops, SessionDestroyed, WriteTimerFires, Tick
  <2>3. submitted' = submitted \/ \E p \in Packets : submitted' = Append(submitted, p)
    BY DEF Next, vars, AddPacket, RunPost, WriteCompletes,
           WriteHandler, WriteDoneAfterClose, PacketWritten, WriteFailed,
           CheckWriteDeadline, SessionStops, SessionDestroyed, WriteTimerFires, Tick
  <2>4. CASE submitted' = submitted
    BY <2>1, <2>2, <2>4 DEF WireIsAPrefix
  <2>5. ASSUME NEW p \in Packets, submitted' = Append(submitted, p) PROVE WireIsAPrefix'
    <3>1. wire \in Seq(Packets)
      BY DEF TypeOK
    <3>2. submitted' = wire \o Append(rest, p) /\ Append(rest, p) \in Seq(Packets)
      BY <2>1, <2>5, <3>1, AppendLast, AppendProperties
    <3> QED  BY <2>2, <3>2 DEF WireIsAPrefix
  <2> QED  BY <2>3, <2>4, <2>5
<1> QED  BY <1>1, <1>2

\* What a peer has received is the beginning of what was submitted to the
\* Writer, in this order and without a gap, when the connection is gone too.
THEOREM WireFollowsSubmissions == Spec => []WireIsAPrefix
<1>1. Init => WireIsAPrefix
  <2>1. <<>> \in Seq(Packets) /\ <<>> \o <<>> = <<>>
    BY EmptySeq, ConcatEmptySeq
  <2> QED  BY <2>1 DEF Init, WireIsAPrefix
<1> QED
  BY <1>1, PrefixInductive, PacketInvariant, Typed, PTL DEF Spec
-----------------------------------------------------------------------------
(***************************************************************************)
(* How long a write may take.  The time that is left of its deadline is    *)
(* that of the pending wait, or that of the wait that check_write_deadline *)
(* is about to start again, or none when the wait has ended.               *)
(***************************************************************************)
Remaining(t) == IF t.wait = "pending" THEN t.due
                ELSE IF t.wait = "aborted" THEN t.expiry ELSE 0

\* While the socket is open somebody waits for the write timer, and a
\* pending write has at most the write timeout left.
WriteEnds ==
  Open => /\ writeTimer.wait # "none"
          /\ write = "pending" => Remaining(writeTimer) \in 0 .. WriteSeconds

\* Nothing gives a pending write more time, a new packet neither, and each
\* second takes one from it.
WriteRunsDown ==
  [][Open /\ write = "pending" /\ write' = "pending" =>
       /\ Remaining(writeTimer') <= Remaining(writeTimer)
       /\ Tick /\ Remaining(writeTimer) > 0
            => Remaining(writeTimer') < Remaining(writeTimer)]_vars

\* The wait for the deadline of a pending write is as long as its expiry.
WaitsForWrite ==
  Open => /\ writeTimer.wait # "none"
          /\ write = "pending" =>
               /\ writeTimer.expiry # Never
               /\ writeTimer.wait = "pending" => writeTimer.due = writeTimer.expiry

LEMMA WaitsInductive ==
  TypeOK /\ WaitsForWrite /\ [Next]_vars => WaitsForWrite'
<1> SUFFICES ASSUME TypeOK, WaitsForWrite, [Next]_vars PROVE WaitsForWrite'
  OBVIOUS
<1> USE DEF WaitsForWrite, Open
<1>0. writeTimer \in Timer(WriteSeconds) /\ WriteSeconds \in Nat
  BY WriterAssumption DEF TypeOK
<1>1. ASSUME StartWrite, UNCHANGED session PROVE WaitsForWrite'
  BY <1>0, <1>1 DEF StartWrite, ExpiresAfter, SetExpiry, Cancel, Never, Timer
<1>2. CASE RunPost
  BY <1>1, <1>2 DEF RunPost
<1>3. CASE PacketWritten
  <2>1. CASE write' = "none" /\ writeTimer' = ExpiresAfter(writeTimer, Never)
    <3>1. writeTimer.wait # "none" => writeTimer'.wait # "none"
      BY <1>0, <2>1 DEF ExpiresAfter, SetExpiry, Cancel, Timer
    <3> QED  BY <1>3, <2>1, <3>1 DEF PacketWritten
  <2> QED  BY <1>1, <1>3, <2>1 DEF PacketWritten
<1>4. CASE CheckWriteDeadline
  <2>1. CASE writeTimer' = AsyncWait(writeTimer) /\ UNCHANGED <<session, write>>
    BY <1>0, <2>1 DEF AsyncWait, Timer
  <2>2. CASE Stop(write)
    BY <2>2 DEF Stop
  <2> QED  BY <1>4, <2>1, <2>2 DEF CheckWriteDeadline
<1>5. CASE WriteTimerFires
  BY <1>0, <1>5 DEF WriteTimerFires, Fire, Timer
<1>6. CASE Tick
  <2>1. \A x \in Times(WriteSeconds) : x # Never => CountDown(x) # Never
    BY <1>0 DEF CountDown, Never, Times
  <2>2. /\ writeTimer'.wait = writeTimer.wait
        /\ writeTimer'.expiry = CountDown(writeTimer.expiry)
        /\ writeTimer'.due = CountDown(writeTimer.due)
        /\ writeTimer.expiry \in Times(WriteSeconds)
    BY <1>0, <1>6 DEF Tick, Elapse, Timer
  <2> QED  BY <1>6, <2>1, <2>2 DEF Tick
<1>7. CASE AddPacket \/ WriteCompletes \/ WriteDoneAfterClose \/ WriteFailed
           \/ SessionStops \/ SessionDestroyed \/ UNCHANGED vars
  BY <1>7 DEF AddPacket, WriteCompletes, WriteDoneAfterClose, WriteFailed,
              SessionStops, SessionDestroyed, Stop, vars
<1> QED
  BY <1>2, <1>3, <1>4, <1>5, <1>6, <1>7 DEF Next, WriteHandler

LEMMA WaitsInvariant == Spec => []WaitsForWrite
<1>1. Init => WaitsForWrite
  BY DEF Init, WaitsForWrite, NewTimer
<1> QED  BY <1>1, WaitsInductive, Typed, PTL DEF Spec

\* As long as the socket is open the wait of the write timer never ends, and
\* no pending write has more than the write timeout left.
THEOREM WritesAreFinite == Spec => []WriteEnds
<1>1. TypeOK /\ WaitsForWrite => WriteEnds
  BY WriterAssumption DEF TypeOK, WaitsForWrite, WriteEnds, Remaining, Timer, Times, Never
<1> QED  BY <1>1, WaitsInvariant, Typed, PTL

LEMMA WriteStepRunsDown ==
  ASSUME TypeOK, WritesFront, WaitsForWrite, Next,
         Open, write = "pending", write' = "pending"
  PROVE  /\ Remaining(writeTimer') <= Remaining(writeTimer)
         /\ Tick /\ Remaining(writeTimer) > 0
              => Remaining(writeTimer') < Remaining(writeTimer)
<1>0. /\ writeTimer \in Timer(WriteSeconds) /\ WriteSeconds \in Nat
      /\ writeTimer.wait # "none" /\ writeTimer.expiry \in 0 .. WriteSeconds
      /\ writeTimer.wait = "pending" => writeTimer.due = writeTimer.expiry
  BY WriterAssumption DEF TypeOK, WaitsForWrite, Timer, Times, Never
<1>1. CASE Tick
  <2>1. /\ writeTimer'.wait = writeTimer.wait
        /\ writeTimer'.expiry = CountDown(writeTimer.expiry)
        /\ writeTimer'.due = CountDown(writeTimer.due)
    BY <1>0, <1>1 DEF Tick, Elapse, Timer
  <2> QED  BY <1>0, <2>1 DEF Remaining, CountDown
<1>3. CASE AddPacket \/ RunPost
  <2>1. writeTimer' = writeTimer
    BY <1>3 DEF AddPacket, RunPost, WritesFront
  <2> QED  BY <1>0, <1>1, <2>1 DEF Remaining
<1>4. CASE WriteCompletes \/ WriteHandler \/ SessionStops \/ SessionDestroyed
  BY <1>4 DEF WriteCompletes, WriteHandler, WriteDoneAfterClose, PacketWritten,
              WriteFailed, WriteDone, SessionStops, SessionDestroyed, Stop, Open
<1>5. CASE CheckWriteDeadline
  <2>1. writeTimer.wait = "aborted" /\ writeTimer' = AsyncWait(writeTimer)
    BY <1>5 DEF CheckWriteDeadline, Stop
  <2>2. writeTimer'.wait = "pending" /\ writeTimer'.due = writeTimer.expiry
    BY <1>0, <2>1 DEF AsyncWait, Timer
  <2> QED  BY <1>0, <1>1, <2>1, <2>2 DEF Remaining
<1>6. CASE WriteTimerFires
  <2>1. writeTimer.wait = "pending" /\ writeTimer'.wait = "expired"
    BY <1>0, <1>6 DEF WriteTimerFires, IsDue, Fire, Timer
  <2> QED  BY <1>0, <1>1, <2>1 DEF Remaining
<1> QED  BY <1>1, <1>3, <1>4, <1>5, <1>6 DEF Next

\* A peer that stops reading cannot hold a write up: its time only runs down.
THEOREM DeadlineOnlyNears == Spec => WriteRunsDown
BY WriteStepRunsDown, WaitsInvariant, Typed, PTL DEF Spec, WriteRunsDown
=============================================================================
