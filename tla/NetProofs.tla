----------------------------- MODULE NetProofs ------------------------------
(***************************************************************************)
(* Proofs about Net, for any messages of any size, any number of sending   *)
(* threads and any length of the buffer below the range of the length.     *)
(***************************************************************************)
EXTENDS Net, FiniteSetTheorems, SequenceTheorems, TLAPS

-----------------------------------------------------------------------------
(* The inductive invariant *)

\* Who writes: nobody, one thread about to, or one operation under way; nobody only
\* when there is nothing to write or the connection is closed.
OneOrNone ==
  \/ writes = 0 /\ starting = {} /\ (closed["sender"] \/ queue = <<>>)
  \/ writes = 1 /\ starting = {} /\ (closed["sender"] \/ queue # <<>>)
  \/ writes = 0 /\ \E t \in Sender : starting = {t} /\ (closed["sender"] \/ queue # <<>>)

Sent == Len(pushed) - Len(queue)

\* The queue is the end of what was pushed, and no message was pushed twice.
QueueIsRest ==
  /\ Len(queue) <= Len(pushed)
  /\ \A i \in 1..Len(queue) : queue[i] = pushed[Sent + i]
  /\ \A i, j \in 1..Len(pushed) : pushed[i] = pushed[j] => i = j
  /\ offset <= IF queue = <<>> THEN 0 ELSE Size[queue[1]] + 1

\* The place of a unit in the stream of the messages p: the number of its message and
\* its own in the message; the place after it; which unit is at a place.
After(p, i, k) == IF k < Size[p[i]] THEN <<i, k + 1>> ELSE <<i + 1, 0>>
IsAt(p, u, place) == place[1] \in 1..Len(p) /\ u = Unit(p[place[1]], place[2])

\* w is the stream of the messages p from a place up to, and without, another.
Stream(p, w, from, to) ==
  /\ w = <<>> => from = to
  /\ w # <<>> =>
       /\ IsAt(p, w[1], from)
       /\ \A j \in 1..(Len(w) - 1) :
            \E i \in 1..Len(p) : w[j][1] = p[i] /\ IsAt(p, w[j + 1], After(p, i, w[j][2]))
       /\ \E i \in 1..Len(p) : w[Len(w)][1] = p[i] /\ to = After(p, i, w[Len(w)][2])

\* the next unit that is written, and the next one that is read
WritePlace == IF queue # <<>> /\ offset > Size[queue[1]] THEN <<Sent + 2, 0>> ELSE <<Sent + 1, offset>>
ReadPlace == IF reader.state = "header" THEN <<Len(heard) + 1, 0>>
             ELSE After(pushed, Len(heard) + 1, ReadSize(reader.message) - reader.left)

\* The reader has heard a beginning of what was pushed and reads the next message.
ReaderIsNext ==
  /\ Len(heard) <= Len(pushed)
  /\ \A i \in 1..Len(heard) : heard[i] = pushed[i]
  /\ reader.state = "body" =>
       /\ Len(heard) < Len(pushed) /\ reader.message = pushed[Len(heard) + 1]
       /\ reader.left <= ReadSize(reader.message)

\* What is on the wire is the stream from the place of the reader to the place of the writer.
StreamIsWhole ==
  link = "up" /\ reader.state \in {"header", "body"} => Stream(pushed, wire, ReadPlace, WritePlace)

NetInv == TypeOK /\ OneOrNone /\ QueueIsRest /\ ReaderIsNext /\ StreamIsWhole /\ InStep

-----------------------------------------------------------------------------
(* Types *)

\* Connection::receive reads at most what the buffer holds, and at most the message.
LEMMA ReadSizeType ==
  ASSUME NEW m \in Message
  PROVE  /\ ReadSize(m) \in 0..BufferSize
         /\ ReadSize(m) <= Size[m]
         /\ ~IsWhole(m) => TooLong(m)
<1>1. Size[m] \in Nat /\ Length(m) \in Nat /\ Length(m) <= Size[m]
  BY NetAssumption DEF Length
<1>2. Size[m] < LengthRange => Length(m) = Size[m]
  BY <1>1, NetAssumption DEF Length
<1>3. ReadSize(m) = IF Length(m) <= BufferSize THEN Length(m) ELSE BufferSize
  BY <1>1, NetAssumption DEF ReadSize, Min
<1> QED
  BY <1>1, <1>2, <1>3, NetAssumption DEF IsWhole, TooLong

\* Every step of the threads keeps the variables in their types; a write needs the
\* front message that OneOrNone promises.
LEMMA NetTypeStep == TypeOK /\ OneOrNone /\ [Next]_vars => TypeOK'
<1> SUFFICES ASSUME TypeOK, OneOrNone, [Next]_vars PROVE TypeOK'
  OBVIOUS
<1> USE NetAssumption
<1>0. \A state \in {"header", "lost", "stopped"} : Reading(state, NoMessage, 0) \in Readers
  BY DEF Reading, Readers
<1>1. ASSUME NEW t \in Sender, NEW m \in Message, Push(t, m) PROVE TypeOK'
  BY <1>1 DEF Push, TypeOK, receiveVars
<1>2. ASSUME NEW t \in Sender, StartWrite(t) PROVE TypeOK'
  BY <1>2 DEF StartWrite, TypeOK, receiveVars
<1>3. CASE Transmit
  <2>1. queue # <<>> /\ Head(queue) \in Message
    BY <1>3 DEF Transmit, OneOrNone, TypeOK
  <2>2. Unit(Head(queue), offset) \in Units
    BY <1>3, <2>1 DEF Transmit, TypeOK, Unit, Units
  <2> QED
    BY <1>3, <2>2 DEF Transmit, TypeOK, receiveVars
<1>4. CASE Complete
  <2>1. queue # <<>>
    BY <1>4 DEF Complete, OneOrNone, TypeOK
  <2> QED
    BY <1>4, <2>1 DEF Complete, PopFront, NextWrites, TypeOK, receiveVars
<1>5. CASE SenderCloses
  BY <1>5 DEF SenderCloses, TypeOK, sendVars, receiveVars
<1>6. CASE ReadHeader
  <2>1. Head(wire) \in Units /\ Tail(wire) \in Seq(Units)
    BY <1>6 DEF ReadHeader, Reads, TypeOK
  <2>2. Head(wire)[1] \in Message
    BY <2>1 DEF Unit, Units
  <2>3. ReadSize(Head(wire)[1]) \in 0..BufferSize
    BY <2>2, ReadSizeType
  <2> QED
    <3>1. Reading("body", Head(wire)[1], ReadSize(Head(wire)[1])) \in Readers
      BY <2>2, <2>3 DEF Reading, Readers
    <3> QED
      BY <1>0, <1>6, <2>1, <3>1 DEF ReadHeader, TypeOK, sendVars
<1>7. CASE ReadBody
  <2>1. reader \in [state : {"body"}, message : Message, left : 0..BufferSize] /\ reader.left > 0
    BY <1>7 DEF ReadBody, TypeOK, Readers, Reading
  <2>2. reader' \in Readers
    BY <1>7, <2>1 DEF ReadBody, Readers
  <2> QED
    BY <1>7, <2>2 DEF ReadBody, Reads, TypeOK, sendVars
<1>8. CASE OnReceive \/ OnReceiveRaises \/ LoseFrame
  <2>1. reader' \in Readers
    BY <1>0, <1>8 DEF OnReceive, OnReceiveRaises, LoseFrame, AtHeader
  <2>2. heard' \in Seq(Message)
    <3>1. BodyIsRead => reader.message \in Message
      BY DEF BodyIsRead, TypeOK, Readers, Reading
    <3>2. BodyIsRead => Append(heard, reader.message) \in Seq(Message)
      BY <3>1, AppendProperties DEF TypeOK
    <3> QED
      BY <1>8, <3>2 DEF OnReceive, OnReceiveRaises, LoseFrame, TypeOK
  <2> QED
    BY <1>8, <2>1, <2>2 DEF OnReceive, OnReceiveRaises, LoseFrame, TypeOK, sendVars
<1>9. CASE ReadFails
  BY <1>0, <1>9 DEF ReadFails, TypeOK, sendVars
<1>10. CASE ReceiverCloses \/ Break
  BY <1>10, EmptySeq DEF ReceiverCloses, Break, TypeOK, sendVars, receiveVars
<1>11. CASE UNCHANGED vars
  BY <1>11 DEF vars, TypeOK
<1> QED
  BY <1>1, <1>2, <1>3, <1>4, <1>5, <1>6, <1>7, <1>8, <1>9, <1>10, <1>11 DEF Next, Write, Read

-----------------------------------------------------------------------------
(* One writer *)

\* A thread that pushes starts to write only if the queue was empty, and the completion
\* of a write goes on only if it is not.
LEMMA WriterStep == TypeOK /\ OneOrNone /\ [Next]_vars => OneOrNone'
<1> SUFFICES ASSUME TypeOK, OneOrNone, [Next]_vars PROVE OneOrNone'
  OBVIOUS
<1>1. ASSUME NEW t \in Sender, NEW m \in Message, Push(t, m) PROVE OneOrNone'
  <2>1. queue' # <<>>
    BY <1>1, AppendProperties DEF Push, TypeOK
  <2> QED
    BY <1>1, <2>1 DEF Push, IsAlreadyWriting, TypeOK, OneOrNone, receiveVars
<1>2. ASSUME NEW t \in Sender, StartWrite(t) PROVE OneOrNone'
  BY <1>2 DEF StartWrite, TypeOK, OneOrNone, receiveVars
<1>3. CASE Transmit
  BY <1>3 DEF Transmit, OneOrNone
<1>4. CASE Complete
  <2>1. queue # <<>> /\ writes = 1 /\ starting = {}
    BY <1>4 DEF Complete, OneOrNone, TypeOK
  <2>2. Len(queue) > 1 <=> Tail(queue) # <<>>
    <3>1. Len(Tail(queue)) = Len(queue) - 1 /\ Tail(queue) \in Seq(Message) /\ Len(queue) \in Nat
      BY <2>1, HeadTailProperties DEF TypeOK
    <3>2. Len(<<>>) = 0 /\ (Tail(queue) # <<>> => Len(Tail(queue)) \in Nat \ {0})
      BY <3>1, EmptySeq
    <3> QED
      BY <3>1, <3>2
  <2> QED
    BY <1>4, <2>1, <2>2 DEF Complete, PopFront, NextWrites, TypeOK, OneOrNone
<1>5. CASE SenderCloses
  BY <1>5 DEF SenderCloses, OneOrNone, TypeOK, sendVars
<1>6. CASE ReadHeader \/ ReadBody \/ OnReceive \/ OnReceiveRaises \/ LoseFrame \/ Break
  BY <1>6 DEF ReadHeader, ReadBody, OnReceive, OnReceiveRaises, LoseFrame, Break, OneOrNone, sendVars
<1>7. CASE ReadFails \/ ReceiverCloses
  BY <1>7 DEF ReadFails, ReceiverCloses, OneOrNone, TypeOK, sendVars
<1>8. CASE UNCHANGED vars
  BY <1>8 DEF vars, OneOrNone
<1> QED
  BY <1>1, <1>2, <1>3, <1>4, <1>5, <1>6, <1>7, <1>8 DEF Next, Write, Read

\* A connection starts with nothing to write.
LEMMA WriterInit == Init => TypeOK /\ OneOrNone
<1> SUFFICES ASSUME Init PROVE TypeOK /\ OneOrNone
  OBVIOUS
<1>1. AtHeader \in Readers
  BY DEF AtHeader, Readers
<1> QED
  BY <1>1, EmptySeq, NetAssumption DEF Init, TypeOK, OneOrNone

\* Whatever the messages, the threads and the order of their steps, the variables of a
\* connection keep their types.
THEOREM NetTypes == Spec => []TypeOK
  BY WriterInit, NetTypeStep, WriterStep, PTL DEF Spec

\* Connection::send and the completion handler never write two messages at a time, and
\* never leave a queued message without a writer while the connection is open.
THEOREM NetOneWriter == Spec => []OneWriter
<1>1. Cardinality({}) = 0 /\ \A t \in Sender : Cardinality({t}) = 1
  BY FS_Singleton, FS_EmptySet
<1>2. OneOrNone => OneWriter
  BY <1>1 DEF OneOrNone, OneWriter
<1> QED
  BY <1>2, WriterInit, NetTypeStep, WriterStep, PTL DEF Spec

-----------------------------------------------------------------------------
(* The stream *)

\* A message that is pushed does not move what is on the wire.
LEMMA StreamPush ==
  ASSUME NEW p \in Seq(Message), NEW m \in Message, NEW w \in Seq(Units), NEW from, NEW to,
         Stream(p, w, from, to)
  PROVE  Stream(Append(p, m), w, from, to)
<1> DEFINE q == Append(p, m)
<1>1. Len(q) = Len(p) + 1 /\ Len(p) \in Nat /\ \A i \in 1..Len(p) : q[i] = p[i]
  BY AppendProperties
<1> HIDE DEF q
<1>2. ASSUME NEW u, NEW place, IsAt(p, u, place) PROVE IsAt(q, u, place)
  BY <1>1, <1>2 DEF IsAt
<1>3. ASSUME NEW i \in 1..Len(p), NEW k PROVE After(q, i, k) = After(p, i, k) /\ i \in 1..Len(q) /\ q[i] = p[i]
  BY <1>1 DEF After
<1>4. CASE w = <<>>
  BY <1>4 DEF Stream
<1>5. CASE w # <<>>
  <2>1. IsAt(q, w[1], from)
    BY <1>2, <1>5 DEF Stream
  <2>2. ASSUME NEW j \in 1..(Len(w) - 1)
        PROVE  \E i \in 1..Len(q) : w[j][1] = q[i] /\ IsAt(q, w[j + 1], After(q, i, w[j][2]))
    <3>1. PICK i \in 1..Len(p) : w[j][1] = p[i] /\ IsAt(p, w[j + 1], After(p, i, w[j][2]))
      BY <1>5 DEF Stream
    <3> QED
      BY <1>2, <1>3, <3>1
  <2>3. \E i \in 1..Len(q) : w[Len(w)][1] = q[i] /\ to = After(q, i, w[Len(w)][2])
    <3>1. PICK i \in 1..Len(p) : w[Len(w)][1] = p[i] /\ to = After(p, i, w[Len(w)][2])
      BY <1>5 DEF Stream
    <3> QED
      BY <1>3, <3>1
  <2> QED
    BY <1>5, <2>1, <2>2, <2>3 DEF Stream, q
<1> QED
  BY <1>4, <1>5 DEF q

\* The unit at the place of the writer moves that place on when it is written.
LEMMA StreamAppend ==
  ASSUME NEW p \in Seq(Message), NEW w \in Seq(Units), NEW from,
         NEW i \in 1..Len(p), NEW k \in 0..Size[p[i]],
         Stream(p, w, from, <<i, k>>)
  PROVE  Stream(p, Append(w, Unit(p[i], k)), from, After(p, i, k))
<1> DEFINE u == Unit(p[i], k)
           v == Append(w, u)
<1>1. p[i] \in Message /\ u \in Units
  BY DEF Unit, Units
<1>2. /\ v # <<>> /\ Len(v) = Len(w) + 1 /\ Len(w) \in Nat /\ v[Len(w) + 1] = u
      /\ \A j \in 1..Len(w) : v[j] = w[j]
  BY <1>1, AppendProperties
<1>3. IsAt(p, u, <<i, k>>) /\ u[1] = p[i] /\ u[2] = k
  BY DEF IsAt, Unit
<1> HIDE DEF u, v
<1>4. \E n \in 1..Len(p) : v[Len(v)][1] = p[n] /\ After(p, i, k) = After(p, n, v[Len(v)][2])
  BY <1>2, <1>3
<1>5. CASE w = <<>>
  <2>1. Len(w) = 0 /\ from = <<i, k>>
    BY <1>5, EmptySeq DEF Stream
  <2>2. v[1] = u /\ \A j \in 1..(Len(v) - 1) : FALSE
    BY <1>2, <2>1
  <2> QED
    BY <1>2, <1>3, <1>4, <2>1, <2>2 DEF Stream, u, v
<1>6. CASE w # <<>>
  <2>1. Len(w) >= 1
    BY <1>6, EmptySeq
  <2>2. IsAt(p, v[1], from)
    BY <1>2, <1>6, <2>1 DEF Stream
  <2>3. ASSUME NEW j \in 1..(Len(v) - 1)
        PROVE  \E n \in 1..Len(p) : v[j][1] = p[n] /\ IsAt(p, v[j + 1], After(p, n, v[j][2]))
    <3>1. CASE j = Len(w)
      <4>1. PICK n \in 1..Len(p) : w[Len(w)][1] = p[n] /\ <<i, k>> = After(p, n, w[Len(w)][2])
        BY <1>6 DEF Stream
      <4>2. v[j] = w[Len(w)] /\ v[j + 1] = u
        BY <1>2, <2>1, <3>1
      <4> QED
        BY <1>3, <4>1, <4>2
    <3>2. CASE j # Len(w)
      <4>1. j \in 1..(Len(w) - 1) /\ v[j] = w[j] /\ v[j + 1] = w[j + 1]
        BY <1>2, <2>1, <3>2
      <4> QED
        BY <1>6, <4>1 DEF Stream
    <3> QED
      BY <3>1, <3>2
  <2> QED
    BY <1>2, <1>4, <2>2, <2>3 DEF Stream, u, v
<1> QED
  BY <1>5, <1>6

\* The unit that is read is the one at the place of the reader, which it moves on.
LEMMA StreamTail ==
  ASSUME NEW p \in Seq(Message), \A i, j \in 1..Len(p) : p[i] = p[j] => i = j,
         NEW w \in Seq(Units), w # <<>>, NEW n \in Nat, NEW k \in Nat, NEW to,
         Stream(p, w, <<n, k>>, to)
  PROVE  /\ n \in 1..Len(p) /\ Head(w) = Unit(p[n], k)
         /\ Stream(p, Tail(w), After(p, n, k), to)
<1>1. n \in 1..Len(p) /\ w[1] = Unit(p[n], k) /\ w[1][1] = p[n] /\ w[1][2] = k
  BY DEF Stream, IsAt, Unit
<1>0. Len(<<>>) = 0 /\ \A v \in Seq(Units) : v # <<>> => Len(v) \in Nat \ {0}
  BY EmptySeq
<1>2. Len(w) \in Nat \ {0} /\ Head(w) = w[1] /\ Len(Tail(w)) = Len(w) - 1 /\ Tail(w) \in Seq(Units)
      /\ \A j \in 1..(Len(w) - 1) : Tail(w)[j] = w[j + 1]
  BY EmptySeq, HeadTailProperties
<1>3. CASE Len(w) = 1
  <2>1. Tail(w) = <<>>
    BY <1>0, <1>2, <1>3
  <2>2. to = After(p, n, k)
    BY <1>1, <1>3 DEF Stream
  <2> QED
    BY <1>1, <1>2, <2>1, <2>2 DEF Stream
<1>4. CASE Len(w) > 1
  <2> DEFINE v == Tail(w)
  <2>1. v # <<>>
    <3>1. Len(v) # 0
      BY <1>2, <1>4
    <3> QED
      BY <1>0, <3>1, Zenon
  <2>2. IsAt(p, v[1], After(p, n, k))
    <3>1. PICK i \in 1..Len(p) : w[1][1] = p[i] /\ IsAt(p, w[1 + 1], After(p, i, w[1][2]))
      BY <1>2, <1>4 DEF Stream
    <3>2. i = n
      BY <1>1, <3>1
    <3> QED
      BY <1>1, <1>2, <1>4, <3>1, <3>2
  <2>3. ASSUME NEW j \in 1..(Len(v) - 1)
        PROVE  \E i \in 1..Len(p) : v[j][1] = p[i] /\ IsAt(p, v[j + 1], After(p, i, v[j][2]))
    <3>1. j + 1 \in 1..(Len(w) - 1) /\ v[j] = w[j + 1] /\ v[j + 1] = w[(j + 1) + 1]
      BY <1>2
    <3> QED
      BY <3>1 DEF Stream
  <2>4. v[Len(v)] = w[Len(w)]
    BY <1>2, <1>4
  <2> QED
    BY <1>1, <1>2, <2>1, <2>2, <2>3, <2>4 DEF Stream
<1> QED
  BY <1>2, <1>3, <1>4

-----------------------------------------------------------------------------
(* The order of the messages *)

\* A sequence has a first element unless its length is 0.
LEMMA NonEmptySeq ==
  ASSUME NEW S, NEW s \in Seq(S)
  PROVE  /\ Len(s) \in Nat /\ (s # <<>> <=> Len(s) > 0)
         /\ s # <<>> => Head(s) = s[1] /\ s[1] \in S
<1>1. Len(<<>>) = 0 /\ (s # <<>> => Len(s) \in Nat \ {0}) /\ Len(s) \in Nat
  BY EmptySeq
<1>2. Len(s) # 0 => s # <<>>
  BY <1>1, Zenon
<1> QED
  BY <1>1, <1>2

\* send, the writes and their completion keep the queue the rest of what was pushed.
LEMMA QueueStep == TypeOK /\ OneOrNone /\ QueueIsRest /\ [Next]_vars => QueueIsRest'
<1> SUFFICES ASSUME TypeOK, OneOrNone, QueueIsRest, [Next]_vars PROVE QueueIsRest'
  OBVIOUS
<1> USE NetAssumption
<1>0. /\ Len(queue) \in Nat /\ (queue # <<>> <=> Len(queue) > 0)
      /\ Len(pushed) \in Nat
      /\ queue # <<>> => Head(queue) = queue[1] /\ queue[1] \in Message
  BY NonEmptySeq DEF TypeOK
<1>1. ASSUME NEW t \in Sender, NEW m \in Message, Push(t, m) PROVE QueueIsRest'
  <2>0. queue' # <<>>
    <3>1. queue \in Seq(Message) /\ queue' = Append(queue, m)
      BY <1>1 DEF Push, TypeOK
    <3>2. Append(queue, m) # <<>>
      BY <3>1, AppendProperties
    <3> QED
      BY <3>1, <3>2, Zenon
  <2>1. /\ Len(queue') = Len(queue) + 1 /\ queue'[Len(queue) + 1] = m
        /\ \A i \in 1..Len(queue) : queue'[i] = queue[i]
    BY <1>1, AppendProperties DEF Push, TypeOK
  <2>2. /\ Len(pushed') = Len(pushed) + 1 /\ pushed'[Len(pushed) + 1] = m
        /\ \A i \in 1..Len(pushed) : pushed'[i] = pushed[i]
    BY <1>1, AppendProperties DEF Push, TypeOK
  <2>3. \A i \in 1..Len(pushed) : pushed[i] # m
    <3>1. DOMAIN pushed = 1..Len(pushed)
      BY LenProperties DEF TypeOK
    <3> QED
      BY <1>1, <3>1 DEF Push, ToSet
  <2>4. offset' <= Size[queue'[1]] + 1
    <3>1. CASE queue = <<>>
      BY <1>0, <1>1, <2>1, <3>1 DEF Push, QueueIsRest, TypeOK
    <3>2. CASE queue # <<>>
      BY <1>0, <1>1, <2>1, <3>2 DEF Push, QueueIsRest, TypeOK
    <3> QED
      BY <3>1, <3>2
  <2>5. \A i, j \in 1..Len(pushed') : pushed'[i] = pushed'[j] => i = j
    BY <1>0, <2>2, <2>3 DEF QueueIsRest
  <2>6. \A i \in 1..Len(queue') : queue'[i] = pushed'[Sent' + i]
    <3>1. Sent' = Sent /\ Len(queue) <= Len(pushed)
      BY <1>0, <2>1, <2>2 DEF QueueIsRest, Sent
    <3>2. ASSUME NEW i \in 1..Len(queue) PROVE queue'[i] = pushed'[Sent + i]
      BY <1>0, <2>1, <2>2, <3>1 DEF QueueIsRest, Sent
    <3>3. queue'[Len(queue) + 1] = pushed'[Sent + (Len(queue) + 1)]
      BY <1>0, <2>1, <2>2 DEF Sent
    <3>4. \A i \in 1..Len(queue') : i \in 1..Len(queue) \/ i = Len(queue) + 1
      BY <1>0, <2>1
    <3> QED
      BY <3>1, <3>2, <3>3, <3>4
  <2>7. Len(queue') <= Len(pushed')
    BY <1>0, <2>1, <2>2 DEF QueueIsRest
  <2> QED
    BY <2>0, <2>4, <2>5, <2>6, <2>7 DEF QueueIsRest
<1>2. ASSUME NEW t \in Sender, StartWrite(t) PROVE QueueIsRest'
  BY <1>2 DEF StartWrite, QueueIsRest, Sent
<1>3. CASE Transmit
  <2>1. queue # <<>>
    BY <1>3 DEF Transmit, OneOrNone, TypeOK
  <2> QED
    BY <1>0, <1>3, <2>1 DEF Transmit, QueueIsRest, Sent, TypeOK
<1>4. CASE Complete
  <2>1. queue # <<>>
    BY <1>4 DEF Complete, OneOrNone, TypeOK
  <2>2. /\ Len(queue') = Len(queue) - 1 /\ queue' \in Seq(Message)
        /\ \A i \in 1..(Len(queue) - 1) : queue'[i] = queue[i + 1]
    BY <1>4, <2>1, HeadTailProperties DEF Complete, PopFront, TypeOK
  <2>3. Sent' = Sent + 1
    BY <1>0, <1>4, <2>2 DEF Complete, Sent
  <2>4. \A i \in 1..Len(queue') : queue'[i] = pushed'[Sent' + i]
    BY <1>0, <1>4, <2>2, <2>3 DEF Complete, QueueIsRest, Sent
  <2>5. queue' # <<>> => queue'[1] \in Message
    BY <2>2, NonEmptySeq
  <2> QED
    BY <1>0, <1>4, <2>2, <2>4, <2>5 DEF Complete, QueueIsRest
<1>5. CASE SenderCloses \/ Read \/ ReceiverCloses \/ Break
  BY <1>5 DEF SenderCloses, Read, ReadHeader, ReadBody, OnReceive, OnReceiveRaises, LoseFrame, ReadFails,
              ReceiverCloses, Break, sendVars, QueueIsRest, Sent
<1>6. CASE UNCHANGED vars
  BY <1>6 DEF vars, QueueIsRest, Sent
<1> QED
  BY <1>1, <1>2, <1>3, <1>4, <1>5, <1>6 DEF Next, Write

\* What the parts of the invariant say about the message that is read and the one that
\* is written.
LEMMA NetFacts ==
  ASSUME NetInv
  PROVE  /\ Len(heard) \in Nat /\ Len(pushed) \in Nat /\ Len(queue) \in Nat /\ Sent \in Nat
         /\ queue # <<>> <=> Len(queue) > 0
         /\ queue # <<>> => /\ Head(queue) = queue[1] /\ queue[1] = pushed[Sent + 1]
                            /\ Sent + 1 \in 1..Len(pushed) /\ Size[queue[1]] \in Nat
         /\ reader.state = "body" =>
              /\ reader.message \in Message /\ reader.left \in Nat
              /\ ReadSize(reader.message) \in Nat /\ Size[reader.message] \in Nat
              /\ ReadSize(reader.message) <= Size[reader.message]
<1>1. queue \in Seq(Message) /\ pushed \in Seq(Message) /\ heard \in Seq(Message) /\ reader \in Readers
  BY DEF NetInv, TypeOK
<1>2. Len(heard) \in Nat /\ Len(pushed) \in Nat /\ Len(queue) \in Nat
  BY <1>1, LenProperties
<1>3. queue # <<>> <=> Len(queue) > 0
  BY <1>1, NonEmptySeq
<1>4. queue # <<>> => Head(queue) = queue[1] /\ queue[1] \in Message
  BY <1>1, NonEmptySeq
<1>5. Sent \in Nat /\ Len(queue) = Len(pushed) - Sent
  BY <1>2 DEF NetInv, QueueIsRest, Sent
<1>6. \A i \in 1..Len(queue) : queue[i] = pushed[Sent + i]
  BY DEF NetInv, QueueIsRest
<1>7. reader.state = "body" => reader.message \in Message /\ reader.left \in Nat
  BY <1>1, NetAssumption DEF Readers, Reading
<1>8. reader.state = "body" => /\ ReadSize(reader.message) \in Nat
                               /\ ReadSize(reader.message) <= Size[reader.message]
  BY <1>7, ReadSizeType, NetAssumption
<1> QED
  BY <1>2, <1>3, <1>4, <1>5, <1>6, <1>7, <1>8, NetAssumption

\* The step of the reader and of the writer keep the stream whole: what is heard is
\* what comes next.
LEMMA StreamStep == NetInv /\ [Next]_vars => ReaderIsNext' /\ StreamIsWhole' /\ InStep'
<1> SUFFICES ASSUME NetInv, [Next]_vars PROVE ReaderIsNext' /\ StreamIsWhole' /\ InStep'
  OBVIOUS
<1> DEFINE h == Len(heard)
           Kept == ReaderIsNext' /\ StreamIsWhole' /\ InStep'
<1>0. TypeOK /\ OneOrNone /\ QueueIsRest /\ ReaderIsNext /\ StreamIsWhole /\ InStep
  BY DEF NetInv
<1>1. ASSUME NEW t \in Sender, NEW m \in Message, Push(t, m) PROVE Kept
  <2>1. /\ Len(pushed') = Len(pushed) + 1 /\ pushed' = Append(pushed, m)
        /\ \A i \in 1..Len(pushed) : pushed'[i] = pushed[i]
    BY <1>0, <1>1, AppendProperties DEF Push, TypeOK
  <2>2. Len(queue') = Len(queue) + 1 /\ queue' = Append(queue, m)
        /\ queue'[1] = IF queue = <<>> THEN m ELSE queue[1]
    BY <1>0, <1>1, NetFacts, AppendProperties DEF Push, TypeOK
  <2>3. ReaderIsNext'
    BY <1>0, <1>1, <2>1, NetFacts DEF Push, receiveVars, ReaderIsNext
  <2>4. WritePlace' = WritePlace
    <3>1. Sent' = Sent /\ offset' = offset
      BY <1>1, <2>1, <2>2, NetFacts DEF Push, Sent
    <3>2. CASE queue = <<>>
      <4>1. offset = 0 /\ ~(offset > Size[queue'[1]])
        BY <1>0, <2>2, <3>2, NetAssumption DEF QueueIsRest, TypeOK
      <4> QED
        BY <3>1, <3>2, <4>1 DEF WritePlace
    <3>3. CASE queue # <<>>
      <4>1. queue' # <<>>
        BY <1>0, <2>2, <3>3, AppendProperties DEF TypeOK
      <4> QED
        BY <2>2, <3>1, <3>3, <4>1 DEF WritePlace
    <3> QED
      BY <3>2, <3>3
  <2>5. reader.state \in {"header", "body"} => ReadPlace' = ReadPlace
    <3>1. UNCHANGED <<reader, heard>>
      BY <1>1 DEF Push, receiveVars
    <3>2. CASE reader.state = "header"
      BY <3>1, <3>2 DEF ReadPlace
    <3>3. CASE reader.state = "body"
      <4>1. pushed'[Len(heard) + 1] = pushed[Len(heard) + 1]
        BY <1>0, <2>1, <3>3, NetFacts DEF ReaderIsNext
      <4> QED
        BY <3>1, <3>3, <4>1 DEF ReadPlace, After
    <3> QED
      BY <3>2, <3>3
  <2>6. StreamIsWhole'
    BY <1>0, <1>1, <2>1, <2>4, <2>5, StreamPush DEF Push, receiveVars, StreamIsWhole, TypeOK
  <2>7. ToSet(pushed) \subseteq ToSet(pushed')
    <3>1. pushed \in Seq(Message) /\ pushed' \in Seq(Message)
      BY <1>0, <2>1, AppendProperties DEF TypeOK
    <3>2. DOMAIN pushed = 1..Len(pushed) /\ DOMAIN pushed' = 1..Len(pushed')
      BY <3>1, LenProperties
    <3> QED
      BY <2>1, <3>2, NetFacts DEF ToSet
  <2>8. InStep'
    BY <1>0, <1>1, <2>7 DEF Push, receiveVars, InStep
  <2> QED
    BY <2>3, <2>6, <2>8
<1>2. ASSUME NEW t \in Sender, StartWrite(t) PROVE Kept
  BY <1>0, <1>2 DEF StartWrite, receiveVars, ReaderIsNext, StreamIsWhole, InStep, ReadPlace, WritePlace, Sent
<1>3. CASE Transmit
  <2>1. queue # <<>>
    BY <1>0, <1>3 DEF Transmit, OneOrNone, TypeOK
  <2>2. WritePlace = <<Sent + 1, offset>> /\ offset \in 0..Size[pushed[Sent + 1]]
    BY <1>0, <1>3, <2>1, NetFacts DEF Transmit, WritePlace, TypeOK
  <2>3. WritePlace' = After(pushed, Sent + 1, offset)
    BY <1>0, <1>3, <2>1, <2>2, NetFacts DEF Transmit, WritePlace, Sent, After, TypeOK
  <2>4. ReadPlace' = ReadPlace
    BY <1>3 DEF Transmit, receiveVars, ReadPlace
  <2>5. StreamIsWhole'
    BY <1>0, <1>3, <2>1, <2>2, <2>3, <2>4, NetFacts, StreamAppend DEF Transmit, receiveVars, StreamIsWhole, TypeOK
  <2> QED
    BY <1>0, <1>3, <2>5 DEF Transmit, receiveVars, ReaderIsNext, InStep
<1>4. CASE Complete
  <2>1. queue # <<>>
    BY <1>0, <1>4 DEF Complete, OneOrNone, TypeOK
  <2>2. Len(queue') = Len(queue) - 1 /\ queue' \in Seq(Message)
    BY <1>0, <1>4, <2>1, HeadTailProperties DEF Complete, PopFront, TypeOK
  <2>3. link = "up" => WritePlace = <<Sent + 2, 0>>
    BY <1>0, <1>4, <2>1, NetFacts DEF Complete, IsWritten, WritePlace
  <2>4. WritePlace' = <<Sent + 2, 0>>
    <3>1. Sent' = Sent + 1
      BY <1>4, <2>2, NetFacts DEF Complete, Sent
    <3>2. queue' # <<>> => Size[queue'[1]] \in Nat
      BY <2>2, NonEmptySeq, NetAssumption
    <3> QED
      BY <1>4, <3>1, <3>2, NetFacts DEF Complete, WritePlace
  <2>5. ReadPlace' = ReadPlace
    BY <1>4 DEF Complete, receiveVars, ReadPlace
  <2>6. StreamIsWhole'
    BY <1>0, <1>4, <2>3, <2>4, <2>5 DEF Complete, receiveVars, StreamIsWhole
  <2> QED
    BY <1>0, <1>4, <2>6 DEF Complete, receiveVars, ReaderIsNext, InStep
<1>5. CASE SenderCloses \/ ReceiverCloses \/ Break
  BY <1>0, <1>5 DEF SenderCloses, ReceiverCloses, Break, sendVars, receiveVars, ReaderIsNext, StreamIsWhole, InStep,
               ReadPlace, WritePlace, Sent
<1>6. CASE ReadHeader
  <2>1. ReadPlace = <<h + 1, 0>> /\ wire # <<>> /\ Stream(pushed, wire, <<h + 1, 0>>, WritePlace)
    BY <1>0, <1>6 DEF ReadHeader, Reads, StreamIsWhole, ReadPlace
  <2>2. /\ h + 1 \in 1..Len(pushed) /\ Head(wire) = Unit(pushed[h + 1], 0)
        /\ Stream(pushed, Tail(wire), After(pushed, h + 1, 0), WritePlace)
    <3>1. /\ pushed \in Seq(Message) /\ wire \in Seq(Units) /\ h + 1 \in Nat /\ 0 \in Nat
          /\ \A i, j \in 1..Len(pushed) : pushed[i] = pushed[j] => i = j
      BY <1>0, NetFacts DEF TypeOK, QueueIsRest
    <3> HIDE DEF h
    <3> QED
      BY <2>1, <3>1, StreamTail
  <2>3. reader' = Reading("body", pushed[h + 1], ReadSize(pushed[h + 1])) /\ ReadSize(pushed[h + 1]) \in Nat
    <3>1. pushed[h + 1] \in Message
      BY <1>0, <2>2, ElementOfSeq DEF TypeOK
    <3>2. Head(wire)[1] = pushed[h + 1] /\ Head(wire)[2] = 0
      BY <2>2 DEF Unit
    <3> QED
      BY <1>6, <3>1, <3>2, ReadSizeType, NetAssumption DEF ReadHeader
  <2>4. ReaderIsNext'
    BY <1>0, <1>6, <2>2, <2>3, NetFacts DEF ReadHeader, sendVars, ReaderIsNext, Reading
  <2>5. ReadPlace' = After(pushed, h + 1, 0) /\ WritePlace' = WritePlace
    BY <1>6, <2>3 DEF ReadHeader, sendVars, ReadPlace, WritePlace, Sent, Reading
  <2> QED
    BY <1>6, <2>2, <2>3, <2>4, <2>5 DEF ReadHeader, sendVars, StreamIsWhole, InStep, Reading
<1>7. CASE ReadBody
  <2> DEFINE k == ReadSize(reader.message) - reader.left
  <2>1. /\ reader.state = "body" /\ reader.left > 0 /\ reader.message = pushed[h + 1]
        /\ h + 1 \in 1..Len(pushed) /\ reader.left <= ReadSize(reader.message)
    BY <1>0, <1>7, NetFacts DEF ReadBody, ReaderIsNext
  <2>2. k \in Nat /\ k < Size[pushed[h + 1]]
    BY <2>1, NetFacts
  <2>3. ReadPlace = <<h + 1, k + 1>>
    BY <2>1, <2>2 DEF ReadPlace, After
  <2>4. wire # <<>> /\ Stream(pushed, wire, <<h + 1, k + 1>>, WritePlace)
    BY <1>0, <1>7, <2>3 DEF ReadBody, Reads, StreamIsWhole
  <2>5. Stream(pushed, Tail(wire), After(pushed, h + 1, k + 1), WritePlace)
    <3>1. /\ pushed \in Seq(Message) /\ wire \in Seq(Units) /\ h + 1 \in Nat /\ k + 1 \in Nat
          /\ \A i, j \in 1..Len(pushed) : pushed[i] = pushed[j] => i = j
      BY <1>0, <2>2, NetFacts DEF TypeOK, QueueIsRest
    <3> HIDE DEF h, k
    <3> QED
      BY <2>4, <3>1, StreamTail
  <2>6. reader'.state = "body" /\ reader'.message = reader.message /\ reader'.left = reader.left - 1
    BY <1>0, <1>7, <2>1 DEF ReadBody, TypeOK, Readers, Reading
  <2>7. ReaderIsNext'
    <3>1. reader'.left <= ReadSize(reader'.message)
      BY <2>1, <2>6, NetFacts
    <3> QED
      BY <1>0, <1>7, <2>1, <2>6, <3>1, NetFacts DEF ReadBody, sendVars, ReaderIsNext, ReadSize, Length
  <2>8. ReadPlace' = After(pushed, h + 1, k + 1) /\ WritePlace' = WritePlace
    BY <1>7, <2>1, <2>6, NetFacts DEF ReadBody, sendVars, ReadPlace, WritePlace, Sent
  <2> QED
    BY <1>7, <2>5, <2>6, <2>7, <2>8 DEF ReadBody, sendVars, StreamIsWhole, InStep
<1>8. CASE OnReceive \/ OnReceiveRaises
  <2>1. /\ reader.state = "body" /\ reader.left = 0 /\ reader.message = pushed[h + 1]
        /\ h + 1 \in 1..Len(pushed) /\ ReadSize(reader.message) = Size[reader.message]
    BY <1>0, <1>8, NetFacts DEF OnReceive, OnReceiveRaises, BodyIsRead, IsWhole, ReaderIsNext
  <2>2. /\ Len(heard') = h + 1 /\ heard'[h + 1] = pushed[h + 1]
        /\ \A i \in 1..h : heard'[i] = heard[i]
    <3>1. heard' = Append(heard, pushed[h + 1]) /\ heard \in Seq(Message) /\ pushed[h + 1] \in Message
      BY <1>0, <1>8, <2>1, NetFacts DEF OnReceive, OnReceiveRaises, TypeOK
    <3> QED
      BY <3>1, AppendProperties
  <2>3. reader' = AtHeader \/ reader' = Reading("stopped", NoMessage, 0)
    BY <1>8 DEF OnReceive, OnReceiveRaises
  <2>4. ReaderIsNext'
    <3>1. Len(heard') <= Len(pushed') /\ reader'.state # "body"
      BY <1>8, <2>1, <2>2, <2>3 DEF OnReceive, OnReceiveRaises, sendVars, AtHeader, Reading
    <3>2. \A i \in 1..(h + 1) : i \in 1..h \/ i = h + 1
      BY NetFacts
    <3>3. \A i \in 1..(h + 1) : heard'[i] = pushed'[i]
      BY <1>0, <1>8, <2>2, <3>2 DEF OnReceive, OnReceiveRaises, sendVars, ReaderIsNext
    <3> QED
      BY <2>2, <3>1, <3>3 DEF ReaderIsNext
  <2>5. ReadPlace = <<h + 2, 0>>
    BY <2>1, NetFacts DEF ReadPlace, After
  <2>6. reader'.state = "header" => ReadPlace' = <<h + 2, 0>>
    BY <2>2, NetFacts DEF ReadPlace
  <2>7. WritePlace' = WritePlace
    BY <1>8 DEF OnReceive, OnReceiveRaises, sendVars, WritePlace, Sent
  <2>8. StreamIsWhole'
    <3>1. reader'.state # "body"
      BY <2>3 DEF AtHeader, Reading
    <3>2. UNCHANGED <<pushed, wire, link>>
      BY <1>8 DEF OnReceive, OnReceiveRaises, sendVars
    <3> QED
      BY <1>0, <2>1, <2>5, <2>6, <2>7, <3>1, <3>2 DEF StreamIsWhole
  <2> QED
    BY <2>3, <2>4, <2>8 DEF InStep, AtHeader, Reading
<1>9. CASE LoseFrame
  <2>1. /\ reader.state = "body" /\ reader.message = pushed[h + 1] /\ h + 1 \in 1..Len(pushed)
        /\ ~IsWhole(reader.message)
    BY <1>0, <1>9, NetFacts DEF LoseFrame, BodyIsRead, ReaderIsNext
  <2>2. TooLong(reader.message)
    BY <2>1, NetFacts, ReadSizeType
  <2>3. DOMAIN pushed = 1..Len(pushed) /\ DOMAIN heard = 1..h
    BY <1>0, LenProperties DEF TypeOK
  <2>4. reader.message \in ToSet(pushed)
    BY <2>1, <2>3 DEF ToSet
  <2>5. reader.message \notin ToSet(heard)
    BY <1>0, <2>1, <2>3, NetFacts DEF ToSet, ReaderIsNext, QueueIsRest
  <2>6. InStep'
    BY <1>9, <2>2, <2>4, <2>5 DEF LoseFrame, sendVars, InStep
  <2>7. reader'.state \in {"lost", "stopped"}
    BY <1>9 DEF LoseFrame, Reading
  <2> QED
    BY <1>0, <1>9, <2>6, <2>7 DEF LoseFrame, sendVars, ReaderIsNext, StreamIsWhole
<1>10. CASE ReadFails
  <2>1. UNCHANGED <<pushed, wire, link, heard>> /\ WritePlace' = WritePlace
    BY <1>10 DEF ReadFails, sendVars, WritePlace, Sent
  <2>2. CASE reader' = reader
    BY <1>0, <2>1, <2>2 DEF ReaderIsNext, StreamIsWhole, InStep, ReadPlace
  <2>3. CASE reader' = Reading("stopped", NoMessage, 0)
    BY <1>0, <2>1, <2>3 DEF ReaderIsNext, StreamIsWhole, InStep, Reading
  <2> QED
    BY <1>10, <2>2, <2>3 DEF ReadFails
<1>11. CASE UNCHANGED vars
  BY <1>0, <1>11 DEF vars, ReaderIsNext, StreamIsWhole, InStep, ReadPlace, WritePlace, Sent
<1> QED
  BY <1>1, <1>2, <1>3, <1>4, <1>5, <1>6, <1>7, <1>8, <1>9, <1>10, <1>11 DEF Next, Write, Read

\* The invariant is inductive.
LEMMA NetInvariant == Spec => []NetInv
<1>1. Init => NetInv
  <2> SUFFICES ASSUME Init PROVE NetInv
    OBVIOUS
  <2>1. TypeOK /\ OneOrNone
    BY WriterInit
  <2>2. Len(queue) = 0 /\ Len(pushed) = 0 /\ Len(heard) = 0 /\ queue = <<>> /\ wire = <<>> /\ offset = 0
    BY EmptySeq DEF Init
  <2>3. reader.state = "header"
    BY DEF Init, AtHeader, Reading
  <2> QED
    BY <2>1, <2>2, <2>3 DEF NetInv, QueueIsRest, ReaderIsNext, StreamIsWhole, Stream, InStep, Sent,
                            ReadPlace, WritePlace
<1>2. NetInv /\ [Next]_vars => NetInv'
  BY NetTypeStep, WriterStep, QueueStep, StreamStep DEF NetInv
<1> QED
  BY <1>1, <1>2, PTL DEF Spec

\* onReceive is called with the messages in the order in which they were sent, none
\* twice and none left out, however the writes and the reads cut them.
THEOREM NetHeardInOrder == Spec => []HeardInOrder
<1>1. NetInv => HeardInOrder
  <2> SUFFICES ASSUME NetInv PROVE HeardInOrder
    OBVIOUS
  <2>1. heard \in Seq(Message) /\ pushed \in Seq(Message) /\ ReaderIsNext
    BY DEF NetInv, TypeOK
  <2>2. Len(heard) \in Nat /\ Len(pushed) \in Nat
    BY NetFacts
  <2>3. \A i \in 1..Len(heard) : heard[i] \in Message /\ pushed[i] \in Message
    BY <2>1, <2>2, ElementOfSeq DEF ReaderIsNext
  <2> DEFINE a == SubSeq(heard, 1, Len(heard))
             b == SubSeq(pushed, 1, Len(heard))
  <2>4. /\ a \in Seq(Message) /\ Len(a) = Len(heard)
        /\ \A i \in 1..Len(heard) : a[i] = heard[i]
    BY <2>2, <2>3, SubSeqProperties
  <2>5. /\ b \in Seq(Message) /\ Len(b) = Len(heard)
        /\ \A i \in 1..Len(heard) : b[i] = pushed[i]
    BY <2>2, <2>3, SubSeqProperties
  <2>6. \A i \in 1..Len(a) : a[i] = b[i]
    BY <2>1, <2>4, <2>5 DEF ReaderIsNext
  <2>7. a = b
    BY <2>4, <2>5, <2>6, SeqEqual
  <2> QED
    BY <2>1, <2>7 DEF HeardInOrder, IsPrefix, ReaderIsNext
<1> QED
  BY <1>1, NetInvariant, PTL

\* A length is read from the middle of a body only behind a message that is too long for
\* the buffer of the receiver.
THEOREM NetInStep == Spec => []InStep
<1>1. NetInv => InStep
  BY DEF NetInv
<1> QED
  BY <1>1, NetInvariant, PTL
=============================================================================
