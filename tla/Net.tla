-------------------------------- MODULE Net ---------------------------------
(***************************************************************************)
(* One direction of a session: Session and Connection at both ends of a    *)
(* TCP connection.  Several threads send (the network thread answers, the  *)
(* miner and the RPC threads broadcast), the network thread of the sender  *)
(* completes the writes, and the network thread of the receiver reads the  *)
(* length of a message, its body, and calls the handler.                   *)
(*                                                                         *)
(* Message m is sent as Size[m] + 1 units, <<m, 0>> being its length and   *)
(* <<m, 1>>, <<m, 2>>... its body; TCP carries them in order until it      *)
(* breaks.                                                                 *)
(***************************************************************************)
EXTENDS Integers, Sequences, FiniteSets, SequencesExt, FiniteSetsExt

CONSTANTS
  Message, Size,   \* what is sent, each message once, and how long it is
  LastMessage,     \* the messages of endSession, whose callback closes the session
  Sender,          \* the threads that send; "network" is one of them
  LengthRange,     \* 2^16: the length is sent as uint16
  BufferSize       \* NET_MESSAGE_BUFFER_SIZE

ASSUME NetAssumption ==
  /\ Size \in [Message -> Nat] /\ LastMessage \subseteq Message
  /\ "network" \in Sender
  /\ BufferSize \in Nat \ {0} /\ LengthRange \in Nat \ {0} /\ BufferSize < LengthRange

VARIABLES
  starting,  \* threads that found the queue empty and have not started writing yet
  queue,     \* _pending_send_messages
  writes,    \* the number of async_write operations under way
  offset,    \* the units of the front message that are written
  wire,      \* what TCP has taken and not delivered
  link,      \* "up", or "down" when the connection is lost
  closed,    \* _is_closed at the "sender" and at the "receiver"
  reader,    \* what the receiver reads: the message, the units left, and
             \* whether it reads a length ("header"), a "body" or nothing more
  pushed,    \* history: the messages in the order in which they were queued
  heard      \* history: the messages given to onReceive

vars == <<starting, queue, writes, offset, wire, link, closed, reader, pushed, heard>>
sendVars == <<starting, queue, writes, offset, pushed>>
receiveVars == <<reader, heard>>

NoMessage == "none"
Reading(state, m, left) == [state |-> state, message |-> m, left |-> left]
AtHeader == Reading("header", NoMessage, 0)

Init ==
  /\ starting = {} /\ queue = <<>> /\ writes = 0 /\ offset = 0
  /\ wire = <<>> /\ link = "up"
  /\ closed = [end \in {"sender", "receiver"} |-> FALSE]
  /\ reader = AtHeader /\ pushed = <<>> /\ heard = <<>>

-----------------------------------------------------------------------------
(* Sending *)

\* Mutant: every send starts to write.
IsAlreadyWriting_Never == FALSE
IsAlreadyWriting == queue # <<>>

\* Session::send and Connection::send up to the end of the lock.  A connection that
\* closes between the two keeps the message in its queue and never looks at it.
Push(t, m) ==
  /\ ~closed["sender"] /\ t \notin starting /\ m \notin ToSet(pushed)
  /\ queue' = Append(queue, m) /\ pushed' = Append(pushed, m)
  /\ starting' = IF IsAlreadyWriting THEN starting ELSE starting \cup {t}
  /\ UNCHANGED <<writes, offset, wire, link, closed, receiveVars>>

\* sendPendingMessages of the thread that found the queue empty
StartWrite(t) ==
  /\ t \in starting
  /\ starting' = starting \ {t}
  /\ writes' = writes + 1
  /\ UNCHANGED <<queue, offset, wire, link, closed, pushed, receiveVars>>

Unit(m, k) == <<m, k>>

\* TCP takes one more unit of the message that is written
Transmit ==
  /\ writes > 0 /\ ~closed["sender"] /\ link = "up" /\ offset <= Size[Head(queue)]
  /\ wire' = Append(wire, Unit(Head(queue), offset))
  /\ offset' = offset + 1
  /\ UNCHANGED <<starting, queue, writes, link, closed, pushed, receiveVars>>

\* the write of the front message is over, with an error when the link is down
IsWritten == offset > Size[Head(queue)] \/ link = "down"

\* Mutant: the queue is not looked at again after the pop.
NextWrites_Forgets == 0
\* pop, and sendPendingMessages when there is more
NextWrites == IF Len(queue) > 1 THEN 1 ELSE 0

\* Mutant: the message is popped when its successor has been started.
PopFront_Late == IF Len(queue) > 1 THEN <<queue[1]>> \o SubSeq(queue, 3, Len(queue)) ELSE <<>>
PopFront == Tail(queue)

\* The completion handler of async_write.  The callback of a last message closes the
\* session before the pop.
Complete ==
  /\ writes > 0 /\ ~closed["sender"] /\ IsWritten /\ "network" \notin starting
  /\ closed' = [closed EXCEPT !["sender"] = Head(queue) \in LastMessage]
  /\ queue' = PopFront /\ writes' = NextWrites /\ offset' = 0
  /\ UNCHANGED <<starting, wire, link, pushed, receiveVars>>

\* the sender closes for another reason: a Close message, the end of the stream
\* in the other direction
SenderCloses ==
  /\ ~closed["sender"]
  /\ closed' = [closed EXCEPT !["sender"] = TRUE]
  /\ UNCHANGED <<sendVars, wire, link, receiveVars>>

-----------------------------------------------------------------------------
(* Receiving *)

Reads == ~closed["receiver"] /\ link = "up" /\ wire # <<>>

\* Mutant: the length counts itself.
Length_WithHeader(m) == (Size[m] + 1) % LengthRange
\* toBytes(static_cast<std::uint16_t>(data.size()))
Length(m) == Size[m] % LengthRange

\* Mutant: as many bytes are read as the length says.
ReadSize_NoLimit(m) == Length(m)
\* Connection::receive: transfer_exactly(length) into a buffer of a fixed size
ReadSize(m) == Min({Length(m), BufferSize})

\* Session::receive: the length
ReadHeader ==
  LET unit == Head(wire) IN
  /\ Reads /\ reader.state = "header"
  /\ reader' = IF unit[2] = 0
               THEN Reading("body", unit[1], ReadSize(unit[1]))
               ELSE Reading("lost", NoMessage, 0)
  /\ wire' = Tail(wire)
  /\ UNCHANGED <<sendVars, link, closed, heard>>

ReadBody ==
  /\ Reads /\ reader.state = "body" /\ reader.left > 0
  /\ reader' = [reader EXCEPT !.left = @ - 1]
  /\ wire' = Tail(wire)
  /\ UNCHANGED <<sendVars, link, closed, heard>>

BodyIsRead == ~closed["receiver"] /\ reader.state = "body" /\ reader.left = 0
IsWhole(m) == ReadSize(m) = Size[m]

\* onReceive, and the next receive
OnReceive ==
  /\ BodyIsRead /\ IsWhole(reader.message)
  /\ heard' = Append(heard, reader.message)
  /\ reader' = AtHeader
  /\ UNCHANGED <<sendVars, wire, link, closed>>

\* onReceive raises: the exception is logged and nothing is received any more
OnReceiveRaises ==
  /\ BodyIsRead /\ IsWhole(reader.message)
  /\ heard' = Append(heard, reader.message)
  /\ reader' = Reading("stopped", NoMessage, 0)
  /\ UNCHANGED <<sendVars, wire, link, closed>>

\* The body was cut: the handler raises, or the next length is read from the middle
\* of a body; what is made of the bytes from then on is not followed
LoseFrame ==
  /\ BodyIsRead /\ ~IsWhole(reader.message)
  /\ reader' \in {Reading("lost", NoMessage, 0), Reading("stopped", NoMessage, 0)}
  /\ UNCHANGED <<sendVars, wire, link, closed, heard>>

\* async_read ends with eof, after all that was sent, or with connection_reset; both
\* close the connection.  Any other error is only logged.
ReadFails ==
  /\ ~closed["receiver"] /\ reader.state \in {"header", "body"} /\ ~BodyIsRead
  /\ \/ /\ link = "down" \/ (closed["sender"] /\ wire = <<>>)
        /\ closed' = [closed EXCEPT !["receiver"] = TRUE] /\ reader' = reader
     \/ /\ link = "down"
        /\ reader' = Reading("stopped", NoMessage, 0) /\ closed' = closed
  /\ UNCHANGED <<sendVars, wire, link, heard>>

\* the receiver closes: what is on its way is lost, and the sender meets errors
ReceiverCloses ==
  /\ ~closed["receiver"]
  /\ closed' = [closed EXCEPT !["receiver"] = TRUE]
  /\ link' = "down" /\ wire' = <<>>
  /\ UNCHANGED <<sendVars, receiveVars>>

\* the connection is lost
Break ==
  /\ link = "up"
  /\ link' = "down" /\ wire' = <<>>
  /\ UNCHANGED <<sendVars, closed, receiveVars>>

-----------------------------------------------------------------------------
Write == Transmit \/ Complete
Read == ReadHeader \/ ReadBody \/ OnReceive \/ OnReceiveRaises \/ LoseFrame \/ ReadFails

Next ==
  \/ \E t \in Sender : (\E m \in Message : Push(t, m)) \/ StartWrite(t)
  \/ Write \/ Read
  \/ SenderCloses \/ ReceiverCloses \/ Break

Spec == Init /\ [][Next]_vars

\* Threads are scheduled, writes complete and reads return.
Fairness ==
  /\ \A t \in Sender : WF_vars(StartWrite(t))
  /\ WF_vars(Write) /\ WF_vars(Read)

FairSpec == Spec /\ Fairness

-----------------------------------------------------------------------------
Units == UNION {{Unit(m, k) : k \in 0..Size[m]} : m \in Message}
Readers == [state : {"body"}, message : Message, left : 0..BufferSize]
           \cup {Reading(state, NoMessage, 0) : state \in {"header", "lost", "stopped"}}

\* The values each variable ranges over.
TypeOK ==
  /\ starting \subseteq Sender
  /\ queue \in Seq(Message) /\ pushed \in Seq(Message) /\ heard \in Seq(Message)
  /\ writes \in Nat /\ offset \in Nat
  /\ wire \in Seq(Units)
  /\ link \in {"up", "down"} /\ closed \in [{"sender", "receiver"} -> BOOLEAN]
  /\ reader \in Readers

\* However threads that send race with each other and with the completion of writes,
\* no two writes are under way (their bytes would mix), and as long as the connection
\* is open the queue is empty or somebody is writing it or about to.
OneWriter ==
  /\ writes + Cardinality(starting) <= 1
  /\ ~closed["sender"] => (queue # <<>> <=> writes + Cardinality(starting) = 1)

\* As long as the reader is in step, the handler hears the messages in the order in
\* which they were queued, none twice, none left out.
HeardInOrder == IsPrefix(heard, pushed)

TooLong(m) == Size[m] > BufferSize

\* The receiver takes a piece of a body for a length only behind a message that is
\* longer than its buffer.
InStep == reader.state = "lost" => \E m \in ToSet(pushed) \ ToSet(heard) : TooLong(m)

\* what may keep a queued message from the handler
Misses(m) == \/ link = "down" \/ reader.state \in {"lost", "stopped"}
             \/ closed["sender"] /\ m \in ToSet(queue)

\* Every message that is queued is heard unless the connection breaks, the reader has
\* stopped or the sender closes before it is written: a send never misses the last look
\* at the queue, and a session that its last message closes delivers that message.
QueuedIsHeard == \A m \in Message : m \in ToSet(pushed) ~> m \in ToSet(heard) \/ Misses(m)
=============================================================================
