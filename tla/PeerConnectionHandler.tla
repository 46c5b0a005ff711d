----------------------- MODULE PeerConnectionHandler -----------------------
(***************************************************************************)
(* network/PeerConnectionHandler.scala: the actor between one TCP          *)
(* connection and the NetworkController.  It shakes hands, cuts the bytes  *)
(* it reads into messages, and writes messages, buffering them while the   *)
(* connection pushes back.                                                 *)
(*                                                                         *)
(* The TCP connection is an actor of Akka (external), modelled from the    *)
(* commands and events the handler exchanges with it: a Write that comes   *)
(* while another is pending fails and suspends writing; every Write fails  *)
(* then until ResumeWriting; a Write that asked for it is acknowledged     *)
(* when its bytes are in the socket.                                       *)
(*                                                                         *)
(* An outgoing message is its number in outMessagesCounter; 0 is the       *)
(* handshake.  The peer's bytes are cut into units, Parts of them for the  *)
(* handshake and for every message, so that TCP may deliver any number of  *)
(* units at a time and a position in the stream says what is found there.  *)
(***************************************************************************)
EXTENDS Integers, Sequences, FiniteSets, FiniteSetsExt, Functions

CONSTANTS
    MaxOut,         \* bound: messages the node sends
    MaxIn,          \* bound: messages the peer sends, numbered from 1
    Parts,          \* units of a message, at least 2: a header and data
    Malformed,      \* messages of the peer whose header deserialize refuses
    HandshakeAlone  \* TCP delivers the handshake in one piece, and nothing with it

ASSUME HandlerAssumption ==
    /\ MaxOut \in Nat /\ MaxIn \in Nat
    /\ Parts \in Nat \ {0, 1}
    /\ Malformed \subseteq 1..MaxIn
    /\ HandshakeAlone \in BOOLEAN

VARIABLES
    phase,              \* the current behaviour of the actor, "stopped" at the end
    outMessagesCounter,
    outMessagesBuffer,  \* keys of the TreeMap: messages that wait to be written
    arrived,            \* units of the peer's stream received so far
    parsed,             \* where chunksBuffer begins: it is units parsed+1 .. arrived
    forwarded,          \* messages sent to the NetworkController
    penalized,          \* PenalizePeer was sent
    closeRequested,     \* a CloseConnection is in the handler's mailbox
    toTcp,              \* commands to the connection, in order
    fromTcp,            \* events to the handler, in order
    pending,            \* the write in progress in the connection, as a set
    suspended,          \* writingSuspended
    interested,         \* interestedInResume: WritingResumed is owed
    written,            \* messages that were written into the socket
    repeated,           \* one of them was written more than once
    open                \* the connection is open

outVars == <<outMessagesCounter, outMessagesBuffer>>
inVars == <<arrived, parsed, forwarded, penalized>>
tcpVars == <<pending, suspended, interested, written, repeated, open>>
vars == <<phase, outVars, inVars, closeRequested, toTcp, fromTcp, tcpVars>>

Write(id, ack) == [kind |-> "Write", id |-> id, ack |-> ack]
ResumeWriting == [kind |-> "ResumeWriting"]
Abort == [kind |-> "Abort"]

Ack(id) == [kind |-> "Ack", id |-> id]
CommandFailed(command) == [kind |-> "CommandFailed", command |-> command]
WritingResumed == [kind |-> "WritingResumed"]
ConnectionClosed == [kind |-> "ConnectionClosed"]

-----------------------------------------------------------------------------
(* The TCP connection (external)                                           *)

Event(e) == fromTcp' = fromTcp \o e
AckOf(w) == IF w.ack THEN <<Ack(w.id)>> ELSE <<>>

IntoSocket(w) ==
    /\ written' = written \cup {w.id}
    /\ repeated' = (repeated \/ w.id \in written)

TakesWrite(w) ==
    \/ /\ suspended
       /\ Event(<<CommandFailed(w)>>)
       /\ UNCHANGED tcpVars
    \/ /\ ~suspended /\ pending # {}
       /\ suspended' = TRUE
       /\ Event(<<CommandFailed(w)>>)
       /\ UNCHANGED <<pending, interested, written, repeated, open>>
    \/ /\ ~suspended /\ pending = {}
       /\ pending' = {w}
       /\ UNCHANGED <<fromTcp, suspended, interested, written, repeated, open>>
    \/ /\ ~suspended /\ pending = {}        \* all the bytes fit into the socket
       /\ IntoSocket(w)
       /\ Event(AckOf(w))
       /\ UNCHANGED <<pending, suspended, interested, open>>

TakesResumeWriting ==
    /\ suspended' = FALSE
    /\ \/ /\ pending # {} /\ ~interested
          /\ interested' = TRUE
          /\ UNCHANGED fromTcp
       \/ /\ pending # {} /\ interested
          /\ Event(<<CommandFailed(ResumeWriting)>>)
          /\ UNCHANGED interested
       \/ /\ pending = {}
          /\ Event(<<WritingResumed>>)
          /\ UNCHANGED interested
    /\ UNCHANGED <<pending, written, repeated, open>>

TakesAbort ==
    /\ open' = FALSE
    /\ pending' = {}
    /\ Event(<<ConnectionClosed>>)
    /\ UNCHANGED <<suspended, interested, written, repeated>>

TcpCommand ==
    /\ open /\ toTcp # <<>>
    /\ toTcp' = Tail(toTcp)
    /\ LET command == Head(toTcp)
       IN  \/ command.kind = "Write" /\ TakesWrite(command)
           \/ command.kind = "ResumeWriting" /\ TakesResumeWriting
           \/ command.kind = "Abort" /\ TakesAbort
    /\ UNCHANGED <<phase, outVars, inVars, closeRequested>>

\* The socket takes the rest of the pending write.
TcpFlush ==
    /\ open
    /\ \E w \in pending :
          /\ IntoSocket(w)
          /\ Event(AckOf(w) \o IF interested THEN <<WritingResumed>> ELSE <<>>)
    /\ pending' = {}
    /\ interested' = FALSE
    /\ UNCHANGED <<phase, outVars, inVars, closeRequested, toTcp, suspended, open>>

\* The peer closes the connection, or it breaks.
TcpClosed ==
    /\ open
    /\ open' = FALSE
    /\ pending' = {}
    /\ Event(<<ConnectionClosed>>)
    /\ UNCHANGED <<phase, outVars, inVars, closeRequested, toTcp, suspended, interested, written,
                   repeated>>

-----------------------------------------------------------------------------
(* Reading                                                                 *)

\* Message m takes the units after m * Parts; the handshake is message 0.
StartsMessage(position) == position % Parts = 0
MessageAt(position) == position \div Parts

\* deserialize, for a buffer of the units position+1 .. end.  What begins in the
\* middle of a message has the wrong magic bytes.
Deserialize(position, end) ==
    IF position = end THEN "None"
    ELSE IF ~StartsMessage(position) \/ MessageAt(position) \in Malformed THEN "Malicious"
    ELSE IF end < position + Parts THEN "None"
    ELSE "Message"

\* process(): where in the buffer the loop stops.  Every position before it holds a
\* whole message, which is forwarded and dropped.
StopsAt(position, end) ==
    CHOOSE stop \in position..end :
        /\ Deserialize(stop, end) # "Message"
        /\ \E n \in 0..MaxIn : stop = position + n * Parts
        /\ \A n \in 0..MaxIn :
              position + n * Parts < stop => Deserialize(position + n * Parts, end) = "Message"

MessagesBetween(position, stop) ==
    [i \in 1..((stop - position) \div Parts) |-> MessageAt(position) + i - 1]

IsWorking == phase \in {"writing", "buffering"}
StreamEnd == (MaxIn + 1) * Parts

\* Mistake: the message stays in the buffer when more bytes follow it.
ReceivedKeeping(n) ==
    LET end == arrived + n
        stop == StopsAt(parsed, end)
    IN  /\ forwarded' = forwarded \o MessagesBetween(parsed, stop)
        /\ penalized' = (penalized \/ Deserialize(stop, end) = "Malicious")
        /\ arrived' = end
        /\ parsed' = IF stop = end THEN stop ELSE parsed

\* remoteInterface: n units are added to chunksBuffer and what is complete leaves it.
ReceivedWorking(n) ==
    LET end == arrived + n
        stop == StopsAt(parsed, end)
    IN  /\ forwarded' = forwarded \o MessagesBetween(parsed, stop)
        /\ penalized' = (penalized \/ Deserialize(stop, end) = "Malicious")
        /\ arrived' = end
        /\ parsed' = stop

\* receiveAndHandleHandshake: the data are parsed as a handshake on their own.  What
\* follows it in the data is dropped, and so are data that do not parse; selfPeer is
\* not set then, so nobody is penalized.
ReceivedHandshaking(n) ==
    /\ HandshakeAlone => n = Parts
    /\ arrived' = arrived + n
    /\ parsed' = arrived + n
    /\ phase' = IF arrived = 0 /\ n >= Parts THEN "writing" ELSE phase
    /\ UNCHANGED <<forwarded, penalized>>

\* A chunk of bytes.  The peer sends messages when it has got our handshake.
Received(n) ==
    /\ open /\ arrived + n <= StreamEnd
    /\ arrived + n > Parts => 0 \in written
    /\ \/ phase = "handshaking" /\ ReceivedHandshaking(n)
       \/ IsWorking /\ ReceivedWorking(n) /\ UNCHANGED phase
    /\ UNCHANGED <<outVars, closeRequested, toTcp, fromTcp, tcpVars>>

-----------------------------------------------------------------------------
(* Writing                                                                 *)

Command(commands) == toTcp' = toTcp \o commands

\* writeFirst() of a buffer
FirstOf(buffer) == IF buffer = {} THEN <<>> ELSE <<Write(Min(buffer), TRUE)>>

\* A message of the NetworkController.
LocalMessage ==
    /\ IsWorking
    /\ outMessagesCounter < MaxOut
    /\ outMessagesCounter' = outMessagesCounter + 1
    /\ \/ /\ phase = "writing"
          /\ Command(<<Write(outMessagesCounter', TRUE)>>)
          /\ UNCHANGED outMessagesBuffer
       \/ /\ phase = "buffering"
          /\ outMessagesBuffer' = outMessagesBuffer \cup {outMessagesCounter'}
          /\ UNCHANGED toTcp
    /\ UNCHANGED <<phase, inVars, closeRequested, fromTcp, tcpVars>>

\* The event at the head of the mailbox, in a phase that has a case for it.
Handles(kind) ==
    /\ fromTcp # <<>> /\ Head(fromTcp).kind = kind
    /\ fromTcp' = Tail(fromTcp)
    /\ UNCHANGED <<inVars, closeRequested, tcpVars>>

\* Mistake: the write that failed is not kept.
HandleFailedWriteForgetting ==
    /\ Handles("CommandFailed")
    /\ LET command == Head(fromTcp).command
       IN  /\ IsWorking /\ command.kind = "Write" /\ command.ack
           /\ Command(<<ResumeWriting>>)
           /\ phase' = "buffering"
    /\ UNCHANGED outVars

\* Mistake: writing is resumed once, when buffering begins.
HandleFailedWriteResumingOnce ==
    /\ Handles("CommandFailed")
    /\ LET command == Head(fromTcp).command
       IN  /\ IsWorking /\ command.kind = "Write" /\ command.ack
           /\ Command(IF phase = "writing" THEN <<ResumeWriting>> ELSE <<>>)
           /\ outMessagesBuffer' = outMessagesBuffer \cup {command.id}
           /\ phase' = "buffering"
    /\ UNCHANGED outMessagesCounter

\* CommandFailed(Write(msg, Ack(id))): buffer it and ask for writing to be resumed.
HandleFailedWrite ==
    /\ Handles("CommandFailed")
    /\ LET command == Head(fromTcp).command
       IN  /\ IsWorking /\ command.kind = "Write" /\ command.ack
           /\ Command(<<ResumeWriting>>)
           /\ outMessagesBuffer' = outMessagesBuffer \cup {command.id}
           /\ phase' = "buffering"
    /\ UNCHANGED outMessagesCounter

\* CommandFailed(ResumeWriting) and the failure of a write without acknowledgement,
\* for which there is no case, are ignored.
HandleOtherFailure ==
    /\ Handles("CommandFailed")
    /\ LET command == Head(fromTcp).command
       IN  ~(IsWorking /\ command.kind = "Write" /\ command.ack)
    /\ UNCHANGED <<phase, outVars, toTcp>>

\* Ack(id), in buffering mode: on to the next, or back to writing.
HandleAck ==
    /\ Handles("Ack")
    /\ \/ /\ phase # "buffering"
          /\ UNCHANGED <<phase, outVars, toTcp>>
       \/ /\ phase = "buffering"
          /\ outMessagesBuffer' = outMessagesBuffer \ {Head(fromTcp).id}
          /\ Command(FirstOf(outMessagesBuffer'))
          /\ phase' = IF outMessagesBuffer' = {} THEN "writing" ELSE "buffering"
          /\ UNCHANGED outMessagesCounter

HandleWritingResumed ==
    /\ Handles("WritingResumed")
    /\ Command(IF phase = "buffering" THEN FirstOf(outMessagesBuffer) ELSE <<>>)
    /\ UNCHANGED <<phase, outVars>>

-----------------------------------------------------------------------------
(* Closing                                                                 *)

Aborted == Abort \in Range(toTcp)

\* The controller, or the handshake timer, which a handshake cancels: in any other
\* phase its message is ignored.  What follows an Abort has no effect.
RequestClose ==
    /\ phase # "stopped" /\ ~closeRequested
    /\ ~Aborted
    /\ closeRequested' = TRUE
    /\ UNCHANGED <<phase, outVars, inVars, toTcp, fromTcp, tcpVars>>

\* pushAllWithNoAck: the buffer in the order of its keys.
PushAll(buffer) ==
    LET Rank(id) == Cardinality({other \in buffer : other <= id})
    IN  [i \in 1..Cardinality(buffer) |-> Write(CHOOSE id \in buffer : Rank(id) = i, FALSE)]

CloseConnection ==
    /\ phase # "stopped" /\ closeRequested
    /\ closeRequested' = FALSE
    /\ Command(Append(PushAll(outMessagesBuffer), Abort))
    /\ UNCHANGED <<phase, outVars, inVars, fromTcp, tcpVars>>

HandleConnectionClosed ==
    /\ Handles("ConnectionClosed")
    /\ phase' = "stopped"
    /\ UNCHANGED <<outVars, toTcp>>

-----------------------------------------------------------------------------
\* preStart and handshaking: the handshake is written first, without an Ack.
Init ==
    /\ phase = "handshaking"
    /\ outMessagesCounter = 0
    /\ outMessagesBuffer = {}
    /\ arrived = 0 /\ parsed = 0
    /\ forwarded = <<>>
    /\ penalized = FALSE
    /\ closeRequested = FALSE
    /\ toTcp = <<Write(0, FALSE)>>
    /\ fromTcp = <<>>
    /\ pending = {}
    /\ suspended = FALSE /\ interested = FALSE
    /\ written = {} /\ repeated = FALSE
    /\ open = TRUE

Handle ==
    \/ HandleFailedWrite
    \/ HandleOtherFailure
    \/ HandleAck
    \/ HandleWritingResumed
    \/ HandleConnectionClosed

Next ==
    \/ TcpCommand
    \/ TcpFlush
    \/ TcpClosed
    \/ \E n \in 1..StreamEnd : Received(n)
    \/ LocalMessage
    \/ Handle
    \/ RequestClose
    \/ CloseConnection

\* Actors work off their mailboxes, and the peer goes on reading, so that the socket
\* takes what is pending.
Fairness ==
    /\ WF_vars(TcpCommand)
    /\ WF_vars(TcpFlush)
    /\ WF_vars(phase # "stopped" /\ Handle)
    /\ WF_vars(CloseConnection)

Spec == Init /\ [][Next]_vars /\ Fairness

-----------------------------------------------------------------------------
(* Properties                                                              *)

Stream == INSTANCE MessageStream WITH
    accepted <- outMessagesCounter, open <- open /\ ~Aborted

\* Whatever fails, is buffered, acknowledged and resumed: every message the handler
\* accepts reaches the socket unless the connection is closed, and none but those; they
\* do so in order and without a gap until one is written for the second time.
StreamIsKept == Stream!StreamSpec

\* The events that make the handler write again or go back to writing, and the
\* commands that are answered by one of them.
Wakes(e) ==
    \/ e.kind \in {"Ack", "WritingResumed"}
    \/ e.kind = "CommandFailed" /\ e.command.kind = "Write" /\ e.command.ack
IsAnswered(command) == command = ResumeWriting \/ (command.kind = "Write" /\ command.ack)

\* The handler is in buffering mode exactly while it has messages to write, and then
\* the connection owes it an answer, so that it never waits for nothing.
BufferIsAttended ==
    open =>
      /\ (phase = "buffering") <=> (outMessagesBuffer # {})
      /\ phase = "buffering" =>
            \/ interested /\ pending # {}
            \/ \E w \in pending : w.ack
            \/ \E command \in Range(toTcp) : IsAnswered(command)
            \/ \E e \in Range(fromTcp) : Wakes(e)

\* However TCP cuts the stream, the controller gets the peer's messages in order and
\* without a gap, as far as they have arrived, up to the first malformed one and none
\* after it; the peer is penalized when that one is met, and for nothing else.
MessagesAreForwarded ==
    LET met == \E m \in Malformed : arrived > m * Parts
    IN  /\ \A i \in DOMAIN forwarded : forwarded[i] = i
        /\ \A m \in Malformed : Len(forwarded) < m
        /\ penalized => met
        /\ IsWorking =>
             /\ met => penalized
             /\ \A m \in 1..MaxIn :
                  arrived >= (m + 1) * Parts /\ (\A k \in 1..m : k \notin Malformed)
                    => m <= Len(forwarded)

\* A peer that sends nothing but well-formed messages is not penalized for them.
HonestIsNotPenalized == Malformed = {} => ~penalized

=============================================================================
