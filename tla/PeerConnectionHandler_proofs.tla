-------------------- MODULE PeerConnectionHandler_proofs --------------------
(***************************************************************************)
(* Proofs about the handler, for any number of messages and however the    *)
(* connection pushes back and cuts the stream: it never waits in buffering *)
(* mode for an answer that nobody owes it; what it reads is forwarded in   *)
(* order; and what it writes is a MessageStream, in safety.                *)
(***************************************************************************)
EXTENDS PeerConnectionHandler, FiniteSetTheorems, SequenceTheorems, WellFoundedInduction, TLAPS

IsSeq(s) == \E S : s \in Seq(S)

\* The mailboxes are sequences, the buffer is finite, at most one write is pending, and
\* the handler stops only when the connection is closed.
HandlerInv ==
    /\ IsSeq(toTcp) /\ IsSeq(fromTcp)
    /\ IsFiniteSet(outMessagesBuffer)
    /\ \A v, w \in pending : v = w
    /\ open =>
         /\ phase \in {"handshaking", "writing", "buffering"}
         /\ \A e \in Range(fromTcp) : e.kind # "ConnectionClosed"

IInv == HandlerInv /\ BufferIsAttended

\* What the connection owes the handler.
Owed ==
    \/ interested /\ pending # {}
    \/ \E w \in pending : w.ack
    \/ \E command \in Range(toTcp) : IsAnswered(command)
    \/ \E e \in Range(fromTcp) : Wakes(e)

-----------------------------------------------------------------------------
(* Sequences                                                               *)

\* The members of a concatenation.
LEMMA ConcatOf ==
    ASSUME NEW s, NEW t, IsSeq(s), IsSeq(t)
    PROVE  IsSeq(s \o t) /\ Range(s \o t) = Range(s) \cup Range(t)
<1>1. PICK S : s \in Seq(S)
  BY DEF IsSeq
<1>2. PICK T : t \in Seq(T)
  BY DEF IsSeq
<1>3. s \in Seq(S \cup T) /\ t \in Seq(S \cup T)
  BY <1>1, <1>2
<1>4. /\ s \o t \in Seq(S \cup T)
      /\ \A i \in DOMAIN s : i \in DOMAIN (s \o t) /\ (s \o t)[i] = s[i]
      /\ \A i \in DOMAIN t : Len(s) + i \in DOMAIN (s \o t) /\ (s \o t)[Len(s) + i] = t[i]
      /\ \A i \in DOMAIN (s \o t) :
            \/ i \in DOMAIN s /\ (s \o t)[i] = s[i]
            \/ i - Len(s) \in DOMAIN t /\ (s \o t)[i] = t[i - Len(s)]
  BY <1>3
<1>5. IsSeq(s \o t)
  BY <1>4 DEF IsSeq
<1>6. Range(s \o t) = Range(s) \cup Range(t)
  <2>1. \A e \in Range(s \o t) : e \in Range(s) \cup Range(t)
    BY <1>4 DEF Range
  <2>2. \A e \in Range(s) : e \in Range(s \o t)
    BY <1>4 DEF Range
  <2>3. ASSUME NEW e \in Range(t) PROVE e \in Range(s \o t)
    <3>1. PICK i \in DOMAIN t : e = t[i]
      BY DEF Range
    <3>2. Len(s) + i \in DOMAIN (s \o t) /\ (s \o t)[Len(s) + i] = e
      BY <1>4, <3>1
    <3>3. QED
      BY <3>2 DEF Range
  <2>4. QED
    BY <2>1, <2>2, <2>3
<1>7. QED
  BY <1>5, <1>6

\* The members of a tail.
LEMMA TailOf ==
    ASSUME NEW s, IsSeq(s), s # <<>>
    PROVE  IsSeq(Tail(s)) /\ Range(s) = {Head(s)} \cup Range(Tail(s))
<1>1. PICK S : s \in Seq(S)
  BY DEF IsSeq
<1>2. /\ Tail(s) \in Seq(S) /\ 1 \in DOMAIN s /\ Head(s) = s[1]
      /\ \A i \in DOMAIN Tail(s) : i + 1 \in DOMAIN s /\ Tail(s)[i] = s[i + 1]
      /\ \A i \in DOMAIN s : i # 1 => i - 1 \in DOMAIN Tail(s) /\ Tail(s)[i - 1] = s[i]
  BY <1>1
<1>3. IsSeq(Tail(s))
  BY <1>2 DEF IsSeq
<1>4. Range(s) = {Head(s)} \cup Range(Tail(s))
  <2>1. ASSUME NEW e \in Range(s) PROVE e = Head(s) \/ e \in Range(Tail(s))
    <3>1. PICK i \in DOMAIN s : e = s[i]
      BY DEF Range
    <3>2. i # 1 => i - 1 \in DOMAIN Tail(s) /\ Tail(s)[i - 1] = e
      BY <1>2, <3>1
    <3>3. QED
      BY <1>2, <3>1, <3>2 DEF Range
  <2>2. \A e \in Range(Tail(s)) : e \in Range(s)
    BY <1>2 DEF Range
  <2>3. Head(s) \in Range(s)
    BY <1>2 DEF Range
  <2>4. QED
    BY <2>1, <2>2, <2>3
<1>5. QED
  BY <1>3, <1>4

\* The members of short sequences.
LEMMA ShortOnes ==
    /\ IsSeq(<<>>) /\ Range(<<>>) = {}
    /\ \A e : IsSeq(<<e>>) /\ Range(<<e>>) = {e}
<1>1. <<>> \in Seq({}) /\ Range(<<>>) = {}
  BY DEF Range
<1>2. ASSUME NEW e
      PROVE  <<e>> \in Seq({e}) /\ Range(<<e>>) = {e}
  BY DEF Range
<1>3. QED
  BY <1>1, <1>2 DEF IsSeq

\* pushAllWithNoAck sends a sequence of commands.
LEMMA PushAllIsSeq ==
    ASSUME NEW buffer, IsFiniteSet(buffer)
    PROVE  IsSeq(Append(PushAll(buffer), Abort))
<1> DEFINE n == Cardinality(buffer)
           S == {PushAll(buffer)[i] : i \in 1..n} \cup {Abort}
<1>1. n \in Nat
  BY FS_CardinalityType
<1>2. PushAll(buffer) \in Seq(S)
  <2> DEFINE Rank(id) == Cardinality({other \in buffer : other <= id})
             At(i) == Write(CHOOSE id \in buffer : Rank(id) = i, FALSE)
  <2>1. PushAll(buffer) = [i \in 1..n |-> At(i)]
    BY DEF PushAll
  <2> HIDE DEF At
  <2>2. \A i \in 1..n : PushAll(buffer)[i] \in S
    OBVIOUS
  <2>3. PICK s : s = PushAll(buffer)
    OBVIOUS
  <2> HIDE DEF S, n
  <2>4. DOMAIN s = 1..n /\ (\A i \in 1..n : s[i] \in S) /\ s = [i \in 1..n |-> s[i]]
    BY <2>1, <2>2, <2>3
  <2>5. s \in [1..n -> S]
    BY <2>4
  <2>6. QED
    BY <1>1, <2>3, <2>5
<1>3. Append(PushAll(buffer), Abort) \in Seq(S)
  BY <1>2
<1>4. QED
  BY <1>3 DEF IsSeq

-----------------------------------------------------------------------------
(* The TCP connection                                                      *)

\* What the events of the connection mean for the handler.
LEMMA EventsAreSeqs ==
    /\ \A w : /\ IsSeq(AckOf(w)) /\ Range(AckOf(w)) = (IF w.ack THEN {Ack(w.id)} ELSE {})
              /\ Wakes(Ack(w.id)) /\ Ack(w.id).kind = "Ack"
              /\ CommandFailed(w).kind = "CommandFailed"
              /\ w.kind = "Write" /\ w.ack => Wakes(CommandFailed(w))
    /\ Wakes(WritingResumed) /\ WritingResumed.kind = "WritingResumed"
BY ShortOnes DEF AckOf, Wakes, Ack, CommandFailed, WritingResumed

\* The connection answers every command that must be answered.
LEMMA StepTcpCommand ==
    ASSUME IInv, TcpCommand
    PROVE  IInv'
<1> DEFINE command == Head(toTcp)
<1> USE DEF IInv, HandlerInv
<1>1. /\ open /\ toTcp # <<>> /\ toTcp' = Tail(toTcp)
      /\ UNCHANGED <<phase, outMessagesBuffer>>
  BY DEF TcpCommand, outVars
<1>2. IsSeq(toTcp') /\ Range(toTcp) = {command} \cup Range(toTcp')
  BY <1>1, TailOf
<1>3. CASE command.kind = "Write" /\ TakesWrite(command)
  <2>1. /\ open' = open
        /\ IsSeq(fromTcp') /\ Range(fromTcp) \subseteq Range(fromTcp')
        /\ \A e \in Range(fromTcp') : e \in Range(fromTcp) \/ e.kind \in {"Ack", "CommandFailed"}
        /\ (interested /\ pending # {}) => (interested' /\ pending' # {})
        /\ pending \subseteq pending' /\ \A v, w \in pending' : v = w
        /\ command.ack => (\E w \in pending' : w.ack) \/ (\E e \in Range(fromTcp') : Wakes(e))
    <3>1. CASE fromTcp' = fromTcp \o <<CommandFailed(command)>> /\ UNCHANGED <<pending, interested, open>>
      <4>1. IsSeq(fromTcp') /\ Range(fromTcp') = Range(fromTcp) \cup {CommandFailed(command)}
        BY <3>1, ConcatOf, ShortOnes
      <4>2. QED
        BY <1>3, <3>1, <4>1, EventsAreSeqs
    <3>2. CASE pending = {} /\ pending' = {command} /\ UNCHANGED <<fromTcp, interested, open>>
      BY <3>2
    <3>3. CASE pending = {} /\ Event(AckOf(command)) /\ UNCHANGED <<pending, interested, open>>
      <4>1. IsSeq(fromTcp') /\ Range(fromTcp') = Range(fromTcp) \cup Range(AckOf(command))
        BY <3>3, ConcatOf, EventsAreSeqs DEF Event
      <4>2. QED
        BY <3>3, <4>1, EventsAreSeqs
    <3>4. QED
      BY <1>3, <3>1, <3>2, <3>3 DEF TakesWrite, Event, tcpVars
  <2>2. HandlerInv'
    BY <1>1, <1>2, <2>1
  <2>3. Owed => Owed'
    BY <1>2, <1>3, <2>1 DEF Owed, IsAnswered, ResumeWriting
  <2>4. QED
    BY <1>1, <2>1, <2>2, <2>3 DEF BufferIsAttended, Owed
<1>4. CASE command.kind = "ResumeWriting" /\ TakesResumeWriting
  <2>1. /\ UNCHANGED <<open, pending>>
        /\ IsSeq(fromTcp') /\ Range(fromTcp) \subseteq Range(fromTcp')
        /\ \A e \in Range(fromTcp') : e \in Range(fromTcp) \/ e.kind \in {"WritingResumed", "CommandFailed"}
        /\ (interested' /\ pending' # {}) \/ (\E e \in Range(fromTcp') : Wakes(e))
    <3>1. CASE pending # {} /\ interested' = TRUE /\ UNCHANGED <<fromTcp, pending, open>>
      BY <3>1
    <3>2. CASE pending # {} /\ interested /\ Event(<<CommandFailed(ResumeWriting)>>)
                 /\ UNCHANGED <<interested, pending, open>>
      <4>1. IsSeq(fromTcp') /\ Range(fromTcp') = Range(fromTcp) \cup {CommandFailed(ResumeWriting)}
        BY <3>2, ConcatOf, ShortOnes DEF Event
      <4>2. QED
        BY <3>2, <4>1, EventsAreSeqs
    <3>3. CASE Event(<<WritingResumed>>) /\ UNCHANGED <<interested, pending, open>>
      <4>1. IsSeq(fromTcp') /\ Range(fromTcp') = Range(fromTcp) \cup {WritingResumed}
        BY <3>3, ConcatOf, ShortOnes DEF Event
      <4>2. QED
        BY <3>3, <4>1, EventsAreSeqs
    <3>4. QED
      BY <1>4, <3>1, <3>2, <3>3 DEF TakesResumeWriting
  <2>2. HandlerInv' /\ Owed'
    BY <1>1, <1>2, <2>1 DEF Owed
  <2>3. QED
    BY <1>1, <2>1, <2>2 DEF BufferIsAttended, Owed
<1>5. CASE command.kind = "Abort" /\ TakesAbort
  <2>1. open' = FALSE /\ pending' = {} /\ fromTcp' = fromTcp \o <<ConnectionClosed>>
    BY <1>5 DEF TakesAbort, Event
  <2>2. IsSeq(fromTcp')
    BY <2>1, ConcatOf, ShortOnes
  <2>3. QED
    BY <1>1, <1>2, <2>1, <2>2 DEF BufferIsAttended
<1>6. QED
  BY <1>3, <1>4, <1>5 DEF TcpCommand

\* The pending write is acknowledged.
LEMMA StepTcpFlush ==
    ASSUME IInv, TcpFlush
    PROVE  IInv'
<1> USE DEF IInv, HandlerInv
<1> DEFINE resumed == IF interested THEN <<WritingResumed>> ELSE <<>>
<1>1. PICK v \in pending : fromTcp' = fromTcp \o (AckOf(v) \o resumed)
  BY DEF TcpFlush, Event
<1>2. UNCHANGED <<phase, outMessagesBuffer, toTcp, open>> /\ pending' = {}
  BY DEF TcpFlush, outVars
<1>3. IsSeq(resumed)
  BY ShortOnes
<1>4. interested => WritingResumed \in Range(resumed)
  BY ShortOnes
<1>5. \A e \in Range(resumed) : e = WritingResumed
  BY ShortOnes
<1> HIDE DEF resumed
<1>6. IsSeq(AckOf(v)) /\ \A e \in Range(AckOf(v)) : e = Ack(v.id)
  BY EventsAreSeqs
<1>7. v.ack => Ack(v.id) \in Range(AckOf(v))
  BY EventsAreSeqs
<1>8. IsSeq(AckOf(v) \o resumed) /\ Range(AckOf(v) \o resumed) = Range(AckOf(v)) \cup Range(resumed)
  BY <1>3, <1>6, ConcatOf
<1>9. IsSeq(fromTcp') /\ Range(fromTcp') = Range(fromTcp) \cup Range(AckOf(v)) \cup Range(resumed)
  BY <1>1, <1>8, ConcatOf
<1>10. HandlerInv'
  BY <1>2, <1>5, <1>6, <1>9, EventsAreSeqs
<1>11. Owed => Owed'
  <2>1. CASE interested
    BY <1>4, <1>9, <2>1, EventsAreSeqs DEF Owed
  <2>2. CASE \E w \in pending : w.ack
    <3>1. v.ack
      BY <2>2
    <3>2. QED
      BY <1>7, <1>9, <3>1, EventsAreSeqs DEF Owed
  <2>3. CASE \E command \in Range(toTcp) : IsAnswered(command)
    BY <1>2, <2>3 DEF Owed
  <2>4. CASE \E e \in Range(fromTcp) : Wakes(e)
    BY <1>9, <2>4 DEF Owed
  <2>5. QED
    BY <2>1, <2>2, <2>3, <2>4 DEF Owed
<1>12. QED
  BY <1>2, <1>10, <1>11 DEF BufferIsAttended, Owed

\* A closed connection says so.
LEMMA StepTcpClosed ==
    ASSUME IInv, TcpClosed
    PROVE  IInv'
<1> USE DEF IInv, HandlerInv
<1>1. /\ open' = FALSE /\ pending' = {} /\ fromTcp' = fromTcp \o <<ConnectionClosed>>
      /\ UNCHANGED <<outMessagesBuffer, toTcp>>
  BY DEF TcpClosed, Event, outVars
<1>2. IsSeq(fromTcp')
  BY <1>1, ConcatOf, ShortOnes
<1>3. QED
  BY <1>1, <1>2 DEF BufferIsAttended

-----------------------------------------------------------------------------
(* The handler                                                             *)

\* Reading does not touch what is owed, or ends by closing.
LEMMA StepReceived ==
    ASSUME IInv, NEW n, Received(n)
    PROVE  IInv'
<1> USE DEF IInv, HandlerInv
<1>1. UNCHANGED <<outMessagesBuffer, toTcp, fromTcp, pending, interested, open>>
  BY DEF Received, outVars, tcpVars
<1>2. phase' = phase \/ (phase = "handshaking" /\ phase' = "writing")
  BY DEF Received, ReceivedHandshaking
<1>3. HandlerInv'
  BY <1>1, <1>2
<1>4. Owed' <=> Owed
  BY <1>1 DEF Owed
<1>5. QED
  BY <1>1, <1>2, <1>3, <1>4 DEF BufferIsAttended, Owed

\* Commands of the handler come after those the connection has not taken yet.
LEMMA CommandsAreAdded ==
    ASSUME IInv, NEW commands, IsSeq(commands), Command(commands)
    PROVE  IsSeq(toTcp') /\ Range(toTcp') = Range(toTcp) \cup Range(commands)
BY ConcatOf DEF Command, IInv, HandlerInv

\* Writing the first buffered message asks for an answer.
LEMMA FirstIsAnswered ==
    ASSUME NEW buffer
    PROVE  /\ IsSeq(FirstOf(buffer))
           /\ buffer # {} => \E command \in Range(FirstOf(buffer)) : IsAnswered(command)
<1>1. \A id : Write(id, TRUE).kind = "Write" /\ Write(id, TRUE).ack
  BY DEF Write
<1>2. CASE buffer = {}
  BY <1>2, ShortOnes DEF FirstOf
<1>3. CASE buffer # {}
  <2>1. FirstOf(buffer) = <<Write(Min(buffer), TRUE)>>
    BY <1>3 DEF FirstOf
  <2>2. QED
    BY <1>1, <2>1, ShortOnes DEF IsAnswered
<1>4. QED
  BY <1>2, <1>3

\* A message is written, or buffered while something is owed.
LEMMA StepLocalMessage ==
    ASSUME IInv, LocalMessage
    PROVE  IInv'
<1> USE DEF IInv, HandlerInv
<1>1. UNCHANGED <<phase, fromTcp, pending, interested, open>>
  BY DEF LocalMessage, tcpVars
<1>2. CASE phase = "writing" /\ Command(<<Write(outMessagesCounter', TRUE)>>) /\ UNCHANGED outMessagesBuffer
  <2>1. IsSeq(toTcp')
    BY <1>2, CommandsAreAdded, ShortOnes
  <2>2. QED
    BY <1>1, <1>2, <2>1 DEF BufferIsAttended
<1>3. CASE /\ phase = "buffering" /\ UNCHANGED toTcp
           /\ outMessagesBuffer' = outMessagesBuffer \cup {outMessagesCounter'}
  <2>1. IsFiniteSet(outMessagesBuffer')
    BY <1>3, FS_AddElement
  <2>2. Owed => Owed'
    BY <1>1, <1>3 DEF Owed
  <2>3. QED
    BY <1>1, <1>3, <2>1, <2>2 DEF BufferIsAttended, Owed
<1>4. QED
  BY <1>2, <1>3 DEF LocalMessage

\* What taking an event out of the mailbox leaves alone.
LEMMA EventIsTaken ==
    ASSUME IInv, NEW kind, Handles(kind)
    PROVE  /\ Head(fromTcp).kind = kind
           /\ IsSeq(fromTcp') /\ Range(fromTcp) = {Head(fromTcp)} \cup Range(fromTcp')
           /\ UNCHANGED <<pending, interested, open>>
BY TailOf DEF Handles, tcpVars, IInv, HandlerInv

\* A failed write is answered with ResumeWriting.
LEMMA StepFailedWrite ==
    ASSUME IInv, HandleFailedWrite
    PROVE  IInv'
<1> USE DEF IInv, HandlerInv
<1>1. /\ IsSeq(fromTcp') /\ Range(fromTcp') \subseteq Range(fromTcp)
      /\ UNCHANGED <<pending, interested, open>>
  BY EventIsTaken DEF HandleFailedWrite
<1>2. /\ phase' = "buffering" /\ Command(<<ResumeWriting>>)
      /\ outMessagesBuffer' = outMessagesBuffer \cup {Head(fromTcp).command.id}
  BY DEF HandleFailedWrite
<1>3. IsSeq(toTcp') /\ ResumeWriting \in Range(toTcp')
  BY <1>2, CommandsAreAdded, ShortOnes
<1>4. IsFiniteSet(outMessagesBuffer')
  BY <1>2, FS_AddElement
<1>5. HandlerInv'
  BY <1>1, <1>2, <1>3, <1>4
<1>6. Owed'
  BY <1>3 DEF Owed, IsAnswered
<1>7. QED
  BY <1>2, <1>5, <1>6 DEF BufferIsAttended, Owed

\* Other failures leave the buffer attended.
LEMMA StepOtherFailure ==
    ASSUME IInv, HandleOtherFailure
    PROVE  IInv'
<1> USE DEF IInv, HandlerInv
<1>1. /\ IsSeq(fromTcp') /\ Range(fromTcp) = {Head(fromTcp)} \cup Range(fromTcp')
      /\ UNCHANGED <<pending, interested, open>>
      /\ Head(fromTcp).kind = "CommandFailed"
  BY EventIsTaken DEF HandleOtherFailure
<1>2. UNCHANGED <<phase, outMessagesBuffer, toTcp>>
  BY DEF HandleOtherFailure, outVars
<1>3. HandlerInv'
  BY <1>1, <1>2
<1>4. phase = "buffering" => ~Wakes(Head(fromTcp))
  BY <1>1 DEF HandleOtherFailure, Wakes, IsWorking
<1>5. phase = "buffering" /\ Owed => Owed'
  BY <1>1, <1>2, <1>4 DEF Owed
<1>6. QED
  BY <1>1, <1>2, <1>3, <1>5 DEF BufferIsAttended, Owed

\* An Ack starts the next write.
LEMMA StepAck ==
    ASSUME IInv, HandleAck
    PROVE  IInv'
<1> USE DEF IInv, HandlerInv
<1>1. /\ IsSeq(fromTcp') /\ Range(fromTcp') \subseteq Range(fromTcp)
      /\ UNCHANGED <<pending, interested, open>>
  BY EventIsTaken DEF HandleAck
<1>2. CASE phase # "buffering" /\ UNCHANGED <<phase, outMessagesBuffer, toTcp>>
  BY <1>1, <1>2 DEF BufferIsAttended
<1>3. CASE /\ phase = "buffering"
           /\ outMessagesBuffer' = outMessagesBuffer \ {Head(fromTcp).id}
           /\ Command(FirstOf(outMessagesBuffer'))
           /\ phase' = IF outMessagesBuffer' = {} THEN "writing" ELSE "buffering"
  <2>1. /\ IsSeq(toTcp')
        /\ outMessagesBuffer' # {} => \E command \in Range(toTcp') : IsAnswered(command)
    BY <1>3, CommandsAreAdded, FirstIsAnswered
  <2>2. IsFiniteSet(outMessagesBuffer')
    BY <1>3, FS_RemoveElement
  <2>3. /\ phase' \in {"writing", "buffering"}
        /\ (phase' = "buffering") <=> (outMessagesBuffer' # {})
    BY <1>3
  <2>4. HandlerInv'
    BY <1>1, <2>1, <2>2, <2>3
  <2>5. outMessagesBuffer' # {} => Owed'
    BY <2>1 DEF Owed
  <2>6. QED
    BY <2>3, <2>4, <2>5 DEF BufferIsAttended, Owed
<1>4. QED
  BY <1>2, <1>3 DEF HandleAck, outVars

\* WritingResumed starts the next write.
LEMMA StepWritingResumed ==
    ASSUME IInv, HandleWritingResumed
    PROVE  IInv'
<1> USE DEF IInv, HandlerInv
<1>1. /\ IsSeq(fromTcp') /\ Range(fromTcp') \subseteq Range(fromTcp)
      /\ UNCHANGED <<pending, interested, open>>
  BY EventIsTaken DEF HandleWritingResumed
<1>2. UNCHANGED <<phase, outMessagesBuffer>>
  BY DEF HandleWritingResumed, outVars
<1>3. CASE phase = "buffering"
  <2>1. Command(FirstOf(outMessagesBuffer))
    BY <1>3 DEF HandleWritingResumed
  <2>2. /\ IsSeq(toTcp')
        /\ outMessagesBuffer # {} => \E command \in Range(toTcp') : IsAnswered(command)
    BY <2>1, CommandsAreAdded, FirstIsAnswered
  <2>3. HandlerInv'
    BY <1>1, <1>2, <2>2
  <2>4. outMessagesBuffer # {} => Owed'
    BY <2>2 DEF Owed
  <2>5. QED
    BY <1>1, <1>2, <2>3, <2>4 DEF BufferIsAttended, Owed
<1>4. CASE phase # "buffering"
  <2>1. Command(<<>>)
    BY <1>4 DEF HandleWritingResumed
  <2>2. IsSeq(toTcp')
    BY <2>1, CommandsAreAdded, ShortOnes
  <2>3. QED
    BY <1>1, <1>2, <1>4, <2>2 DEF BufferIsAttended
<1>5. QED
  BY <1>3, <1>4

\* The handler stops.
LEMMA StepConnectionClosed ==
    ASSUME IInv, HandleConnectionClosed
    PROVE  IInv'
<1> USE DEF IInv, HandlerInv
<1>1. /\ IsSeq(fromTcp') /\ Head(fromTcp) \in Range(fromTcp)
      /\ Head(fromTcp).kind = "ConnectionClosed"
      /\ UNCHANGED <<pending, interested, open>>
  BY EventIsTaken DEF HandleConnectionClosed
<1>2. UNCHANGED <<outMessagesBuffer, toTcp>>
  BY DEF HandleConnectionClosed, outVars
<1>3. ~open'
  BY <1>1
<1>4. QED
  BY <1>1, <1>2, <1>3 DEF BufferIsAttended

\* A request to close changes nothing yet.
LEMMA StepRequestClose ==
    ASSUME IInv, RequestClose
    PROVE  IInv'
BY DEF RequestClose, IInv, HandlerInv, BufferIsAttended, outVars, tcpVars

\* Closing sends Abort, which is answered.
LEMMA StepCloseConnection ==
    ASSUME IInv, CloseConnection
    PROVE  IInv'
<1> USE DEF IInv, HandlerInv
<1>1. UNCHANGED <<phase, outMessagesBuffer, fromTcp, pending, interested, open>>
  BY DEF CloseConnection, outVars, tcpVars
<1>2. IsSeq(toTcp') /\ Range(toTcp) \subseteq Range(toTcp')
  BY CommandsAreAdded, PushAllIsSeq DEF CloseConnection
<1>3. HandlerInv'
  BY <1>1, <1>2
<1>4. Owed => Owed'
  BY <1>1, <1>2 DEF Owed
<1>5. QED
  BY <1>1, <1>3, <1>4 DEF BufferIsAttended, Owed

-----------------------------------------------------------------------------
(* The handler's specification                                             *)

\* The invariant holds at the start.
LEMMA InitAttended == Init => IInv
<1> SUFFICES ASSUME Init PROVE IInv
  OBVIOUS
<1>1. IsSeq(toTcp) /\ IsSeq(fromTcp) /\ Range(fromTcp) = {}
  BY ShortOnes DEF Init
<1>2. IsFiniteSet(outMessagesBuffer)
  BY FS_EmptySet DEF Init
<1>3. QED
  BY <1>1, <1>2 DEF Init, IInv, HandlerInv, BufferIsAttended

\* Every step keeps it.
LEMMA NextAttended == IInv /\ [Next]_vars => IInv'
<1> SUFFICES ASSUME IInv, [Next]_vars PROVE IInv'
  OBVIOUS
<1>1. CASE UNCHANGED vars
  BY <1>1 DEF vars, outVars, tcpVars, IInv, HandlerInv, BufferIsAttended
<1>2. CASE Handle
  BY <1>2, StepFailedWrite, StepOtherFailure, StepAck, StepWritingResumed, StepConnectionClosed
     DEF Handle
<1>3. CASE \E n \in 1..StreamEnd : Received(n)
  BY <1>3, StepReceived
<1>4. QED
  BY <1>1, <1>2, <1>3, StepTcpCommand, StepTcpFlush, StepTcpClosed, StepLocalMessage,
     StepRequestClose, StepCloseConnection
     DEF Next

\* The handler buffers messages exactly when it is in buffering mode, and it never waits
\* there for nothing: whatever is written, refused, resumed and acknowledged in whatever
\* order, an answer that makes it go on is due (localInterfaceWriting and
\* localInterfaceBuffering of PeerConnectionHandler).
THEOREM BufferAlwaysAttended == Spec => []BufferIsAttended
<1>1. IInv => BufferIsAttended
  BY DEF IInv
<1>2. QED
  BY <1>1, InitAttended, NextAttended, PTL DEF Spec

-----------------------------------------------------------------------------
(* Reading: arithmetic of positions                                        *)

\* A set of natural numbers has a least one.
LEMMA LeastOf ==
    ASSUME NEW T \in SUBSET Nat, T # {}
    PROVE  \E x \in T : \A y \in T : x <= y
<1>1. PICK x \in T : \A y \in T : ~(<<y, x>> \in OpToRel(<, Nat))
  BY NatLessThanWellFounded, WFMin
<1>2. \A y \in T : ~(y < x)
  BY <1>1 DEF OpToRel
<1>. QED  BY <1>2

\* Where a message begins.
LEMMA Units ==
    ASSUME NEW j \in Nat
    PROVE  /\ j * Parts \in Nat
           /\ (j * Parts) % Parts = 0 /\ (j * Parts) \div Parts = j
BY HandlerAssumption

\* Messages follow each other.
LEMMA UnitsGrow ==
    ASSUME NEW i \in Nat, NEW j \in Nat
    PROVE  /\ i <= j <=> i * Parts <= j * Parts
           /\ i * Parts + j * Parts = (i + j) * Parts
           /\ i < j => i * Parts + Parts <= j * Parts
           /\ (i + 1) * Parts = i * Parts + Parts
BY HandlerAssumption

-----------------------------------------------------------------------------
(* Reading: the loop of process()                                          *)

\* The buffer begins with message k, or where it will begin.
LEMMA DeserializeAt ==
    ASSUME NEW k \in Nat, NEW end \in Nat
    PROVE  /\ Deserialize(k * Parts, end) = "Message" <=>
                 k \notin Malformed /\ k * Parts + Parts <= end
           /\ Deserialize(k * Parts, end) = "Malicious" <=> k * Parts # end /\ k \in Malformed
BY Units, HandlerAssumption DEF Deserialize, StartsMessage, MessageAt

\* The loop stops at a message: the first one that is malformed or incomplete.
LEMMA LoopStops ==
    ASSUME NEW k \in 1..(MaxIn + 1), NEW end \in Nat, k * Parts <= end, end <= StreamEnd
    PROVE  \E n \in 0..MaxIn :
              /\ StopsAt(k * Parts, end) = (k + n) * Parts /\ k + n <= MaxIn + 1
              /\ (k + n) * Parts <= end
              /\ k + n \in Malformed \/ end < (k + n) * Parts + Parts
              /\ \A j \in k..(k + n - 1) : j \notin Malformed
<1> DEFINE At(n) == k * Parts + n * Parts
           T == {n \in 0..MaxIn : Deserialize(At(n), end) # "Message"}
           Stop(stop) ==
              /\ Deserialize(stop, end) # "Message"
              /\ \E n \in 0..MaxIn : stop = At(n)
              /\ \A n \in 0..MaxIn : At(n) < stop => Deserialize(At(n), end) = "Message"
<1>0. k \in Nat /\ k >= 1 /\ MaxIn \in Nat /\ Parts \in Nat /\ Parts > 1
  BY HandlerAssumption
<1>1. \A n \in 0..MaxIn : At(n) = (k + n) * Parts /\ At(n) \in Nat
  BY <1>0, Units, UnitsGrow
<1>2. \A n \in 0..MaxIn :
         Deserialize(At(n), end) = "Message" <=> k + n \notin Malformed /\ At(n) + Parts <= end
  BY <1>0, <1>1, DeserializeAt
<1>3. MaxIn \in T
  <2>1. (MaxIn + 1) * Parts <= (k + MaxIn) * Parts
    BY <1>0, UnitsGrow
  <2>2. MaxIn \in 0..MaxIn /\ At(MaxIn) >= end /\ At(MaxIn) \in Nat
    BY <1>0, <1>1, <2>1 DEF StreamEnd
  <2>. QED  BY <1>0, <1>2, <2>2
<1>4. PICK n \in T : \A j \in T : n <= j
  <2>1. T \in SUBSET Nat /\ T # {}
    BY <1>0, <1>3
  <2> HIDE DEF T
  <2>. QED  BY <2>1, LeastOf
<1>5. \A j \in 0..MaxIn : j < n => Deserialize(At(j), end) = "Message"
  BY <1>4
<1>6. At(n) <= end
  <2>1. CASE n = 0
    BY <1>0, <2>1
  <2>2. CASE n # 0
    <3>1. n - 1 \in 0..MaxIn /\ n - 1 < n
      BY <1>0, <1>4, <2>2
    <3>2. Deserialize(At(n - 1), end) = "Message"
      BY <1>5, <3>1
    <3>3. At(n - 1) + Parts <= end
      BY <1>2, <3>1, <3>2
    <3>4. At(n) = At(n - 1) + Parts
      BY <1>0, <3>1, UnitsGrow
    <3>. QED  BY <3>3, <3>4
  <2>. QED  BY <2>1, <2>2
<1>7. \A i, j \in 0..MaxIn : At(i) < At(j) => i < j
  <2>. SUFFICES ASSUME NEW i \in 0..MaxIn, NEW j \in 0..MaxIn, ~(i < j)
                PROVE  ~(At(i) < At(j))
    OBVIOUS
  <2>1. j * Parts <= i * Parts /\ j * Parts \in Nat /\ i * Parts \in Nat /\ k * Parts \in Nat
    BY <1>0, UnitsGrow, Units
  <2>. QED  BY <2>1
<1>8. At(n) \in (k * Parts)..end /\ Stop(At(n))
  <2>1. At(n) >= k * Parts /\ k * Parts \in Nat
    BY <1>0, Units
  <2>. QED  BY <1>1, <1>4, <1>5, <1>6, <1>7, <2>1
<1> DEFINE stop == StopsAt(k * Parts, end)
<1>9. stop \in (k * Parts)..end /\ Stop(stop)
  BY <1>8 DEF StopsAt
<1> HIDE DEF stop
<1>10. PICK m \in 0..MaxIn : stop = At(m)
  BY <1>9
<1>11. /\ k + m \in Malformed \/ end < At(m) + Parts
       /\ At(m) <= end
  BY <1>0, <1>1, <1>2, <1>9, <1>10
<1>12. k + m <= MaxIn + 1
  <2>1. (k + m) * Parts <= (MaxIn + 1) * Parts
    BY <1>0, <1>1, <1>11, Units DEF StreamEnd
  <2>. QED  BY <1>0, <2>1, UnitsGrow
<1>13. ASSUME NEW j \in k..(k + m - 1)
       PROVE  j \notin Malformed
  <2>1. j - k \in 0..MaxIn /\ j - k < m
    BY <1>0
  <2>2. At(j - k) < At(m)
    <3>1. (j - k) * Parts + Parts <= m * Parts /\ k * Parts \in Nat
          /\ (j - k) * Parts \in Nat /\ m * Parts \in Nat
      BY <1>0, <2>1, UnitsGrow, Units
    <3>. QED  BY <1>0, <3>1
  <2>3. Deserialize(At(j - k), end) = "Message"
    BY <1>9, <1>10, <2>1, <2>2
  <2>4. k + (j - k) \notin Malformed
    BY <1>2, <2>1, <2>3
  <2>. QED  BY <1>0, <2>4
<1>. QED  BY <1>1, <1>10, <1>11, <1>12, <1>13 DEF stop

-----------------------------------------------------------------------------
(* Reading: what was forwarded                                             *)

\* The messages before k were forwarded, and k is the next.
ReadUpTo(k) ==
    /\ parsed = k * Parts /\ parsed <= arrived /\ arrived <= StreamEnd /\ arrived \in Nat
    /\ forwarded = [i \in 1..(k - 1) |-> i]
    /\ \A m \in 1..(k - 1) : m \notin Malformed
    /\ penalized <=> k \in Malformed /\ parsed # arrived
    /\ k \in Malformed \/ arrived < parsed + Parts

NothingRead == arrived = 0 /\ parsed = 0 /\ forwarded = <<>> /\ ~penalized

ReadingInv ==
    /\ phase \in {"handshaking", "writing", "buffering", "stopped"}
    /\ phase = "handshaking" => NothingRead
    /\ NothingRead \/ \E k \in 1..(MaxIn + 1) : ReadUpTo(k)
    /\ IsWorking => \E k \in 1..(MaxIn + 1) : ReadUpTo(k)

\* Chunks that do not concern the handler's mode: no step but Received reads.
LEMMA NotReading ==
    ASSUME ReadingInv, UNCHANGED inVars,
           \/ phase' = phase
           \/ IsWorking /\ phase' \in {"writing", "buffering"}
           \/ phase' = "stopped"
    PROVE  ReadingInv'
BY DEF ReadingInv, inVars, ReadUpTo, NothingRead, IsWorking

\* Two sequences, one after the other.
LEMMA Joined ==
    ASSUME NEW a \in Seq(Nat), NEW b \in Seq(Nat)
    PROVE  a \o b = [i \in 1..(Len(a) + Len(b)) |-> IF i <= Len(a) THEN a[i] ELSE b[i - Len(a)]]
<1>1. /\ a \o b \in Seq(Nat)
      /\ Len(a \o b) = Len(a) + Len(b)
      /\ \A i \in 1..(Len(a) + Len(b)) :
            (a \o b)[i] = IF i <= Len(a) THEN a[i] ELSE b[i - Len(a)]
  BY ConcatProperties
<1> DEFINE c == a \o b
<1>2. c = [i \in 1..Len(c) |-> c[i]]
  <2> HIDE DEF c
  <2>1. ASSUME NEW d \in Seq(Nat)  PROVE d = [i \in 1..Len(d) |-> d[i]]
    OBVIOUS
  <2>2. c \in Seq(Nat)
    BY <1>1 DEF c
  <2>. QED  BY <2>1, <2>2
<1>. QED  BY <1>1, <1>2

\* The loop takes messages k .. k + n - 1 out of the buffer and forwards them.
LEMMA ReadsOn ==
    ASSUME NEW k \in 1..(MaxIn + 1), ReadUpTo(k), NEW c \in Nat, arrived + c <= StreamEnd,
           ReceivedWorking(c)
    PROVE  \E j \in 1..(MaxIn + 1) : ReadUpTo(j)'
<1> DEFINE end == arrived + c
<1>0. k \in Nat /\ k >= 1 /\ MaxIn \in Nat /\ Parts \in Nat /\ Parts > 1 /\ k * Parts \in Nat
  BY HandlerAssumption, Units
<1>1. end \in Nat /\ k * Parts <= end /\ end <= StreamEnd /\ parsed = k * Parts
  BY <1>0 DEF ReadUpTo
<1>2. PICK n \in 0..MaxIn :
              /\ StopsAt(k * Parts, end) = (k + n) * Parts /\ k + n <= MaxIn + 1
              /\ (k + n) * Parts <= end
              /\ k + n \in Malformed \/ end < (k + n) * Parts + Parts
              /\ \A j \in k..(k + n - 1) : j \notin Malformed
  BY <1>1, LoopStops
<1>3. /\ arrived' = end /\ parsed' = (k + n) * Parts
      /\ forwarded' = forwarded \o MessagesBetween(k * Parts, (k + n) * Parts)
      /\ penalized' = (penalized \/ Deserialize((k + n) * Parts, end) = "Malicious")
  BY <1>1, <1>2 DEF ReceivedWorking
<1>4. forwarded' = [i \in 1..(k + n - 1) |-> i]
  <2>1. (k + n) * Parts - k * Parts = n * Parts /\ (n * Parts) \div Parts = n
    BY <1>0, UnitsGrow, Units
  <2>2. MessagesBetween(k * Parts, (k + n) * Parts) = [i \in 1..n |-> k + i - 1]
    BY <1>0, <2>1, Units DEF MessagesBetween, MessageAt
  <2>3. forwarded = [i \in 1..(k - 1) |-> i] /\ forwarded \in Seq(Nat) /\ Len(forwarded) = k - 1
    BY <1>0 DEF ReadUpTo
  <2> DEFINE s == [i \in 1..n |-> k + i - 1]
  <2>4. s \in Seq(Nat) /\ Len(s) = n /\ \A i \in 1..n : s[i] = k + i - 1
    BY <1>0
  <2>5. forwarded' = forwarded \o s
    BY <1>3, <2>2
  <2> HIDE DEF s
  <2>6. forwarded' = [i \in 1..(k - 1 + n) |-> IF i <= k - 1 THEN forwarded[i] ELSE s[i - (k - 1)]]
    <3>1. forwarded \o s = [i \in 1..(Len(forwarded) + Len(s)) |->
                              IF i <= Len(forwarded) THEN forwarded[i] ELSE s[i - Len(forwarded)]]
      BY <2>3, <2>4, Joined
    <3>. QED  BY <2>3, <2>4, <2>5, <3>1
  <2>7. \A i \in 1..(k - 1 + n) : (IF i <= k - 1 THEN forwarded[i] ELSE s[i - (k - 1)]) = i
    <3>1. ASSUME NEW i \in 1..(k - 1 + n), i <= k - 1  PROVE forwarded[i] = i
      BY <1>0, <2>3, <3>1
    <3>2. ASSUME NEW i \in 1..(k - 1 + n), ~(i <= k - 1)  PROVE s[i - (k - 1)] = i
      <4>1. i - (k - 1) \in 1..n
        BY <1>0, <3>2
      <4>2. s[i - (k - 1)] = k + (i - (k - 1)) - 1
        BY <2>4, <4>1
      <4>. QED  BY <1>0, <4>2
    <3>. QED  BY <3>1, <3>2
  <2>8. k - 1 + n = k + n - 1
    BY <1>0
  <2>. QED  BY <2>6, <2>7, <2>8
<1>5. \A m \in 1..(k + n - 1) : m \notin Malformed
  BY <1>0, <1>2 DEF ReadUpTo
<1>6. penalized' <=> k + n \in Malformed /\ parsed' # arrived'
  <2>1. k + n \in Nat /\ (k + n) * Parts \in Nat
    BY <1>0, Units
  <2>2. Deserialize((k + n) * Parts, end) = "Malicious" <=> (k + n) * Parts # end /\ k + n \in Malformed
    BY <1>1, <2>1, DeserializeAt
  <2>3. CASE n = 0
    <3>1. penalized => k \in Malformed /\ k * Parts # end
      BY <1>0 DEF ReadUpTo
    <3>2. k + n = k
      BY <1>0, <2>3
    <3>3. penalized' <=> penalized \/ Deserialize((k + n) * Parts, end) = "Malicious"
      BY <1>3, Zenon
    <3>. QED  BY <1>3, <2>2, <3>1, <3>2, <3>3, Zenon
  <2>4. CASE n # 0
    <3>1. k \in k..(k + n - 1)
      BY <1>0, <2>4
    <3>2. ~penalized
      BY <1>2, <3>1 DEF ReadUpTo
    <3>3. penalized' <=> penalized \/ Deserialize((k + n) * Parts, end) = "Malicious"
      BY <1>3, Zenon
    <3>. QED  BY <1>3, <2>2, <3>2, <3>3, Zenon
  <2>. QED  BY <2>3, <2>4
<1>7. ReadUpTo(k + n)'
  <2>1. /\ parsed' = (k + n) * Parts /\ parsed' <= arrived' /\ arrived' <= StreamEnd
        /\ arrived' \in Nat
        /\ k + n \in Malformed \/ arrived' < parsed' + Parts
    BY <1>1, <1>2, <1>3
  <2>2. forwarded' = [i \in 1..((k + n) - 1) |-> i] /\ \A m \in 1..((k + n) - 1) : m \notin Malformed
    BY <1>4, <1>5
  <2>. QED  BY <1>6, <2>1, <2>2, Zenon DEF ReadUpTo
<1>8. k + n \in 1..(MaxIn + 1)
  BY <1>0, <1>2
<1>. QED  BY <1>7, <1>8

\* Every step keeps the reading invariant.
LEMMA StepReading ==
    ASSUME HandshakeAlone, ReadingInv, [Next]_vars
    PROVE  ReadingInv'
<1>1. ASSUME NEW c \in 1..StreamEnd, Received(c)
      PROVE  ReadingInv'
  <2>0. MaxIn \in Nat /\ Parts \in Nat /\ Parts > 1 /\ 1 * Parts = Parts /\ c \in Nat
    BY HandlerAssumption, Units DEF StreamEnd
  <2>1. CASE phase = "handshaking" /\ ReceivedHandshaking(c)
    <3>1. /\ c = Parts /\ arrived' = Parts /\ parsed' = Parts /\ phase' = "writing"
          /\ forwarded' = <<>> /\ ~penalized' /\ arrived' <= StreamEnd
      BY <1>1, <2>0, <2>1 DEF ReceivedHandshaking, ReadingInv, NothingRead, Received
    <3>2. ReadUpTo(1)'
      BY <2>0, <3>1, HandlerAssumption DEF ReadUpTo, StreamEnd
    <3>3. 1 \in 1..(MaxIn + 1)
      BY <2>0
    <3>. QED  BY <3>1, <3>2, <3>3 DEF ReadingInv, IsWorking
  <2>2. CASE IsWorking /\ ReceivedWorking(c) /\ UNCHANGED phase
    <3>1. \E j \in 1..(MaxIn + 1) : ReadUpTo(j)'
      BY <1>1, <2>0, <2>2, ReadsOn DEF ReadingInv, Received
    <3>. QED  BY <2>2, <3>1 DEF ReadingInv, IsWorking
  <2>. QED  BY <1>1, <2>1, <2>2 DEF Received
<1>2. CASE TcpCommand \/ TcpFlush \/ TcpClosed \/ LocalMessage \/ RequestClose \/ CloseConnection
  BY <1>2, NotReading DEF TcpCommand, TcpFlush, TcpClosed, LocalMessage, RequestClose, CloseConnection
<1>3. CASE Handle
  <2>1. UNCHANGED inVars
    BY <1>3 DEF Handle, HandleFailedWrite, HandleOtherFailure, HandleAck, HandleWritingResumed,
                HandleConnectionClosed, Handles
  <2>2. \/ phase' = phase
        \/ IsWorking /\ phase' \in {"writing", "buffering"}
        \/ phase' = "stopped"
    BY <1>3 DEF Handle, HandleFailedWrite, HandleOtherFailure, HandleAck, HandleWritingResumed,
                HandleConnectionClosed, IsWorking
  <2>. QED  BY <2>1, <2>2, NotReading
<1>4. CASE UNCHANGED vars
  BY <1>4, NotReading DEF vars
<1>. QED  BY <1>1, <1>2, <1>3, <1>4 DEF Next

\* Where the handshake comes in a chunk of its own: however TCP cuts the rest of the
\* stream into chunks, remoteInterface forwards the peer's messages in order, without a
\* gap or a repetition, up to the first malformed one, and penalizes for that one only.
THEOREM MessagesAlwaysForwarded ==
    ASSUME HandshakeAlone
    PROVE  Spec => []MessagesAreForwarded
<1>1. Init => ReadingInv
  BY DEF Init, ReadingInv, NothingRead, IsWorking
<1>2. ReadingInv /\ [Next]_vars => ReadingInv'
  BY StepReading
<1>3. ASSUME ReadingInv
      PROVE  MessagesAreForwarded
  <2>0. MaxIn \in Nat /\ Parts \in Nat /\ Parts > 1 /\ \A m \in Malformed : m \in 1..MaxIn /\ m \in Nat
    BY HandlerAssumption
  <2>1. ASSUME NEW k \in 1..(MaxIn + 1), ReadUpTo(k)
        PROVE  MessagesAreForwarded
    <3>0. k \in Nat /\ k >= 1 /\ Len(forwarded) = k - 1 /\ arrived \in Nat /\ parsed = k * Parts
      BY <2>0, <2>1 DEF ReadUpTo
    <3>1. \A i \in DOMAIN forwarded : forwarded[i] = i
      BY <2>1 DEF ReadUpTo
    <3>2. \A m \in Malformed : m >= k
      BY <2>0, <2>1, <3>0 DEF ReadUpTo
    <3>3. \A m \in Nat : m >= k => m * Parts >= k * Parts /\ m * Parts \in Nat
      BY <3>0, UnitsGrow, Units
    <3>4. \A m \in Nat : m > k => m * Parts >= k * Parts + Parts
      BY <3>0, UnitsGrow
    <3>5. penalized => \E m \in Malformed : arrived > m * Parts
      BY <2>1, <3>0, Units DEF ReadUpTo
    <3>6. ASSUME NEW m \in Malformed, arrived > m * Parts
          PROVE  penalized
      <4>1. m \in Nat /\ m >= k /\ m * Parts \in Nat /\ k * Parts \in Nat
        BY <2>0, <3>0, <3>2, Units
      <4>2. CASE k \in Malformed
        <5>1. m * Parts >= k * Parts
          BY <3>3, <4>1
        <5>. QED  BY <2>1, <3>0, <3>6, <4>1, <4>2, <5>1 DEF ReadUpTo
      <4>3. CASE k \notin Malformed
        <5>1. m > k
          BY <3>0, <4>1, <4>3
        <5>2. m * Parts >= k * Parts + Parts
          BY <3>4, <4>1, <5>1
        <5>. QED  BY <2>0, <2>1, <3>0, <3>6, <4>1, <4>3, <5>2 DEF ReadUpTo
      <4>. QED  BY <4>2, <4>3
    <3>7. ASSUME NEW m \in 1..MaxIn, arrived >= (m + 1) * Parts, \A j \in 1..m : j \notin Malformed
          PROVE  m <= Len(forwarded)
      <4>. SUFFICES ASSUME m >= k
                    PROVE  FALSE
        BY <2>0, <3>0
      <4>1. k \notin Malformed /\ m + 1 \in Nat /\ m + 1 > k
        BY <2>0, <3>0, <3>7
      <4>2. (m + 1) * Parts >= k * Parts + Parts
        BY <3>4, <4>1
      <4>3. k * Parts \in Nat /\ (m + 1) * Parts \in Nat
        BY <3>0, <4>1, Units
      <4>. QED  BY <2>0, <2>1, <3>0, <3>7, <4>1, <4>2, <4>3 DEF ReadUpTo
    <3>8. \A m \in Malformed : Len(forwarded) < m
      BY <2>0, <3>0, <3>2
    <3>. QED  BY <3>1, <3>5, <3>6, <3>7, <3>8 DEF MessagesAreForwarded
  <2>2. CASE NothingRead /\ ~IsWorking
    BY <2>0, <2>2 DEF NothingRead, MessagesAreForwarded
  <2>. QED  BY <1>3, <2>1, <2>2 DEF ReadingInv
<1>. QED  BY <1>1, <1>2, <1>3, PTL DEF Spec

-----------------------------------------------------------------------------
(* The stream: where its messages are                                      *)

\* Where in its mailbox the connection finds the write of message k or ResumeWriting,
\* and where the handler finds the failure or the acknowledgement of message k.
WriteAt(i, k) == i \in DOMAIN toTcp /\ toTcp[i].kind = "Write" /\ toTcp[i].id = k
ResumeAt(i) == i \in DOMAIN toTcp /\ toTcp[i].kind = "ResumeWriting"
FailedAt(i, k) ==
    /\ i \in DOMAIN fromTcp /\ fromTcp[i].kind = "CommandFailed"
    /\ fromTcp[i].command.kind = "Write" /\ fromTcp[i].command.id = k
AckAt(i, k) == i \in DOMAIN fromTcp /\ fromTcp[i].kind = "Ack" /\ fromTcp[i].id = k

IsSent(k) == \E i \in Nat : WriteAt(i, k)
HasFailed(k) == \E i \in Nat : FailedAt(i, k)
IsPending(k) == \E w \in pending : w.id = k

\* Everything before message x was written: it may be written next, or again.
Ready(x) == \A j \in Nat : j < x => j \in written

\* No ResumeWriting from i to j.
NoResume(i, j) == \A l \in Nat : i <= l /\ l <= j => ~ResumeAt(l)

\* The handshake is the first write, and it is taken at once.
Handshake ==
    /\ 0 \notin outMessagesBuffer /\ ~HasFailed(0)
    /\ \A i \in Nat : WriteAt(i, 0) => i = 1 /\ pending = {} /\ ~suspended

\* What was written has no gap, and what is pending may be written.
InOrder ==
    /\ \A k \in written : Ready(k)
    /\ \A k \in Nat : IsPending(k) => Ready(k)

\* What is acknowledged was written, and it is acknowledged once.
Acks ==
    /\ \A i, k \in Nat : AckAt(i, k) => k \in written
    /\ \A i, j, k \in Nat : AckAt(i, k) /\ AckAt(j, k) => i = j

\* A write on its way comes when the message before it has been written, or it will fail:
\* that message is pending; or its write is ahead, with no ResumeWriting in between; or
\* that one has failed, and writing is suspended until after this one.
SentInOrder ==
    \A i, m \in Nat : WriteAt(i, m) =>
       \/ Ready(m)
       \/ IsPending(m - 1)
       \/ \E j \in Nat : j < i /\ WriteAt(j, m - 1) /\ NoResume(j, i)
       \/ /\ suspended /\ NoResume(1, i)
          /\ m - 1 \in outMessagesBuffer \/ HasFailed(m - 1)

\* The same for the message that is accepted next, while the handler does not buffer.
LastSent ==
    LET n == outMessagesCounter IN
    phase # "buffering" =>
       \/ n \in written
       \/ IsPending(n)
       \/ \E j \in Nat : WriteAt(j, n) /\ \A l \in Nat : l >= j => ~ResumeAt(l)
       \/ suspended /\ (\A l \in Nat : ~ResumeAt(l)) /\ HasFailed(n)

\* The first buffered message may be written when the connection gets to it.
BufferReady ==
    outMessagesBuffer # {} => \E x \in outMessagesBuffer : Ready(x) \/ IsPending(x - 1)

\* Failures are reported in order: when the handler learns of one, the message before it
\* was written, is pending, is buffered or was reported earlier.
FailedInOrder ==
    \A i, x \in Nat : FailedAt(i, x) =>
        \/ Ready(x) \/ x - 1 \in outMessagesBuffer \/ IsPending(x - 1)
        \/ \E j \in Nat : j < i /\ FailedAt(j, x - 1)

\* No accepted message is lost.
Somewhere ==
    \A k \in 0..outMessagesCounter :
        k \in written \/ k \in outMessagesBuffer \/ HasFailed(k) \/ IsPending(k) \/ IsSent(k)

\* A message that is neither buffered nor written is in one place only, and one that is
\* acknowledged and not buffered is nowhere else.
Once ==
    \A k \in Nat : k \notin outMessagesBuffer =>
      /\ k \notin written =>
           /\ \A i, j \in Nat : WriteAt(i, k) /\ WriteAt(j, k) => i = j
           /\ \A i, j \in Nat : FailedAt(i, k) /\ FailedAt(j, k) => i = j
           /\ IsSent(k) => ~IsPending(k) /\ ~HasFailed(k)
           /\ IsPending(k) => ~HasFailed(k)
      /\ \A i \in Nat : AckAt(i, k) => ~HasFailed(k) /\ ~IsSent(k) /\ ~IsPending(k)

\* The write of a buffered message, and later its acknowledgement, is behind all that was
\* on its way when it was sent, so when the acknowledgement is handled every message
\* that is not written is in the buffer.
CoveredSent ==
    \A y \in outMessagesBuffer : \A i \in Nat : y \notin written /\ WriteAt(i, y) =>
        \A k \in 0..outMessagesCounter :
           \/ k \in written \/ k \in outMessagesBuffer \/ HasFailed(k) \/ IsPending(k)
           \/ \E j \in Nat : j < i /\ WriteAt(j, k)

CoveredPending ==
    \A y \in outMessagesBuffer : y \notin written /\ IsPending(y) =>
        \A k \in 0..outMessagesCounter : k \in written \/ k \in outMessagesBuffer \/ HasFailed(k)

CoveredAcked ==
    \A y \in outMessagesBuffer : \A i \in Nat : AckAt(i, y) =>
        \A k \in 0..outMessagesCounter :
           \/ k \in written \/ k \in outMessagesBuffer
           \/ \E j \in Nat : j < i /\ FailedAt(j, k)

OrderInv ==
    /\ Handshake /\ InOrder /\ Acks /\ SentInOrder /\ LastSent /\ BufferReady /\ FailedInOrder
    /\ Somewhere /\ Once /\ CoveredSent /\ CoveredPending /\ CoveredAcked

\* Only messages that were accepted are anywhere.
Numbers ==
    /\ outMessagesCounter \in Nat
    /\ outMessagesBuffer \subseteq 0..outMessagesCounter /\ written \subseteq 0..outMessagesCounter
    /\ \A i \in Nat : \A k : WriteAt(i, k) \/ FailedAt(i, k) \/ AckAt(i, k) => i > 0 /\ k \in 0..outMessagesCounter
    /\ \A k : IsPending(k) => k \in 0..outMessagesCounter

-----------------------------------------------------------------------------
(* The stream: what a step does to the mailboxes                           *)

\* What a step does to the mailboxes, by position: the connection takes a command.
CommandTaken ==
    /\ \A i \in Nat : \A k : WriteAt(i, k)' => i > 0 /\ WriteAt(i + 1, k)
    /\ \A i \in Nat : \A k : WriteAt(i, k) => i = 1 \/ WriteAt(i - 1, k)'
    /\ \A i \in Nat : ResumeAt(i)' => i > 0 /\ ResumeAt(i + 1)
    /\ \A i \in Nat : ResumeAt(i) => i = 1 \/ ResumeAt(i - 1)'

\* No command is taken or sent.
CommandsSame ==
    \A i \in Nat : (\A k : WriteAt(i, k)' <=> WriteAt(i, k)) /\ (ResumeAt(i)' <=> ResumeAt(i))

\* The handler sends the write of message m, which is at q then.
WriteAdded(m, q) ==
    /\ q \in Nat /\ q > 0 /\ \A i \in Nat : (\A k : WriteAt(i, k) => i < q) /\ (ResumeAt(i) => i < q)
    /\ \A i \in Nat : /\ \A k : WriteAt(i, k)' <=> WriteAt(i, k) \/ (i = q /\ k = m)
                      /\ ResumeAt(i)' <=> ResumeAt(i)

\* The handler sends ResumeWriting.
ResumeAdded(q) ==
    /\ q \in Nat /\ q > 0 /\ \A i \in Nat : (\A k : WriteAt(i, k) => i < q) /\ (ResumeAt(i) => i < q)
    /\ \A i \in Nat : /\ \A k : WriteAt(i, k)' <=> WriteAt(i, k)
                      /\ ResumeAt(i)' <=> ResumeAt(i) \/ i = q

\* No failed write and no acknowledgement is taken or reported.
EventsSame ==
    \A i \in Nat : \A k : (FailedAt(i, k)' <=> FailedAt(i, k)) /\ (AckAt(i, k)' <=> AckAt(i, k))

\* The connection reports that the write of message m has failed.
FailureAdded(m, p) ==
    /\ p \in Nat /\ p > 0 /\ \A i \in Nat : \A k : FailedAt(i, k) \/ AckAt(i, k) => i < p
    /\ \A i \in Nat : \A k : /\ FailedAt(i, k)' <=> FailedAt(i, k) \/ (i = p /\ k = m)
                             /\ AckAt(i, k)' <=> AckAt(i, k)

\* The connection acknowledges one message at most.
AcksAdded(acks, p) ==
    /\ p \in Nat /\ p > 0 /\ \A i \in Nat : \A k : FailedAt(i, k) \/ AckAt(i, k) => i < p
    /\ \A i \in Nat : \A k : /\ FailedAt(i, k)' <=> FailedAt(i, k)
                             /\ AckAt(i, k)' <=> AckAt(i, k) \/ (i = p /\ k \in acks)

\* The handler takes an event.
EventTaken ==
    /\ \A i \in Nat : \A k : FailedAt(i, k)' => i > 0 /\ FailedAt(i + 1, k)
    /\ \A i \in Nat : \A k : FailedAt(i, k) => i = 1 \/ FailedAt(i - 1, k)'
    /\ \A i \in Nat : \A k : AckAt(i, k)' => i > 0 /\ AckAt(i + 1, k)
    /\ \A i \in Nat : \A k : AckAt(i, k) => i = 1 \/ AckAt(i - 1, k)'

\* A place holds one thing.
LEMMA Places ==
    /\ \A i \in Nat : \A k, l : WriteAt(i, k) /\ WriteAt(i, l) => k = l
    /\ \A i \in Nat : \A k : WriteAt(i, k) => ~ResumeAt(i)
    /\ \A i \in Nat : \A k, l : FailedAt(i, k) /\ FailedAt(i, l) => k = l
    /\ \A i \in Nat : \A k, l : AckAt(i, k) /\ AckAt(i, l) => k = l
    /\ \A i \in Nat : \A k, l : FailedAt(i, k) => ~AckAt(i, l)
BY DEF WriteAt, ResumeAt, FailedAt, AckAt

-----------------------------------------------------------------------------
(* The stream: the order is kept by the connection                         *)

\* A write fails.
LEMMA RefusedKeepsOrder ==
    ASSUME OrderInv, Numbers, NEW m, NEW p, WriteAt(1, m), CommandTaken, FailureAdded(m, p),
           suspended \/ pending # {}, suspended',
           UNCHANGED <<phase, outVars, pending, written>>
    PROVE  OrderInv'
<1> USE DEF Numbers, outVars
<1>0. /\ m \in Nat /\ m <= outMessagesCounter
      /\ ~ResumeAt(1) /\ \A k : WriteAt(1, k) => k = m
  BY Places
<1>1. \A x \in Int : Ready(x)' <=> Ready(x)
  BY DEF Ready
<1>2. \A k : IsPending(k)' <=> IsPending(k)
  BY DEF IsPending
<1>3. \A k \in Int : HasFailed(k)' <=> HasFailed(k) \/ k = m
  BY DEF HasFailed, FailureAdded
<1>4. Handshake'
  BY <1>0, <1>2, <1>3 DEF OrderInv, Handshake, CommandTaken
<1>5. InOrder' /\ Acks'
  BY <1>1, <1>2 DEF OrderInv, InOrder, Acks, FailureAdded
<1>6. SentInOrder'
  BY <1>0, <1>1, <1>2, <1>3 DEF OrderInv, SentInOrder, CommandTaken, NoResume
<1>7. LastSent'
  BY <1>0, <1>1, <1>2, <1>3 DEF OrderInv, LastSent, CommandTaken
<1>8. BufferReady'
  BY <1>1, <1>2 DEF OrderInv, BufferReady
<1>9. FailedInOrder'
  BY <1>0, <1>1, <1>2, <1>3 DEF OrderInv, FailedInOrder, SentInOrder, FailureAdded, HasFailed
<1>10. Somewhere'
  BY <1>0, <1>2, <1>3 DEF OrderInv, Somewhere, CommandTaken, IsSent
<1>11. Once'
  BY <1>0, <1>2, <1>3 DEF OrderInv, Once, CommandTaken, IsSent, HasFailed, FailureAdded
<1>12. CoveredSent'
  BY <1>0, <1>2, <1>3 DEF OrderInv, CoveredSent, CommandTaken
<1>13. CoveredPending'
  BY <1>0, <1>2, <1>3 DEF OrderInv, CoveredPending
<1>14. CoveredAcked'
  BY <1>0, <1>2, <1>3 DEF OrderInv, CoveredAcked, FailureAdded
<1>. QED  BY <1>4, <1>5, <1>6, <1>7, <1>8, <1>9, <1>10, <1>11, <1>12, <1>13, <1>14 DEF OrderInv

\* A write is taken and becomes pending.
LEMMA HeldKeepsOrder ==
    ASSUME OrderInv, Numbers, NEW m, WriteAt(1, m), CommandTaken, EventsSame,
           ~suspended, pending = {}, NEW w, w.id = m, pending' = {w},
           UNCHANGED <<phase, outVars, suspended, written>>
    PROVE  OrderInv'
<1> USE DEF Numbers, outVars
<1>0. /\ m \in Nat /\ m <= outMessagesCounter
      /\ ~ResumeAt(1) /\ \A k : WriteAt(1, k) => k = m
  BY Places
<1>1. \A x \in Int : Ready(x)' <=> Ready(x)
  BY DEF Ready
<1>2. \A k : ~IsPending(k) /\ (IsPending(k)' <=> k = m)
  BY DEF IsPending
<1>3. \A k \in Int : HasFailed(k)' <=> HasFailed(k)
  BY DEF HasFailed, EventsSame
<1>4. Ready(m)
  BY <1>0, <1>2 DEF OrderInv, SentInOrder
<1>5. Handshake'
  BY <1>0, <1>2, <1>3 DEF OrderInv, Handshake, CommandTaken
<1>6. InOrder' /\ Acks'
  BY <1>1, <1>2, <1>4, <1>0 DEF OrderInv, InOrder, Acks, EventsSame
<1>7. SentInOrder'
  BY <1>0, <1>1, <1>2, <1>3 DEF OrderInv, SentInOrder, CommandTaken, NoResume
<1>8. LastSent'
  BY <1>0, <1>1, <1>2, <1>3 DEF OrderInv, LastSent, CommandTaken
<1>9. BufferReady'
  BY <1>1, <1>2 DEF OrderInv, BufferReady
<1>10. FailedInOrder'
  BY <1>0, <1>1, <1>2, <1>3 DEF OrderInv, FailedInOrder, EventsSame
<1>11. Somewhere'
  BY <1>0, <1>2, <1>3 DEF OrderInv, Somewhere, CommandTaken, IsSent
<1>12. Once'
  BY <1>0, <1>2, <1>3 DEF OrderInv, Once, CommandTaken, IsSent, HasFailed, EventsSame
<1>13. CoveredSent'
  BY <1>0, <1>2, <1>3 DEF OrderInv, CoveredSent, CommandTaken
<1>14. CoveredPending'
  BY <1>0, <1>2, <1>3 DEF OrderInv, CoveredPending, CoveredSent
<1>15. CoveredAcked'
  BY <1>0, <1>2, <1>3 DEF OrderInv, CoveredAcked, EventsSame
<1>. QED  BY <1>5, <1>6, <1>7, <1>8, <1>9, <1>10, <1>11, <1>12, <1>13, <1>14, <1>15 DEF OrderInv

\* A write is taken and goes into the socket at once.
LEMMA WrittenKeepsOrder ==
    ASSUME OrderInv, Numbers, NEW m, WriteAt(1, m), CommandTaken,
           NEW acks \in SUBSET {m}, NEW p, AcksAdded(acks, p),
           ~suspended, pending = {}, m \notin written, written' = written \cup {m},
           UNCHANGED <<phase, outVars, pending, suspended>>
    PROVE  OrderInv'
<1> USE DEF Numbers, outVars
<1>0. /\ m \in Nat /\ m <= outMessagesCounter
      /\ ~ResumeAt(1) /\ \A k : WriteAt(1, k) => k = m
  BY Places
<1>1. \A x \in Int : Ready(x) => Ready(x)'
  BY DEF Ready
<1>2. \A k : ~IsPending(k) /\ ~IsPending(k)'
  BY DEF IsPending
<1>3. \A k \in Int : HasFailed(k)' <=> HasFailed(k)
  BY DEF HasFailed, AcksAdded
<1>4. Ready(m)
  BY <1>0, <1>2 DEF OrderInv, SentInOrder
<1>5. Ready(m + 1)'
  BY <1>0, <1>4 DEF Ready
<1>6. Handshake'
  BY <1>0, <1>2, <1>3 DEF OrderInv, Handshake, CommandTaken
<1>7. InOrder' /\ Acks'
  BY <1>0, <1>1, <1>2, <1>4 DEF OrderInv, InOrder, Acks, AcksAdded
<1>8. SentInOrder'
  BY <1>0, <1>1, <1>2, <1>3, <1>5 DEF OrderInv, SentInOrder, CommandTaken, NoResume
<1>9. LastSent'
  BY <1>0, <1>2, <1>3 DEF OrderInv, LastSent, CommandTaken
<1>10. BufferReady'
  BY <1>1, <1>2 DEF OrderInv, BufferReady
<1>11. FailedInOrder'
  BY <1>0, <1>1, <1>2, <1>3 DEF OrderInv, FailedInOrder, AcksAdded
<1>12. Somewhere'
  BY <1>0, <1>2, <1>3 DEF OrderInv, Somewhere, CommandTaken, IsSent
<1>13. Once'
  BY <1>0, <1>2, <1>3 DEF OrderInv, Once, CommandTaken, IsSent, HasFailed, AcksAdded
<1>14. CoveredSent'
  BY <1>0, <1>2, <1>3 DEF OrderInv, CoveredSent, CommandTaken
<1>15. CoveredPending'
  BY <1>2 DEF OrderInv, CoveredPending
<1>16. CoveredAcked'
  BY <1>0, <1>2, <1>3 DEF OrderInv, CoveredAcked, CoveredSent, AcksAdded, HasFailed
<1>. QED  BY <1>6, <1>7, <1>8, <1>9, <1>10, <1>11, <1>12, <1>13, <1>14, <1>15, <1>16 DEF OrderInv

\* Writing is resumed.
LEMMA ResumedKeepsOrder ==
    ASSUME OrderInv, Numbers, ResumeAt(1), CommandTaken, EventsSame,
           ~suspended', UNCHANGED <<phase, outVars, pending, written>>
    PROVE  OrderInv'
<1> USE DEF Numbers, outVars
<1>0. \A k : ~WriteAt(1, k)
  BY Places
<1>1. \A x \in Int : Ready(x)' <=> Ready(x)
  BY DEF Ready
<1>2. \A k : IsPending(k)' <=> IsPending(k)
  BY DEF IsPending
<1>3. \A k \in Int : HasFailed(k)' <=> HasFailed(k)
  BY DEF HasFailed, EventsSame
<1>4. Handshake'
  BY <1>0, <1>2, <1>3 DEF OrderInv, Handshake, CommandTaken
<1>5. InOrder' /\ Acks'
  BY <1>1, <1>2 DEF OrderInv, InOrder, Acks, EventsSame
<1>6. SentInOrder'
  BY <1>0, <1>1, <1>2, <1>3 DEF OrderInv, SentInOrder, CommandTaken, NoResume
<1>7. LastSent'
  BY <1>0, <1>1, <1>2, <1>3 DEF OrderInv, LastSent, CommandTaken
<1>8. BufferReady'
  BY <1>1, <1>2 DEF OrderInv, BufferReady
<1>9. FailedInOrder'
  BY <1>1, <1>2, <1>3 DEF OrderInv, FailedInOrder, EventsSame
<1>10. Somewhere'
  BY <1>0, <1>2, <1>3 DEF OrderInv, Somewhere, CommandTaken, IsSent
<1>11. Once'
  BY <1>0, <1>2, <1>3 DEF OrderInv, Once, CommandTaken, IsSent, EventsSame
<1>12. CoveredSent'
  BY <1>0, <1>2, <1>3 DEF OrderInv, CoveredSent, CommandTaken
<1>13. CoveredPending'
  BY <1>2, <1>3 DEF OrderInv, CoveredPending
<1>14. CoveredAcked'
  BY <1>2, <1>3 DEF OrderInv, CoveredAcked, EventsSame
<1>. QED  BY <1>4, <1>5, <1>6, <1>7, <1>8, <1>9, <1>10, <1>11, <1>12, <1>13, <1>14 DEF OrderInv

\* The pending write goes into the socket.
LEMMA FlushedKeepsOrder ==
    ASSUME OrderInv, Numbers, NEW v \in pending, \A w \in pending : w = v, CommandsSame,
           NEW acks \in SUBSET {v.id}, NEW p, AcksAdded(acks, p),
           v.id \notin written, written' = written \cup {v.id}, pending' = {},
           UNCHANGED <<phase, outVars, suspended>>
    PROVE  OrderInv'
<1> USE DEF Numbers, outVars
<1> DEFINE m == v.id
<1>2. \A k : (IsPending(k) <=> k = m) /\ ~IsPending(k)'
  BY DEF IsPending
<1>0. m \in Nat /\ m <= outMessagesCounter
  BY <1>2
<1> HIDE DEF m
<1>1. \A x \in Int : Ready(x) => Ready(x)'
  BY DEF Ready
<1>3. \A k \in Int : HasFailed(k)' <=> HasFailed(k)
  BY DEF HasFailed, AcksAdded
<1>4. Ready(m)
  BY <1>0, <1>2 DEF OrderInv, InOrder
<1>5. Ready(m + 1)'
  BY <1>0, <1>4 DEF Ready, m
<1>6. Handshake'
  BY <1>2, <1>3 DEF OrderInv, Handshake, CommandsSame
<1>7. InOrder' /\ Acks'
  BY <1>0, <1>1, <1>2, <1>4 DEF OrderInv, InOrder, Acks, AcksAdded, m
<1>8. SentInOrder'
  BY <1>0, <1>1, <1>2, <1>3, <1>5 DEF OrderInv, SentInOrder, CommandsSame, NoResume
<1>9. LastSent'
  BY <1>0, <1>2, <1>3 DEF OrderInv, LastSent, CommandsSame, m
<1>10. BufferReady'
  BY <1>0, <1>1, <1>2, <1>5 DEF OrderInv, BufferReady
<1>11. FailedInOrder'
  BY <1>0, <1>1, <1>2, <1>3, <1>5 DEF OrderInv, FailedInOrder, AcksAdded
<1>12. Somewhere'
  BY <1>0, <1>2, <1>3 DEF OrderInv, Somewhere, CommandsSame, IsSent, m
<1>13. Once'
  BY <1>0, <1>2, <1>3 DEF OrderInv, Once, CommandsSame, IsSent, HasFailed, AcksAdded, m
<1>14. CoveredSent'
  BY <1>0, <1>2, <1>3 DEF OrderInv, CoveredSent, CommandsSame, m
<1>15. CoveredPending'
  BY <1>2 DEF OrderInv, CoveredPending
<1>16. CoveredAcked'
  BY <1>0, <1>2, <1>3 DEF OrderInv, CoveredAcked, CoveredPending, AcksAdded, HasFailed, m
<1>. QED  BY <1>6, <1>7, <1>8, <1>9, <1>10, <1>11, <1>12, <1>13, <1>14, <1>15, <1>16 DEF OrderInv

-----------------------------------------------------------------------------
(* The stream: the order is kept by the handler                            *)

\* The handler writes a message that it has just accepted.
LEMMA AcceptedKeepsOrder ==
    ASSUME OrderInv, Numbers, phase # "buffering", outMessagesBuffer = {},
           outMessagesCounter' = outMessagesCounter + 1,
           NEW q, WriteAdded(outMessagesCounter + 1, q), EventsSame,
           UNCHANGED <<phase, outMessagesBuffer, pending, suspended, written>>
    PROVE  OrderInv'
<1> USE DEF Numbers
<1>. PICK n : n = outMessagesCounter
  OBVIOUS
<1>0. n \in Nat /\ \A i \in Nat : \A k : WriteAt(i, k) => i > 0 /\ k <= n
  OBVIOUS
<1>1. \A x \in Int : Ready(x)' <=> Ready(x)
  BY DEF Ready
<1>2. \A k : IsPending(k)' <=> IsPending(k)
  BY DEF IsPending
<1>3. \A k \in Int : HasFailed(k)' <=> HasFailed(k)
  BY DEF HasFailed, EventsSame
<1>4. n \in written => Ready(n + 1)
  BY DEF OrderInv, InOrder, Ready
<1>5. Handshake'
  BY <1>2, <1>3 DEF OrderInv, Handshake, WriteAdded
<1>6. InOrder' /\ Acks'
  BY <1>1, <1>2 DEF OrderInv, InOrder, Acks, EventsSame
<1>7. SentInOrder'
  <2>1. ASSUME NEW i \in Nat, NEW m \in Nat, WriteAt(i, m)
        PROVE  \/ Ready(m)' \/ IsPending(m - 1)'
               \/ \E j \in Nat : j < i /\ WriteAt(j, m - 1)' /\ NoResume(j, i)'
               \/ suspended' /\ NoResume(1, i)' /\ (m - 1 \in outMessagesBuffer' \/ HasFailed(m - 1)')
    BY <1>1, <1>2, <1>3, <2>1 DEF OrderInv, SentInOrder, WriteAdded, NoResume
  <2>2. \/ Ready(n + 1)' \/ IsPending(n)'
        \/ \E j \in Nat : j < q /\ WriteAt(j, n)' /\ NoResume(j, q)'
        \/ suspended' /\ NoResume(1, q)' /\ HasFailed(n)'
    <3>1. CASE n \in written \/ IsPending(n)
      BY <1>0, <1>1, <1>2, <1>4, <3>1
    <3>2. CASE \E j \in Nat : WriteAt(j, n) /\ \A l \in Nat : l >= j => ~ResumeAt(l)
      BY <3>2 DEF WriteAdded, NoResume
    <3>3. CASE suspended /\ (\A l \in Nat : ~ResumeAt(l)) /\ HasFailed(n)
      BY <1>0, <1>3, <3>3 DEF WriteAdded, NoResume
    <3>. QED  BY <3>1, <3>2, <3>3 DEF OrderInv, LastSent
  <2>3. \A i \in Nat, m \in Nat : WriteAt(i, m)' => WriteAt(i, m) \/ (i = q /\ m - 1 = n /\ m = n + 1)
    BY <1>0 DEF WriteAdded
  <2>. QED  BY <2>1, <2>2, <2>3 DEF SentInOrder
<1>8. LastSent'
  BY <1>0 DEF LastSent, WriteAdded
<1>9. BufferReady'
  BY DEF BufferReady
<1>10. FailedInOrder'
  BY <1>1, <1>2, <1>3 DEF OrderInv, FailedInOrder, EventsSame
<1>11. Somewhere'
  BY <1>0, <1>2, <1>3 DEF OrderInv, Somewhere, WriteAdded, IsSent
<1>12. Once'
  BY <1>0, <1>2, <1>3 DEF OrderInv, Once, WriteAdded, IsSent, HasFailed, EventsSame
<1>13. CoveredSent' /\ CoveredPending' /\ CoveredAcked'
  BY DEF CoveredSent, CoveredPending, CoveredAcked
<1>. QED  BY <1>5, <1>6, <1>7, <1>8, <1>9, <1>10, <1>11, <1>12, <1>13 DEF OrderInv

\* The handler buffers a message that it has just accepted.
LEMMA BufferedKeepsOrder ==
    ASSUME OrderInv, Numbers, phase = "buffering", outMessagesBuffer # {},
           outMessagesCounter' = outMessagesCounter + 1,
           outMessagesBuffer' = outMessagesBuffer \cup {outMessagesCounter + 1},
           CommandsSame, EventsSame, UNCHANGED <<phase, pending, suspended, written>>
    PROVE  OrderInv'
<1> USE DEF Numbers
<1>1. \A x \in Int : Ready(x)' <=> Ready(x)
  BY DEF Ready
<1>2. \A k : IsPending(k)' <=> IsPending(k)
  BY DEF IsPending
<1>3. \A k \in Int : HasFailed(k)' <=> HasFailed(k)
  BY DEF HasFailed, EventsSame
<1>4. Handshake'
  BY <1>2, <1>3 DEF OrderInv, Handshake, CommandsSame
<1>5. InOrder' /\ Acks'
  BY <1>1, <1>2 DEF OrderInv, InOrder, Acks, EventsSame
<1>6. SentInOrder'
  BY <1>1, <1>2, <1>3 DEF OrderInv, SentInOrder, CommandsSame, NoResume
<1>7. LastSent'
  BY DEF LastSent
<1>8. BufferReady'
  BY <1>1, <1>2 DEF OrderInv, BufferReady
<1>9. FailedInOrder'
  BY <1>1, <1>2, <1>3 DEF OrderInv, FailedInOrder, EventsSame
<1>10. Somewhere'
  BY <1>2, <1>3 DEF OrderInv, Somewhere, CommandsSame, IsSent
<1>11. Once'
  BY <1>2, <1>3 DEF OrderInv, Once, CommandsSame, IsSent, EventsSame
<1>12. CoveredSent'
  BY <1>2, <1>3 DEF OrderInv, CoveredSent, CommandsSame
<1>13. CoveredPending'
  BY <1>2, <1>3 DEF OrderInv, CoveredPending
<1>14. CoveredAcked'
  BY <1>2, <1>3 DEF OrderInv, CoveredAcked, EventsSame
<1>. QED  BY <1>4, <1>5, <1>6, <1>7, <1>8, <1>9, <1>10, <1>11, <1>12, <1>13, <1>14 DEF OrderInv

\* The handler buffers a message whose write has failed.
LEMMA FailureKeepsOrder ==
    ASSUME OrderInv, Numbers, NEW x, FailedAt(1, x), EventTaken,
           outMessagesBuffer' = outMessagesBuffer \cup {x}, phase' = "buffering",
           NEW q, ResumeAdded(q), UNCHANGED <<outMessagesCounter, pending, suspended, written>>
    PROVE  OrderInv'
<1> USE DEF Numbers
<1>0. /\ x \in Nat /\ x <= outMessagesCounter
      /\ \A k : FailedAt(1, k) => k = x
      /\ \A k : ~AckAt(1, k)
  BY Places
<1>1. \A y \in Int : Ready(y)' <=> Ready(y)
  BY DEF Ready
<1>2. \A k : IsPending(k)' <=> IsPending(k)
  BY DEF IsPending
<1>3. \A k \in Int : (HasFailed(k)' => HasFailed(k)) /\ (HasFailed(k) => HasFailed(k)' \/ k = x)
  BY <1>0 DEF HasFailed, EventTaken
<1>4. HasFailed(x)
  BY DEF HasFailed
<1>5. Handshake'
  BY <1>2, <1>3, <1>4 DEF OrderInv, Handshake, ResumeAdded
<1>6. InOrder' /\ Acks'
  BY <1>1, <1>2 DEF OrderInv, InOrder, Acks, EventTaken
<1>7. SentInOrder'
  BY <1>0, <1>1, <1>2, <1>3 DEF OrderInv, SentInOrder, ResumeAdded, NoResume
<1>8. LastSent'
  BY DEF LastSent
<1>9. BufferReady'
  BY <1>0, <1>1, <1>2 DEF OrderInv, BufferReady, FailedInOrder
<1>10. FailedInOrder'
  <2>. SUFFICES ASSUME NEW i \in Nat, NEW z \in Nat, FailedAt(i, z)'
                PROVE  \/ Ready(z) \/ z - 1 \in outMessagesBuffer' \/ IsPending(z - 1)
                       \/ \E j \in Nat : j < i /\ FailedAt(j, z - 1)'
    BY <1>1, <1>2 DEF FailedInOrder
  <2>1. i > 0 /\ FailedAt(i + 1, z)
    BY DEF EventTaken
  <2>2. ASSUME NEW j \in Nat, j < i + 1, FailedAt(j, z - 1)
        PROVE  z - 1 = x \/ (j - 1 \in Nat /\ j - 1 < i /\ FailedAt(j - 1, z - 1)')
    BY <1>0, <2>2 DEF EventTaken
  <2>. QED  BY <2>1, <2>2 DEF OrderInv, FailedInOrder
<1>11. Somewhere'
  BY <1>0, <1>2, <1>3 DEF OrderInv, Somewhere, ResumeAdded, IsSent
<1>12. Once'
  BY <1>0, <1>2, <1>3 DEF OrderInv, Once, ResumeAdded, IsSent, EventTaken
<1>13. CoveredSent'
  BY <1>0, <1>2, <1>3, <1>4 DEF OrderInv, CoveredSent, ResumeAdded, Once, IsSent
<1>14. CoveredPending'
  BY <1>0, <1>2, <1>3, <1>4 DEF OrderInv, CoveredPending, Once
<1>15. CoveredAcked'
  BY <1>0, <1>2, <1>3, <1>4 DEF OrderInv, CoveredAcked, EventTaken, Once
<1>. QED  BY <1>5, <1>6, <1>7, <1>8, <1>9, <1>10, <1>11, <1>12, <1>13, <1>14, <1>15 DEF OrderInv

\* An event that leaves the buffer alone is taken and nothing is written.
LEMMA IgnoredKeepsOrder ==
    ASSUME OrderInv, Numbers, EventTaken, \A k : ~FailedAt(1, k), CommandsSame,
           UNCHANGED <<phase, outVars, pending, suspended, written>>
    PROVE  OrderInv'
<1> USE DEF Numbers, outVars
<1>1. \A x \in Int : Ready(x)' <=> Ready(x)
  BY DEF Ready
<1>2. \A k : IsPending(k)' <=> IsPending(k)
  BY DEF IsPending
<1>3. \A k \in Int : HasFailed(k)' <=> HasFailed(k)
  BY DEF HasFailed, EventTaken
<1>4. Handshake'
  BY <1>2, <1>3 DEF OrderInv, Handshake, CommandsSame
<1>5. InOrder' /\ Acks'
  BY <1>1, <1>2 DEF OrderInv, InOrder, Acks, EventTaken
<1>6. SentInOrder'
  BY <1>1, <1>2, <1>3 DEF OrderInv, SentInOrder, CommandsSame, NoResume
<1>7. LastSent'
  BY <1>2, <1>3 DEF OrderInv, LastSent, CommandsSame
<1>8. BufferReady'
  BY <1>1, <1>2 DEF OrderInv, BufferReady
<1>9. FailedInOrder'
  BY <1>1, <1>2, <1>3 DEF OrderInv, FailedInOrder, EventTaken
<1>10. Somewhere'
  BY <1>2, <1>3 DEF OrderInv, Somewhere, CommandsSame, IsSent
<1>11. Once'
  BY <1>2, <1>3 DEF OrderInv, Once, CommandsSame, IsSent, EventTaken
<1>12. CoveredSent'
  BY <1>2, <1>3 DEF OrderInv, CoveredSent, CommandsSame
<1>13. CoveredPending'
  BY <1>2, <1>3 DEF OrderInv, CoveredPending
<1>14. CoveredAcked'
  BY <1>2, <1>3 DEF OrderInv, CoveredAcked, EventTaken
<1>. QED  BY <1>4, <1>5, <1>6, <1>7, <1>8, <1>9, <1>10, <1>11, <1>12, <1>13, <1>14 DEF OrderInv

\* The first buffered message may be written, or the one before it is pending.
LEMMA FirstIsReady ==
    ASSUME OrderInv, Numbers, NEW m \in outMessagesBuffer, \A o \in outMessagesBuffer : m <= o
    PROVE  Ready(m) \/ IsPending(m - 1)
<1> USE DEF Numbers
<1>1. PICK x \in outMessagesBuffer : Ready(x) \/ IsPending(x - 1)
  BY DEF OrderInv, BufferReady
<1>2. m \in Nat /\ x \in Nat /\ m <= x
  OBVIOUS
<1>3. CASE Ready(x)
  BY <1>2, <1>3 DEF Ready
<1>4. CASE IsPending(x - 1) /\ m # x
  <2>1. x - 1 \in Nat /\ Ready(x - 1)
    BY <1>2, <1>4 DEF OrderInv, InOrder
  <2>. QED  BY <1>2, <1>4, <2>1 DEF Ready
<1>. QED  BY <1>1, <1>3, <1>4

\* An event that leaves the buffer alone makes the handler write the first of it.
LEMMA SendingKeepsOrder ==
    ASSUME OrderInv, Numbers, EventTaken, \A k : ~FailedAt(1, k),
           NEW m \in outMessagesBuffer, \A o \in outMessagesBuffer : m <= o,
           NEW q, WriteAdded(m, q), phase' = "buffering",
           UNCHANGED <<outVars, pending, suspended, written>>
    PROVE  OrderInv'
<1> USE DEF Numbers, outVars
<1>0. m \in Nat /\ m <= outMessagesCounter
  OBVIOUS
<1>1. \A x \in Int : Ready(x)' <=> Ready(x)
  BY DEF Ready
<1>2. \A k : IsPending(k)' <=> IsPending(k)
  BY DEF IsPending
<1>3. \A k \in Int : HasFailed(k)' <=> HasFailed(k)
  BY DEF HasFailed, EventTaken
<1>4. Handshake'
  BY <1>2, <1>3 DEF OrderInv, Handshake, WriteAdded
<1>5. InOrder' /\ Acks'
  BY <1>1, <1>2 DEF OrderInv, InOrder, Acks, EventTaken
<1>6. SentInOrder'
  BY <1>0, <1>1, <1>2, <1>3, FirstIsReady DEF OrderInv, SentInOrder, WriteAdded, NoResume
<1>7. LastSent'
  BY DEF LastSent
<1>8. BufferReady'
  BY <1>1, <1>2 DEF OrderInv, BufferReady
<1>9. FailedInOrder'
  BY <1>1, <1>2, <1>3 DEF OrderInv, FailedInOrder, EventTaken
<1>10. Somewhere'
  BY <1>2, <1>3 DEF OrderInv, Somewhere, WriteAdded, IsSent
<1>11. Once'
  BY <1>2, <1>3 DEF OrderInv, Once, WriteAdded, IsSent, EventTaken
<1>12. CoveredSent'
  BY <1>2, <1>3 DEF OrderInv, CoveredSent, Somewhere, IsSent, WriteAdded
<1>13. CoveredPending'
  BY <1>2, <1>3 DEF OrderInv, CoveredPending
<1>14. CoveredAcked'
  BY <1>2, <1>3 DEF OrderInv, CoveredAcked, EventTaken
<1>. QED  BY <1>4, <1>5, <1>6, <1>7, <1>8, <1>9, <1>10, <1>11, <1>12, <1>13, <1>14 DEF OrderInv

\* A buffered message is acknowledged: nothing is left to write but what is buffered.
LEMMA AllBuffered ==
    ASSUME OrderInv, Numbers, NEW y \in outMessagesBuffer, AckAt(1, y)
    PROVE  /\ y \in written
           /\ \A k \in 0..outMessagesCounter : k \in written \/ k \in outMessagesBuffer \ {y}
<1> USE DEF Numbers
<1>1. y \in written
  BY DEF OrderInv, Acks
<1>. QED  BY <1>1 DEF OrderInv, CoveredAcked

\* A buffered message is acknowledged and the next one written, if there is one.
LEMMA AckedKeepsOrder ==
    ASSUME OrderInv, Numbers, NEW y \in outMessagesBuffer, AckAt(1, y), EventTaken,
           outMessagesBuffer' = outMessagesBuffer \ {y},
           \/ outMessagesBuffer' = {} /\ CommandsSame
           \/ /\ phase' = "buffering"
              /\ \E m \in outMessagesBuffer', q \in Nat :
                    WriteAdded(m, q) /\ \A o \in outMessagesBuffer' : m <= o,
           UNCHANGED <<outMessagesCounter, pending, suspended, written>>
    PROVE  OrderInv'
<1> USE DEF Numbers
<1>0. /\ y \in Nat /\ y <= outMessagesCounter
      /\ \A k : ~FailedAt(1, k) /\ (AckAt(1, k) => k = y)
  BY Places
<1>1. \A x \in Int : Ready(x)' <=> Ready(x)
  BY DEF Ready
<1>2. \A k : IsPending(k)' <=> IsPending(k)
  BY DEF IsPending
<1>3. \A k \in Int : HasFailed(k)' <=> HasFailed(k)
  BY <1>0 DEF HasFailed, EventTaken
<1>4. y \in written /\ \A k \in 0..outMessagesCounter : k \in written \/ k \in outMessagesBuffer'
  BY AllBuffered
<1>5. Ready(y + 1)
  BY <1>0, <1>4 DEF OrderInv, InOrder, Ready
<1>6. InOrder' /\ Acks'
  BY <1>1, <1>2 DEF OrderInv, InOrder, Acks, EventTaken
<1>7. FailedInOrder'
  BY <1>0, <1>1, <1>2, <1>3, <1>5 DEF OrderInv, FailedInOrder, EventTaken
<1>8. CoveredPending' /\ CoveredAcked'
  BY <1>4 DEF CoveredPending, CoveredAcked
<1>9. Somewhere'
  BY <1>4 DEF Somewhere
<1>10. CASE outMessagesBuffer' = {} /\ CommandsSame
  <2>1. Handshake'
    BY <1>2, <1>3, <1>10 DEF OrderInv, Handshake, CommandsSame
  <2>2. SentInOrder'
    BY <1>0, <1>1, <1>2, <1>3, <1>5, <1>10 DEF OrderInv, SentInOrder, CommandsSame, NoResume
  <2>3. LastSent'
    BY <1>4, <1>10 DEF LastSent
  <2>4. BufferReady' /\ CoveredSent'
    BY <1>10 DEF BufferReady, CoveredSent
  <2>5. Once'
    BY <1>0, <1>2, <1>3, <1>4, <1>10 DEF OrderInv, Acks, Once, CommandsSame, IsSent, EventTaken
  <2>. QED  BY <1>6, <1>7, <1>8, <1>9, <2>1, <2>2, <2>3, <2>4, <2>5 DEF OrderInv
<1>11. ASSUME phase' = "buffering", NEW m \in outMessagesBuffer', NEW q \in Nat, WriteAdded(m, q),
              \A o \in outMessagesBuffer' : m <= o
       PROVE  OrderInv'
  <2>0. m \in Nat /\ m <= outMessagesCounter
    BY <1>11
  <2>1. Handshake'
    BY <1>2, <1>3, <1>11 DEF OrderInv, Handshake, WriteAdded
  <2>2. Ready(m)
    BY <1>4, <1>11, <2>0 DEF Ready
  <2>3. SentInOrder'
    BY <1>0, <1>1, <1>2, <1>3, <1>5, <1>11, <2>0, <2>2 DEF OrderInv, SentInOrder, WriteAdded, NoResume
  <2>4. LastSent'
    BY <1>11 DEF LastSent
  <2>5. BufferReady'
    BY <1>1, <1>11, <2>0, <2>2 DEF BufferReady
  <2>6. Once'
    BY <1>0, <1>2, <1>3, <1>4, <1>11 DEF OrderInv, Acks, Once, WriteAdded, IsSent, EventTaken
  <2>7. CoveredSent'
    BY <1>4 DEF CoveredSent
  <2>. QED  BY <1>6, <1>7, <1>8, <1>9, <2>1, <2>3, <2>4, <2>5, <2>6, <2>7 DEF OrderInv
<1>. QED  BY <1>10, <1>11

-----------------------------------------------------------------------------
(* The stream: positions in the mailboxes                                  *)

\* What a tail holds, by position.
LEMMA TailAt ==
    ASSUME NEW s, IsSeq(s), s # <<>>
    PROVE  /\ Len(s) \in Nat /\ Len(s) > 0 /\ DOMAIN s = 1..Len(s) /\ Head(s) = s[1]
           /\ DOMAIN Tail(s) = 1..(Len(s) - 1)
           /\ \A i \in 1..(Len(s) - 1) : Tail(s)[i] = s[i + 1]
<1>1. PICK S : s \in Seq(S)
  BY DEF IsSeq
<1>. QED  BY <1>1

\* What a concatenation holds, by position.
LEMMA ConcatAt ==
    ASSUME NEW s, NEW t, IsSeq(s), IsSeq(t)
    PROVE  /\ Len(s) \in Nat /\ DOMAIN s = 1..Len(s)
           /\ Len(t) \in Nat /\ DOMAIN t = 1..Len(t)
           /\ DOMAIN (s \o t) = 1..(Len(s) + Len(t))
           /\ \A i \in 1..Len(s) : (s \o t)[i] = s[i]
           /\ \A i \in 1..Len(t) : (s \o t)[Len(s) + i] = t[i]
<1>1. PICK S : s \in Seq(S)
  BY DEF IsSeq
<1>2. PICK T : t \in Seq(T)
  BY DEF IsSeq
<1>3. s \in Seq(S \cup T) /\ t \in Seq(S \cup T)
  BY <1>1, <1>2
<1>. QED  BY <1>3

\* What a sequence holds when one element was added.
LEMMA OneAdded ==
    ASSUME NEW s, IsSeq(s), NEW e
    PROVE  /\ Len(s) \in Nat /\ DOMAIN s = 1..Len(s)
           /\ DOMAIN (s \o <<e>>) = 1..(Len(s) + 1)
           /\ \A i \in 1..Len(s) : (s \o <<e>>)[i] = s[i]
           /\ (s \o <<e>>)[Len(s) + 1] = e
<1>1. IsSeq(<<e>>) /\ Len(<<e>>) = 1 /\ <<e>>[1] = e
  BY ShortOnes
<1>. QED  BY <1>1, ConcatAt

\* The connection takes a command.
LEMMA ACommandTaken ==
    ASSUME IsSeq(toTcp), toTcp # <<>>, toTcp' = Tail(toTcp)
    PROVE  /\ CommandTaken
           /\ Head(toTcp).kind = "Write" => WriteAt(1, Head(toTcp).id)
           /\ Head(toTcp).kind = "ResumeWriting" => ResumeAt(1)
BY TailAt DEF CommandTaken, WriteAt, ResumeAt

\* The handler takes an event.
LEMMA AnEventTaken ==
    ASSUME IsSeq(fromTcp), fromTcp # <<>>, fromTcp' = Tail(fromTcp)
    PROVE  /\ EventTaken
           /\ \A k : FailedAt(1, k) <=> /\ Head(fromTcp).kind = "CommandFailed"
                                        /\ Head(fromTcp).command.kind = "Write"
                                        /\ Head(fromTcp).command.id = k
           /\ \A k : AckAt(1, k) <=> Head(fromTcp).kind = "Ack" /\ Head(fromTcp).id = k
<1>1. EventTaken
  <2>1. \A i \in Nat : \A k : FailedAt(i, k)' => i > 0 /\ FailedAt(i + 1, k)
    BY TailAt DEF FailedAt
  <2>2. \A i \in Nat : \A k : FailedAt(i, k) => i = 1 \/ FailedAt(i - 1, k)'
    BY TailAt DEF FailedAt
  <2>3. \A i \in Nat : \A k : AckAt(i, k)' => i > 0 /\ AckAt(i + 1, k)
    BY TailAt DEF AckAt
  <2>4. \A i \in Nat : \A k : AckAt(i, k) => i = 1 \/ AckAt(i - 1, k)'
    BY TailAt DEF AckAt
  <2>. QED  BY <2>1, <2>2, <2>3, <2>4 DEF EventTaken
<1>2. 1 \in DOMAIN fromTcp /\ Head(fromTcp) = fromTcp[1]
  BY TailAt
<1>. QED  BY <1>1, <1>2 DEF FailedAt, AckAt

\* The handler sends a command.
LEMMA ACommandAdded ==
    ASSUME IsSeq(toTcp), NEW c, toTcp' = toTcp \o <<c>>
    PROVE  /\ c.kind = "Write" => WriteAdded(c.id, Len(toTcp) + 1)
           /\ c.kind = "ResumeWriting" => ResumeAdded(Len(toTcp) + 1)
<1>1. /\ Len(toTcp) \in Nat /\ DOMAIN toTcp = 1..Len(toTcp)
      /\ DOMAIN toTcp' = 1..(Len(toTcp) + 1)
      /\ \A i \in 1..Len(toTcp) : toTcp'[i] = toTcp[i]
      /\ toTcp'[Len(toTcp) + 1] = c
  BY OneAdded
<1>2. CASE c.kind = "Write"
  BY <1>1, <1>2 DEF WriteAdded, WriteAt, ResumeAt
<1>3. CASE c.kind = "ResumeWriting"
  BY <1>1, <1>3 DEF ResumeAdded, WriteAt, ResumeAt
<1>. QED  BY <1>2, <1>3

\* The connection reports an event.
LEMMA AnEventAdded ==
    ASSUME IsSeq(fromTcp), NEW e, fromTcp' = fromTcp \o <<e>>
    PROVE  /\ e.kind = "CommandFailed" /\ e.command.kind = "Write"
                => FailureAdded(e.command.id, Len(fromTcp) + 1)
           /\ e.kind = "Ack" => AcksAdded({e.id}, Len(fromTcp) + 1)
           /\ e.kind \notin {"CommandFailed", "Ack"}
                 \/ (e.kind = "CommandFailed" /\ e.command.kind # "Write") => EventsSame
<1>1. /\ Len(fromTcp) \in Nat /\ DOMAIN fromTcp = 1..Len(fromTcp)
      /\ DOMAIN fromTcp' = 1..(Len(fromTcp) + 1)
      /\ \A i \in 1..Len(fromTcp) : fromTcp'[i] = fromTcp[i]
      /\ fromTcp'[Len(fromTcp) + 1] = e
  BY OneAdded
<1>2. CASE e.kind = "CommandFailed" /\ e.command.kind = "Write"
  BY <1>1, <1>2 DEF FailureAdded, FailedAt, AckAt
<1>3. CASE e.kind = "Ack"
  BY <1>1, <1>3 DEF AcksAdded, FailedAt, AckAt
<1>4. CASE e.kind \notin {"CommandFailed", "Ack"} \/ (e.kind = "CommandFailed" /\ e.command.kind # "Write")
  BY <1>1, <1>4 DEF EventsSame, FailedAt, AckAt
<1>. QED  BY <1>2, <1>3, <1>4

\* The connection acknowledges a write, if it was asked to, and may say that writing
\* goes on.
LEMMA AcksReported ==
    ASSUME IsSeq(fromTcp), NEW v, NEW r, r = <<>> \/ r = <<WritingResumed>>,
           fromTcp' = fromTcp \o (AckOf(v) \o r)
    PROVE  \E acks \in SUBSET {v.id}, p \in Nat : AcksAdded(acks, p)
<1> DEFINE t == AckOf(v) \o r
<1>1. /\ IsSeq(AckOf(v)) /\ IsSeq(r)
      /\ Len(AckOf(v)) \in {0, 1} /\ \A i \in 1..Len(AckOf(v)) : AckOf(v)[i] = Ack(v.id)
      /\ \A i \in 1..Len(r) : r[i] = WritingResumed
  BY ShortOnes DEF AckOf
<1>2. IsSeq(t)
  BY <1>1, ConcatOf
<1>3. /\ Len(t) \in Nat
      /\ \A i \in 1..Len(t) : t[i] = (IF i = 1 /\ Len(AckOf(v)) = 1 THEN Ack(v.id) ELSE WritingResumed)
      /\ Len(AckOf(v)) = 1 => Len(t) >= 1
  <2>1. /\ Len(r) \in Nat
        /\ DOMAIN t = 1..(Len(AckOf(v)) + Len(r))
        /\ \A i \in 1..Len(AckOf(v)) : t[i] = Ack(v.id)
        /\ \A i \in 1..Len(r) : t[Len(AckOf(v)) + i] = WritingResumed
    BY <1>1, ConcatAt
  <2> HIDE DEF t
  <2>2. Len(t) \in Nat /\ DOMAIN t = 1..Len(t)
    <3>1. PICK T : t \in Seq(T)
      BY <1>2 DEF IsSeq
    <3>. QED  BY <3>1
  <2>3. Len(t) = Len(AckOf(v)) + Len(r)
    BY <1>1, <2>1, <2>2
  <2>4. ASSUME NEW i \in 1..Len(t), i > Len(AckOf(v))
        PROVE  t[i] = WritingResumed
    <3>1. i - Len(AckOf(v)) \in 1..Len(r) /\ Len(AckOf(v)) + (i - Len(AckOf(v))) = i
      BY <1>1, <2>1, <2>3, <2>4
    <3>. QED  BY <2>1, <3>1
  <2>5. ASSUME NEW i \in 1..Len(t)
        PROVE  t[i] = (IF i = 1 /\ Len(AckOf(v)) = 1 THEN Ack(v.id) ELSE WritingResumed)
    <3>1. CASE i > Len(AckOf(v))
      <4>1. i \in Nat /\ Len(AckOf(v)) \in Nat
        BY <1>1, <2>2
      <4>3. ~(i = 1 /\ Len(AckOf(v)) = 1)
        <5>1. \A a, b \in Nat : a > b => ~(a = 1 /\ b = 1)
          OBVIOUS
        <5>. QED  BY <3>1, <4>1, <5>1, Zenon
      <4>2. t[i] = WritingResumed
        BY <2>4, <3>1
      <4>. QED  BY <4>2, <4>3
    <3>2. CASE ~(i > Len(AckOf(v)))
      <4>1. i = 1 /\ Len(AckOf(v)) = 1
        BY <1>1, <2>2, <3>2
      <4>. QED  BY <2>1, <4>1
    <3>. QED  BY <3>1, <3>2
  <2>. QED  BY <1>1, <2>1, <2>2, <2>3, <2>5
<1> HIDE DEF t
<1>4. /\ Len(fromTcp) \in Nat /\ DOMAIN fromTcp = 1..Len(fromTcp)
      /\ DOMAIN fromTcp' = 1..(Len(fromTcp) + Len(t))
      /\ \A i \in 1..Len(fromTcp) : fromTcp'[i] = fromTcp[i]
      /\ \A i \in 1..Len(t) : fromTcp'[Len(fromTcp) + i] = t[i]
  BY <1>2, ConcatAt DEF t
<1> DEFINE acks == IF Len(AckOf(v)) = 1 THEN {v.id} ELSE {}
           p == Len(fromTcp) + 1
<1>5. \A i \in DOMAIN fromTcp' :
         \/ i \in DOMAIN fromTcp /\ fromTcp'[i] = fromTcp[i]
         \/ i = p /\ Len(AckOf(v)) = 1 /\ fromTcp'[i] = Ack(v.id)
         \/ i \notin DOMAIN fromTcp /\ ~(i = p /\ Len(AckOf(v)) = 1) /\ fromTcp'[i] = WritingResumed
  <2>1. ASSUME NEW i \in DOMAIN fromTcp', i \notin DOMAIN fromTcp
        PROVE  fromTcp'[i] = (IF i = p /\ Len(AckOf(v)) = 1 THEN Ack(v.id) ELSE WritingResumed)
    <3>1. i - Len(fromTcp) \in 1..Len(t) /\ Len(fromTcp) + (i - Len(fromTcp)) = i
      BY <1>3, <1>4, <2>1
    <3>2. fromTcp'[i] = t[i - Len(fromTcp)]
      BY <1>4, <3>1
    <3>3. i - Len(fromTcp) = 1 <=> i = p
      BY <1>4, <3>1
    <3>. QED  BY <1>3, <3>1, <3>2, <3>3
  <2>2. \A i \in DOMAIN fromTcp : fromTcp'[i] = fromTcp[i] /\ i # p
    BY <1>4
  <2>. QED  BY <2>1, <2>2
<1>6. Len(AckOf(v)) = 1 => p \in DOMAIN fromTcp' /\ fromTcp'[p] = Ack(v.id)
  BY <1>3, <1>4
<1>7. /\ Ack(v.id).kind = "Ack" /\ Ack(v.id).id = v.id /\ WritingResumed.kind = "WritingResumed"
      /\ DOMAIN fromTcp \subseteq DOMAIN fromTcp' /\ \A i \in DOMAIN fromTcp : fromTcp'[i] = fromTcp[i]
  BY <1>3, <1>4 DEF Ack, WritingResumed
<1>8. \A i \in Nat : \A k : FailedAt(i, k)' <=> FailedAt(i, k)
  BY <1>5, <1>7 DEF FailedAt
<1>9. \A i \in Nat : \A k : AckAt(i, k)' <=> AckAt(i, k) \/ (i = p /\ k \in acks)
  BY <1>4, <1>5, <1>6, <1>7 DEF AckAt
<1>10. p \in Nat /\ p > 0 /\ acks \in SUBSET {v.id}
       /\ \A i \in Nat : \A k : FailedAt(i, k) \/ AckAt(i, k) => i < p
  BY <1>4 DEF FailedAt, AckAt
<1>11. AcksAdded(acks, p)
  BY <1>8, <1>9, <1>10 DEF AcksAdded
<1>. QED  BY <1>10, <1>11

-----------------------------------------------------------------------------
(* The stream: last words                                                  *)

\* A finite set of message numbers has a member of every rank.
LEMMA RankExists ==
    ASSUME NEW n \in Nat, NEW S \in SUBSET (0..n), IsFiniteSet(S), NEW i \in 1..Cardinality(S)
    PROVE  \E id \in S : Cardinality({o \in S : o <= id}) = i
<1> DEFINE Below(x) == {o \in S : o <= x}
           T == {x \in Nat : Cardinality(Below(x)) >= i}
<1>0. \A o \in S : o \in Nat /\ o <= n
  OBVIOUS
<1>1. \A x \in Int : IsFiniteSet(Below(x)) /\ Cardinality(Below(x)) \in Nat
  BY FS_Subset, FS_CardinalityType
<1>2. Cardinality(S) \in Nat /\ i \in Nat /\ i > 0 /\ i <= Cardinality(S)
  BY FS_CardinalityType
<1>3. n \in T
  <2>1. Below(n) = S
    BY <1>0
  <2>. QED  BY <1>2, <2>1
<1>4. PICK x \in T : \A y \in T : x <= y
  <2>1. T \in SUBSET Nat /\ T # {}
    BY <1>3
  <2> HIDE DEF T
  <2>. QED  BY <2>1, LeastOf
<1>5. x \in Nat /\ Cardinality(Below(x)) >= i
  BY <1>4
<1>6. Cardinality(Below(x - 1)) < i
  <2>1. CASE x = 0
    <3>0. \A o \in S : ~(o <= x - 1)
      BY <1>0, <2>1
    <3>1. Below(x - 1) = {}
      BY <3>0
    <3> HIDE DEF Below
    <3>. QED  BY <1>2, <3>1, FS_EmptySet
  <2>2. CASE x # 0
    <3>1. x - 1 \in Nat
      BY <1>5, <2>2
    <3>2. x - 1 \notin T
      <4> HIDE DEF T
      <4>. QED  BY <1>4, <1>5, <3>1
    <3>3. ~(Cardinality(Below(x - 1)) >= i)
      BY <3>1, <3>2
    <3>4. Cardinality(Below(x - 1)) \in Nat
      <4> HIDE DEF Below
      <4>. QED  BY <1>1, <3>1
    <3> HIDE DEF Below
    <3>. QED  BY <1>2, <3>3, <3>4
  <2>. QED  BY <2>1, <2>2
<1>7. \A o \in S : o <= x <=> o <= x - 1 \/ o = x
  BY <1>0, <1>5
<1>8. x \notin Below(x - 1)
  BY <1>5
<1>9. x \in S
  <2>. SUFFICES ASSUME x \notin S
                PROVE  FALSE
    OBVIOUS
  <2>1. Below(x) = Below(x - 1)
    BY <1>7
  <2>2. Cardinality(Below(x)) \in Nat
    BY <1>1, <1>5
  <2> HIDE DEF Below
  <2>. QED  BY <1>2, <1>5, <1>6, <2>1, <2>2
<1>10. Cardinality(Below(x)) = Cardinality(Below(x - 1)) + 1
  <2>1. Below(x) = Below(x - 1) \cup {x}
    BY <1>5, <1>7, <1>9
  <2> HIDE DEF Below
  <2>2. IsFiniteSet(Below(x - 1))
    BY <1>1, <1>5
  <2>. QED  BY <1>8, <2>1, <2>2, FS_AddElement
<1>11. Cardinality(Below(x)) \in Nat /\ Cardinality(Below(x - 1)) \in Nat
  <2> HIDE DEF Below
  <2>. QED  BY <1>1, <1>5
<1>12. Cardinality(Below(x)) = i
  <2> HIDE DEF Below
  <2>. QED  BY <1>2, <1>5, <1>6, <1>10, <1>11
<1>. QED  BY <1>9, <1>12

\* pushAllWithNoAck writes buffered messages.
LEMMA PushAllWrites ==
    ASSUME NEW n \in Nat, NEW buffer \in SUBSET (0..n), IsFiniteSet(buffer)
    PROVE  /\ Len(PushAll(buffer)) = Cardinality(buffer) /\ Cardinality(buffer) \in Nat
           /\ \A i \in 1..Cardinality(buffer) :
                 PushAll(buffer)[i].kind = "Write" /\ PushAll(buffer)[i].id \in buffer
<1> DEFINE Rank(id) == Cardinality({o \in buffer : o <= id})
           At(i) == CHOOSE id \in buffer : Rank(id) = i
           c == Cardinality(buffer)
<1>1. c \in Nat
  BY FS_CardinalityType
<1>2. \A i \in 1..c : At(i) \in buffer
  BY RankExists
<1>3. PushAll(buffer) = [i \in 1..c |-> Write(At(i), FALSE)]
  BY DEF PushAll
<1> HIDE DEF At
<1>4. \A i \in 1..c : PushAll(buffer)[i] = Write(At(i), FALSE)
  BY <1>3
<1>5. Len(PushAll(buffer)) = c
  BY <1>1, <1>3
<1>. QED  BY <1>1, <1>2, <1>4, <1>5 DEF Write

\* Closing writes buffered messages.
LEMMA ClosingWrites ==
    ASSUME Numbers, IsSeq(toTcp), IsFiniteSet(outMessagesBuffer), CloseConnection
    PROVE  /\ \A i \in Nat : \A k : WriteAt(i, k)' => i > 0 /\ k \in 0..outMessagesCounter
           /\ Aborted'
<1> DEFINE t == Append(PushAll(outMessagesBuffer), Abort)
           c == Cardinality(outMessagesBuffer)
<1>1. /\ Len(PushAll(outMessagesBuffer)) = c /\ c \in Nat
      /\ \A i \in 1..c : PushAll(outMessagesBuffer)[i].kind = "Write"
                         /\ PushAll(outMessagesBuffer)[i].id \in outMessagesBuffer
  BY PushAllWrites DEF Numbers
<1>2. IsSeq(t) /\ toTcp' = toTcp \o t
  BY PushAllIsSeq DEF CloseConnection, Command
<1>3. /\ Len(t) = c + 1
      /\ \A i \in 1..c : t[i] = PushAll(outMessagesBuffer)[i]
      /\ t[c + 1] = Abort
  <2> DEFINE S == {PushAll(outMessagesBuffer)[j] : j \in 1..c}
  <2>1. PushAll(outMessagesBuffer) \in Seq(S)
    <3>1. \A i \in 1..c : PushAll(outMessagesBuffer)[i] \in S
      OBVIOUS
    <3>2. PushAll(outMessagesBuffer) = [i \in 1..c |-> PushAll(outMessagesBuffer)[i]]
      BY DEF PushAll
    <3> HIDE DEF S
    <3>. QED  BY <1>1, <3>1, <3>2
  <2> HIDE DEF S
  <2>2. PushAll(outMessagesBuffer) \in Seq(S \cup {Abort})
    BY <2>1
  <2>. QED  BY <1>1, <2>2
<1> HIDE DEF t
<1>4. /\ Len(toTcp) \in Nat /\ DOMAIN toTcp = 1..Len(toTcp)
      /\ DOMAIN toTcp' = 1..(Len(toTcp) + (c + 1))
      /\ \A i \in 1..Len(toTcp) : toTcp'[i] = toTcp[i]
      /\ \A i \in 1..(c + 1) : toTcp'[Len(toTcp) + i] = t[i]
  BY <1>2, <1>3, ConcatAt
<1>5. ASSUME NEW i \in Nat, NEW k, WriteAt(i, k)'
      PROVE  i > 0 /\ k \in 0..outMessagesCounter
  <2>1. i \in DOMAIN toTcp' /\ toTcp'[i].kind = "Write" /\ toTcp'[i].id = k
    BY <1>5 DEF WriteAt
  <2>2. CASE i <= Len(toTcp)
    <3>1. WriteAt(i, k)
      BY <1>4, <2>1, <2>2 DEF WriteAt
    <3>. QED  BY <3>1 DEF Numbers
  <2>3. CASE i > Len(toTcp)
    <3>1. i - Len(toTcp) \in 1..(c + 1) /\ Len(toTcp) + (i - Len(toTcp)) = i
      BY <1>1, <1>4, <2>1, <2>3
    <3>2. toTcp'[i] = t[i - Len(toTcp)]
      BY <1>4, <3>1
    <3>3. i - Len(toTcp) \in 1..c
      <4>1. Abort.kind # "Write"
        BY DEF Abort
      <4>. QED  BY <1>1, <1>3, <2>1, <3>1, <3>2, <4>1
    <3>4. k \in outMessagesBuffer
      BY <1>1, <1>3, <2>1, <3>2, <3>3
    <3>. QED  BY <1>4, <2>3, <3>4 DEF Numbers
  <2>. QED  BY <1>4, <2>2, <2>3
<1>6. Aborted'
  <2>1. c + 1 \in 1..(c + 1) /\ Len(toTcp) + (c + 1) \in DOMAIN toTcp'
    BY <1>1, <1>4
  <2>2. toTcp'[Len(toTcp) + (c + 1)] = Abort
    BY <1>3, <1>4, <2>1
  <2>. QED  BY <2>1, <2>2 DEF Aborted, Range
<1>. QED  BY <1>5, <1>6

-----------------------------------------------------------------------------
(* The stream: the invariant                                               *)

\* The stream promises the order.
Promised == open /\ ~Aborted /\ ~repeated

\* Every write but the handshake asks for an acknowledgement, so its failure is handled.
AcksAsked ==
    /\ \A c \in Range(toTcp) : c.kind = "Write" /\ c.id # 0 => c.ack
    /\ \A e \in Range(fromTcp) :
          e.kind = "CommandFailed" /\ e.command.kind = "Write" => e.command.ack

\* The order holds while it is promised, and whatever happens the numbers are right.
OrderedInv ==
    /\ Numbers
    /\ phase = "handshaking" => outMessagesCounter = 0
    /\ repeated \in BOOLEAN
    /\ Promised => OrderInv /\ AcksAsked

\* With what the handler is owed.
StreamInv == IInv /\ OrderedInv

\* Kinds of commands and events.
LEMMA Kinds ==
    /\ Abort.kind = "Abort" /\ ResumeWriting.kind = "ResumeWriting"
    /\ \A id, ack : Write(id, ack).kind = "Write" /\ Write(id, ack).id = id /\ Write(id, ack).ack = ack
    /\ \A c : CommandFailed(c).kind = "CommandFailed" /\ CommandFailed(c).command = c
    /\ \A id : Ack(id).kind = "Ack" /\ Ack(id).id = id
    /\ WritingResumed.kind = "WritingResumed" /\ ConnectionClosed.kind = "ConnectionClosed"
BY DEF Abort, ResumeWriting, Write, CommandFailed, Ack, WritingResumed, ConnectionClosed

-----------------------------------------------------------------------------
(* The stream: every step of the connection                                *)

\* The connection takes a write and refuses it.
LEMMA OrderRefused ==
    ASSUME StreamInv, NEW c, toTcp # <<>>, c = Head(toTcp), toTcp' = Tail(toTcp), c.kind = "Write",
           fromTcp' = fromTcp \o <<CommandFailed(c)>>, suspended \/ pending # {}, suspended',
           UNCHANGED <<phase, outVars, pending, written, repeated, open>>
    PROVE  OrderedInv'
<1> USE DEF StreamInv, OrderedInv, IInv, HandlerInv
<1>1. CommandTaken /\ WriteAt(1, c.id)
  BY ACommandTaken
<1>2. FailureAdded(c.id, Len(fromTcp) + 1)
  <2>1. PICK e : e = CommandFailed(c)
    OBVIOUS
  <2>2. e.kind = "CommandFailed" /\ e.command = c /\ fromTcp' = fromTcp \o <<e>>
    BY <2>1, Kinds
  <2>. QED  BY <2>2, AnEventAdded
<1>3. IsSeq(toTcp') /\ Range(toTcp) = {c} \cup Range(toTcp')
  BY TailOf
<1>4. Range(fromTcp') = Range(fromTcp) \cup {CommandFailed(c)}
  BY ConcatOf, ShortOnes
<1>5. Aborted' <=> Aborted
  BY <1>3, Kinds DEF Aborted
<1>6. Numbers'
  BY <1>1, <1>2 DEF Numbers, CommandTaken, FailureAdded, IsPending, outVars
<1>7. ASSUME Promised'
      PROVE  OrderInv' /\ AcksAsked'
  <2>1. Promised
    BY <1>5, <1>7 DEF Promised
  <2>2. OrderInv'
    BY <1>1, <1>2, <2>1, RefusedKeepsOrder
  <2>3. c.id # 0
    BY <1>1, <2>1 DEF OrderInv, Handshake
  <2>. QED  BY <1>3, <1>4, <2>1, <2>2, <2>3, Kinds DEF AcksAsked
<1>. QED  BY <1>6, <1>7 DEF outVars

\* The connection takes a write, which is pending then.
LEMMA OrderHeld ==
    ASSUME StreamInv, NEW c, toTcp # <<>>, c = Head(toTcp), toTcp' = Tail(toTcp), c.kind = "Write",
           ~suspended, pending = {}, pending' = {c},
           UNCHANGED <<phase, outVars, fromTcp, suspended, written, repeated, open>>
    PROVE  OrderedInv'
<1> USE DEF StreamInv, OrderedInv, IInv, HandlerInv
<1>1. CommandTaken /\ WriteAt(1, c.id)
  BY ACommandTaken
<1>2. EventsSame
  BY DEF EventsSame, FailedAt, AckAt
<1>3. IsSeq(toTcp') /\ Range(toTcp) = {c} \cup Range(toTcp')
  BY TailOf
<1>5. Aborted' <=> Aborted
  BY <1>3, Kinds DEF Aborted
<1>6. Numbers'
  BY <1>1, <1>2 DEF Numbers, CommandTaken, EventsSame, IsPending, outVars
<1>7. ASSUME Promised'
      PROVE  OrderInv' /\ AcksAsked'
  <2>1. Promised
    BY <1>5, <1>7 DEF Promised
  <2>2. OrderInv'
    BY <1>1, <1>2, <2>1, HeldKeepsOrder
  <2>. QED  BY <1>3, <2>1, <2>2 DEF AcksAsked
<1>. QED  BY <1>6, <1>7 DEF outVars

\* The connection takes a write, which goes into the socket.
LEMMA OrderWritten ==
    ASSUME StreamInv, NEW c, toTcp # <<>>, c = Head(toTcp), toTcp' = Tail(toTcp), c.kind = "Write",
           ~suspended, pending = {}, IntoSocket(c), Event(AckOf(c)),
           UNCHANGED <<phase, outVars, pending, suspended, open>>
    PROVE  OrderedInv'
<1> USE DEF StreamInv, OrderedInv, IInv, HandlerInv
<1>1. CommandTaken /\ WriteAt(1, c.id)
  BY ACommandTaken
<1>2. PICK acks \in SUBSET {c.id}, p \in Nat : AcksAdded(acks, p)
  <2>1. AckOf(c) \o <<>> = AckOf(c)
    <3>1. PICK S : AckOf(c) \in Seq(S)
      BY EventsAreSeqs DEF IsSeq
    <3>. QED  BY <3>1
  <2>. QED  BY <2>1, AcksReported DEF Event
<1>3. IsSeq(toTcp') /\ Range(toTcp) = {c} \cup Range(toTcp')
  BY TailOf
<1>4. Range(fromTcp') = Range(fromTcp) \cup Range(AckOf(c)) /\ \A e \in Range(AckOf(c)) : e.kind = "Ack"
  BY ConcatOf, EventsAreSeqs DEF Event
<1>5. Aborted' <=> Aborted
  BY <1>3, Kinds DEF Aborted
<1>6. Numbers'
  <2>1. c.id \in 0..outMessagesCounter
    BY <1>1 DEF Numbers
  <2>2. \A i \in Nat : \A k : AckAt(i, k)' => i > 0 /\ k \in 0..outMessagesCounter
    BY <1>2, <2>1 DEF Numbers, AcksAdded
  <2>3. \A i \in Nat : \A k : WriteAt(i, k)' => i > 0 /\ k \in 0..outMessagesCounter
    BY <1>1 DEF Numbers, CommandTaken
  <2>4. \A i \in Nat : \A k : FailedAt(i, k)' => i > 0 /\ k \in 0..outMessagesCounter
    BY <1>2 DEF Numbers, AcksAdded
  <2>5. written' \subseteq 0..outMessagesCounter
    BY <2>1 DEF Numbers, IntoSocket
  <2>6. \A k : IsPending(k)' => IsPending(k)
    BY DEF IsPending
  <2>. QED  BY <2>2, <2>3, <2>4, <2>5, <2>6 DEF Numbers, outVars
<1>7. ASSUME Promised'
      PROVE  OrderInv' /\ AcksAsked'
  <2>1. Promised /\ c.id \notin written
    BY <1>5, <1>7 DEF Promised, IntoSocket
  <2>2. OrderInv'
    BY <1>1, <1>2, <2>1, WrittenKeepsOrder DEF IntoSocket
  <2>. QED  BY <1>3, <1>4, <2>1, <2>2 DEF AcksAsked
<1>8. repeated' \in BOOLEAN
  BY DEF IntoSocket
<1>. QED  BY <1>6, <1>7, <1>8 DEF outVars

\* The connection resumes writing.
LEMMA OrderResumed ==
    ASSUME StreamInv, toTcp # <<>>, toTcp' = Tail(toTcp), Head(toTcp).kind = "ResumeWriting",
           TakesResumeWriting, UNCHANGED <<phase, outVars>>
    PROVE  OrderedInv'
<1> USE DEF StreamInv, OrderedInv, IInv, HandlerInv
<1>1. CommandTaken /\ ResumeAt(1)
  BY ACommandTaken
<1>2. EventsSame /\ \A e \in Range(fromTcp') : e \in Range(fromTcp) \/ e \in {CommandFailed(ResumeWriting), WritingResumed}
  <2>1. CASE UNCHANGED fromTcp
    BY <2>1 DEF EventsSame, FailedAt, AckAt
  <2>2. ASSUME NEW e \in {CommandFailed(ResumeWriting), WritingResumed}, fromTcp' = fromTcp \o <<e>>
        PROVE  EventsSame /\ Range(fromTcp') = Range(fromTcp) \cup {e}
    <3>1. e.kind = "WritingResumed" \/ (e.kind = "CommandFailed" /\ e.command.kind # "Write")
      BY <2>2, Kinds
    <3>2. EventsSame
      BY <2>2, <3>1, AnEventAdded
    <3>. QED  BY <2>2, <3>2, ConcatOf, ShortOnes
  <2>. QED  BY <2>1, <2>2 DEF TakesResumeWriting, Event
<1>3. IsSeq(toTcp') /\ Range(toTcp) = {Head(toTcp)} \cup Range(toTcp')
  BY TailOf
<1>5. Aborted' <=> Aborted
  BY <1>3, Kinds DEF Aborted
<1>6. Numbers'
  BY <1>1, <1>2 DEF Numbers, CommandTaken, EventsSame, IsPending, outVars, TakesResumeWriting
<1>7. ASSUME Promised'
      PROVE  OrderInv' /\ AcksAsked'
  <2>1. Promised
    BY <1>5, <1>7 DEF Promised, TakesResumeWriting
  <2>2. OrderInv'
    BY <1>1, <1>2, <2>1, ResumedKeepsOrder DEF TakesResumeWriting
  <2>. QED  BY <1>2, <1>3, <2>1, <2>2, Kinds DEF AcksAsked
<1>. QED  BY <1>6, <1>7 DEF outVars, TakesResumeWriting

\* The connection takes a command.
LEMMA OrderTcpCommand ==
    ASSUME StreamInv, TcpCommand
    PROVE  OrderedInv'
<1> DEFINE c == Head(toTcp)
<1>1. /\ toTcp # <<>> /\ toTcp' = Tail(toTcp) /\ UNCHANGED <<phase, outVars>> /\ open
  BY DEF TcpCommand
<1>2. CASE c.kind = "Write" /\ TakesWrite(c)
  <2>1. CASE fromTcp' = fromTcp \o <<CommandFailed(c)>> /\ (suspended \/ pending # {}) /\ suspended'
               /\ UNCHANGED <<pending, written, repeated, open>>
    BY <1>1, <1>2, <2>1, OrderRefused
  <2>2. CASE ~suspended /\ pending = {} /\ pending' = {c}
               /\ UNCHANGED <<fromTcp, suspended, written, repeated, open>>
    BY <1>1, <1>2, <2>2, OrderHeld
  <2>3. CASE ~suspended /\ pending = {} /\ IntoSocket(c) /\ Event(AckOf(c))
               /\ UNCHANGED <<pending, suspended, open>>
    BY <1>1, <1>2, <2>3, OrderWritten
  <2>. QED  BY <1>2, <2>1, <2>2, <2>3 DEF TakesWrite, Event, tcpVars
<1>3. CASE c.kind = "ResumeWriting" /\ TakesResumeWriting
  BY <1>1, <1>3, OrderResumed
<1>4. CASE TakesAbort
  <2>1. EventsSame
    BY <1>4, AnEventAdded, Kinds DEF TakesAbort, Event, StreamInv, IInv, HandlerInv
  <2>2. CommandTaken
    BY <1>1, ACommandTaken DEF StreamInv, IInv, HandlerInv
  <2>3. Numbers'
    BY <1>1, <1>4, <2>1, <2>2
       DEF TakesAbort, Numbers, CommandTaken, EventsSame, IsPending, outVars, StreamInv, OrderedInv
  <2>. QED  BY <1>1, <1>4, <2>3 DEF TakesAbort, OrderedInv, StreamInv, Promised, outVars
<1>. QED  BY <1>2, <1>3, <1>4 DEF TcpCommand

\* The pending write goes into the socket.
LEMMA OrderTcpFlush ==
    ASSUME StreamInv, TcpFlush
    PROVE  OrderedInv'
<1> USE DEF StreamInv, OrderedInv, IInv, HandlerInv
<1> DEFINE r == IF interested THEN <<WritingResumed>> ELSE <<>>
<1>1. PICK v \in pending : IntoSocket(v) /\ fromTcp' = fromTcp \o (AckOf(v) \o r)
  BY DEF TcpFlush, Event
<1>2. pending' = {} /\ UNCHANGED <<phase, outVars, toTcp, suspended, open>> /\ \A w \in pending : w = v
  BY DEF TcpFlush
<1>3. (r = <<>> \/ r = <<WritingResumed>>) /\ IsSeq(r) /\ \A e \in Range(r) : e.kind = "WritingResumed"
  BY ShortOnes, Kinds
<1> HIDE DEF r
<1>4. PICK acks \in SUBSET {v.id}, p \in Nat : AcksAdded(acks, p)
  BY <1>1, <1>3, AcksReported
<1>5. CommandsSame /\ (Aborted' <=> Aborted)
  BY <1>2 DEF CommandsSame, WriteAt, ResumeAt, Aborted
<1>6. \A e \in Range(fromTcp') : e \in Range(fromTcp) \/ e.kind \in {"Ack", "WritingResumed"}
  <2>1. IsSeq(AckOf(v)) /\ \A e \in Range(AckOf(v)) : e.kind = "Ack"
    BY EventsAreSeqs
  <2>2. IsSeq(AckOf(v) \o r) /\ Range(AckOf(v) \o r) = Range(AckOf(v)) \cup Range(r)
    BY <1>3, <2>1, ConcatOf
  <2>. QED  BY <1>1, <1>3, <2>1, <2>2, ConcatOf
<1>7. IsPending(v.id)
  BY DEF IsPending
<1>8. Numbers'
  BY <1>1, <1>2, <1>4, <1>5, <1>7 DEF Numbers, CommandsSame, AcksAdded, IsPending, outVars, IntoSocket
<1>9. ASSUME Promised'
      PROVE  OrderInv' /\ AcksAsked'
  <2>1. Promised /\ v.id \notin written
    BY <1>1, <1>2, <1>5, <1>9 DEF Promised, IntoSocket
  <2>2. OrderInv'
    BY <1>1, <1>2, <1>4, <1>5, <2>1, FlushedKeepsOrder DEF IntoSocket
  <2>. QED  BY <1>2, <1>6, <2>1, <2>2 DEF AcksAsked
<1>10. repeated' \in BOOLEAN
  BY <1>1 DEF IntoSocket
<1>. QED  BY <1>2, <1>8, <1>9, <1>10 DEF outVars

\* The connection is closed.
LEMMA OrderTcpClosed ==
    ASSUME StreamInv, TcpClosed
    PROVE  OrderedInv'
<1>1. EventsSame
  BY AnEventAdded, Kinds DEF TcpClosed, Event, StreamInv, IInv, HandlerInv
<1>2. CommandsSame
  BY DEF TcpClosed, CommandsSame, WriteAt, ResumeAt
<1>3. Numbers'
  BY <1>1, <1>2 DEF TcpClosed, Numbers, CommandsSame, EventsSame, IsPending, outVars, StreamInv, OrderedInv
<1>. QED  BY <1>3 DEF TcpClosed, OrderedInv, StreamInv, Promised, outVars

-----------------------------------------------------------------------------
(* The stream: every step of the handler                                   *)

\* The first of the buffer.
LEMMA MinIsLeast ==
    ASSUME NEW n \in Nat, NEW buffer \in SUBSET (0..n), buffer # {}
    PROVE  Min(buffer) \in buffer /\ \A o \in buffer : Min(buffer) <= o
<1>1. buffer \in SUBSET Nat
  OBVIOUS
<1>. QED  BY <1>1, LeastOf DEF Min

\* Nothing the order depends on changes.
LEMMA SameOrder ==
    ASSUME OrderInv, phase' = "buffering" <=> phase = "buffering",
           UNCHANGED <<outVars, toTcp, fromTcp, pending, suspended, written>>
    PROVE  OrderInv'
<1>1. UNCHANGED <<outMessagesCounter, outMessagesBuffer>>
  BY DEF outVars
<1>2. \A i, k : (WriteAt(i, k)' <=> WriteAt(i, k)) /\ (ResumeAt(i)' <=> ResumeAt(i))
  BY DEF WriteAt, ResumeAt
<1>3. \A i, k : (FailedAt(i, k)' <=> FailedAt(i, k)) /\ (AckAt(i, k)' <=> AckAt(i, k))
  BY DEF FailedAt, AckAt
<1>4. \A k : (IsSent(k)' <=> IsSent(k)) /\ (HasFailed(k)' <=> HasFailed(k))
  BY <1>2, <1>3 DEF IsSent, HasFailed
<1>5. \A k : (IsPending(k)' <=> IsPending(k)) /\ (Ready(k)' <=> Ready(k))
  BY DEF IsPending, Ready
<1>6. \A i, j : NoResume(i, j)' <=> NoResume(i, j)
  BY <1>2 DEF NoResume
<1>7. Handshake' /\ InOrder' /\ Acks'
  BY <1>1, <1>2, <1>3, <1>4, <1>5 DEF OrderInv, Handshake, InOrder, Acks
<1>8. SentInOrder'
  BY <1>1, <1>2, <1>4, <1>5, <1>6 DEF OrderInv, SentInOrder
<1>9. LastSent'
  BY <1>1, <1>2, <1>4, <1>5 DEF OrderInv, LastSent
<1>10. BufferReady' /\ FailedInOrder'
  BY <1>1, <1>3, <1>5 DEF OrderInv, BufferReady, FailedInOrder
<1>11. Somewhere' /\ Once'
  BY <1>1, <1>2, <1>3, <1>4, <1>5 DEF OrderInv, Somewhere, Once
<1>12. CoveredSent' /\ CoveredPending' /\ CoveredAcked'
  BY <1>1, <1>2, <1>3, <1>4, <1>5 DEF OrderInv, CoveredSent, CoveredPending, CoveredAcked
<1>. QED  BY <1>7, <1>8, <1>9, <1>10, <1>11, <1>12 DEF OrderInv

\* Steps that leave the stream alone: reading, and a request to close.
LEMMA OrderSame ==
    ASSUME StreamInv, phase' = phase \/ (phase = "handshaking" /\ phase' = "writing"),
           UNCHANGED <<outVars, toTcp, fromTcp, tcpVars>>
    PROVE  OrderedInv'
<1> USE DEF StreamInv, OrderedInv
<1>1. /\ UNCHANGED <<outMessagesCounter, outMessagesBuffer, pending, suspended, written, repeated, open>>
      /\ phase' = "buffering" <=> phase = "buffering"
  BY DEF outVars, tcpVars
<1>2. Numbers'
  BY <1>1 DEF Numbers, WriteAt, FailedAt, AckAt, IsPending
<1>3. (Promised' <=> Promised) /\ (AcksAsked' <=> AcksAsked)
  BY <1>1 DEF Promised, AcksAsked, Aborted
<1>4. OrderInv => OrderInv'
  BY <1>1, SameOrder
<1>. QED  BY <1>1, <1>2, <1>3, <1>4

\* A command that is no Abort is added.
LEMMA NoAbortAdded ==
    ASSUME IsSeq(toTcp), NEW c, c.kind # "Abort", toTcp' = toTcp \o <<c>>
    PROVE  /\ Range(toTcp') = Range(toTcp) \cup {c}
           /\ Aborted' <=> Aborted
<1>1. Range(toTcp') = Range(toTcp) \cup {c}
  BY ConcatOf, ShortOnes
<1>. QED  BY <1>1, Kinds DEF Aborted

\* A message is accepted.
LEMMA OrderLocalMessage ==
    ASSUME StreamInv, LocalMessage
    PROVE  OrderedInv'
<1> USE DEF StreamInv, OrderedInv, IInv, HandlerInv
<1>1. /\ outMessagesCounter' = outMessagesCounter + 1 /\ phase \in {"writing", "buffering"}
      /\ UNCHANGED <<phase, fromTcp, pending, suspended, written, repeated, open>>
  BY DEF LocalMessage, tcpVars, IsWorking
<1>2. EventsSame
  BY <1>1 DEF EventsSame, FailedAt, AckAt
<1>3. \A k : IsPending(k)' <=> IsPending(k)
  BY <1>1 DEF IsPending
<1>4. CASE /\ phase = "writing" /\ Command(<<Write(outMessagesCounter', TRUE)>>)
           /\ UNCHANGED outMessagesBuffer
  <2>1. PICK c : c = Write(outMessagesCounter + 1, TRUE)
    OBVIOUS
  <2>2. /\ toTcp' = toTcp \o <<c>> /\ c.kind = "Write" /\ c.id = outMessagesCounter + 1 /\ c.ack
    <3>1. toTcp' = toTcp \o <<c>>
      BY <1>1, <1>4, <2>1 DEF Command
    <3>. QED  BY <2>1, <3>1 DEF Write
  <2>3. WriteAdded(outMessagesCounter + 1, Len(toTcp) + 1)
    BY <2>2, ACommandAdded
  <2>4. Range(toTcp') = Range(toTcp) \cup {c} /\ (Aborted' <=> Aborted)
    BY <2>2, NoAbortAdded
  <2>5. Numbers'
    BY <1>1, <1>2, <1>3, <1>4, <2>3 DEF Numbers, WriteAdded, EventsSame
  <2>6. ASSUME Promised'
        PROVE  OrderInv' /\ AcksAsked'
    <3>1. Promised /\ outMessagesBuffer = {}
      BY <1>1, <1>4, <2>4, <2>6 DEF Promised, BufferIsAttended
    <3>2. OrderInv'
      BY <1>1, <1>2, <1>4, <2>3, <3>1, AcceptedKeepsOrder
    <3>. QED  BY <1>1, <2>2, <2>4, <3>1, <3>2 DEF AcksAsked
  <2>. QED  BY <1>1, <2>5, <2>6
<1>5. CASE /\ phase = "buffering" /\ UNCHANGED toTcp
           /\ outMessagesBuffer' = outMessagesBuffer \cup {outMessagesCounter'}
  <2>1. CommandsSame /\ (Aborted' <=> Aborted)
    BY <1>5 DEF CommandsSame, WriteAt, ResumeAt, Aborted
  <2>2. Numbers'
    BY <1>1, <1>2, <1>3, <1>5, <2>1 DEF Numbers, CommandsSame, EventsSame
  <2>3. ASSUME Promised'
        PROVE  OrderInv' /\ AcksAsked'
    <3>1. Promised /\ outMessagesBuffer # {}
      BY <1>1, <1>5, <2>1, <2>3 DEF Promised, BufferIsAttended
    <3>2. OrderInv'
      BY <1>1, <1>2, <1>5, <2>1, <3>1, BufferedKeepsOrder
    <3>. QED  BY <1>1, <1>5, <3>1, <3>2 DEF AcksAsked
  <2>. QED  BY <1>1, <2>2, <2>3
<1>. QED  BY <1>4, <1>5 DEF LocalMessage

\* The handler takes the event at the head of its mailbox.
LEMMA HeadTaken ==
    ASSUME StreamInv, NEW kind, Handles(kind)
    PROVE  /\ EventTaken
           /\ \A k : FailedAt(1, k) <=> /\ Head(fromTcp).kind = "CommandFailed"
                                        /\ Head(fromTcp).command.kind = "Write"
                                        /\ Head(fromTcp).command.id = k
           /\ \A k : AckAt(1, k) <=> Head(fromTcp).kind = "Ack" /\ Head(fromTcp).id = k
           /\ Head(fromTcp).kind = kind
           /\ Range(fromTcp) = {Head(fromTcp)} \cup Range(fromTcp')
           /\ UNCHANGED <<pending, suspended, written, repeated, open>>
           /\ \A i \in Nat : \A k : FailedAt(i, k)' \/ AckAt(i, k)' => i > 0 /\ k \in 0..outMessagesCounter
           /\ \A k : IsPending(k)' => k \in 0..outMessagesCounter
<1> USE DEF StreamInv, OrderedInv, IInv, HandlerInv
<1>1. fromTcp # <<>> /\ fromTcp' = Tail(fromTcp) /\ Head(fromTcp).kind = kind
  BY DEF Handles
<1>2. /\ EventTaken
      /\ \A k : FailedAt(1, k) <=> /\ Head(fromTcp).kind = "CommandFailed"
                                   /\ Head(fromTcp).command.kind = "Write"
                                   /\ Head(fromTcp).command.id = k
      /\ \A k : AckAt(1, k) <=> Head(fromTcp).kind = "Ack" /\ Head(fromTcp).id = k
  BY <1>1, AnEventTaken
<1>3. Range(fromTcp) = {Head(fromTcp)} \cup Range(fromTcp')
  BY <1>1, TailOf
<1>4. UNCHANGED <<pending, suspended, written, repeated, open>>
  BY DEF Handles, tcpVars
<1>5. \A i \in Nat : \A k : FailedAt(i, k)' \/ AckAt(i, k)' => i > 0 /\ k \in 0..outMessagesCounter
  BY <1>2 DEF EventTaken, Numbers
<1>6. \A k : IsPending(k)' => k \in 0..outMessagesCounter
  BY <1>4 DEF IsPending, Numbers
<1>. QED  BY <1>1, <1>2, <1>3, <1>4, <1>5, <1>6

\* A write that failed is buffered.
LEMMA OrderFailedWrite ==
    ASSUME StreamInv, HandleFailedWrite
    PROVE  OrderedInv'
<1> USE DEF StreamInv, OrderedInv, IInv, HandlerInv
<1>1. PICK x : x = Head(fromTcp).command.id
  OBVIOUS
<1>2. /\ Handles("CommandFailed") /\ Head(fromTcp).command.kind = "Write"
      /\ toTcp' = toTcp \o <<ResumeWriting>>
      /\ outMessagesBuffer' = outMessagesBuffer \cup {x} /\ phase' = "buffering"
      /\ UNCHANGED outMessagesCounter
  BY <1>1 DEF HandleFailedWrite, Command
<1>3. /\ EventTaken /\ FailedAt(1, x)
      /\ Range(fromTcp) = {Head(fromTcp)} \cup Range(fromTcp')
      /\ UNCHANGED <<pending, suspended, written, repeated, open>>
  BY <1>1, <1>2, HeadTaken
<1>4. ResumeAdded(Len(toTcp) + 1)
  BY <1>2, ACommandAdded, Kinds
<1>5. Range(toTcp') = Range(toTcp) \cup {ResumeWriting} /\ (Aborted' <=> Aborted)
  BY <1>2, NoAbortAdded, Kinds
<1>6. Numbers'
  <2>1. x \in 0..outMessagesCounter
    BY <1>3 DEF Numbers
  <2>2. /\ \A i \in Nat : \A k : FailedAt(i, k)' \/ AckAt(i, k)' => i > 0 /\ k \in 0..outMessagesCounter
        /\ \A k : IsPending(k)' => k \in 0..outMessagesCounter
    BY <1>2, HeadTaken
  <2>. QED  BY <1>2, <1>3, <1>4, <2>1, <2>2 DEF Numbers, ResumeAdded
<1>7. ASSUME Promised'
      PROVE  OrderInv' /\ AcksAsked'
  <2>1. Promised
    BY <1>3, <1>5, <1>7 DEF Promised
  <2>2. OrderInv'
    BY <1>2, <1>3, <1>4, <2>1, FailureKeepsOrder
  <2>. QED  BY <1>3, <1>5, <2>1, <2>2, Kinds DEF AcksAsked
<1>. QED  BY <1>2, <1>3, <1>6, <1>7

\* A step that only takes an event which is no failed write.
LEMMA OrderIgnored ==
    ASSUME StreamInv, NEW kind, Handles(kind), Promised => \A k : ~FailedAt(1, k),
           phase' = phase \/ (phase' = "stopped" /\ ~open),
           UNCHANGED <<outVars, toTcp>>
    PROVE  OrderedInv'
<1> USE DEF StreamInv, OrderedInv, IInv, HandlerInv
<1>1. /\ EventTaken
      /\ Range(fromTcp) = {Head(fromTcp)} \cup Range(fromTcp')
      /\ UNCHANGED <<pending, suspended, written, repeated, open>>
      /\ \A i \in Nat : \A k : FailedAt(i, k)' \/ AckAt(i, k)' => i > 0 /\ k \in 0..outMessagesCounter
      /\ \A k : IsPending(k)' => k \in 0..outMessagesCounter
  BY HeadTaken
<1>2. CommandsSame /\ (Aborted' <=> Aborted)
  BY DEF CommandsSame, WriteAt, ResumeAt, Aborted
<1>3. Numbers'
  BY <1>1, <1>2 DEF Numbers, CommandsSame, outVars
<1>4. ASSUME Promised'
      PROVE  OrderInv' /\ AcksAsked'
  <2>1. Promised /\ phase' = phase
    BY <1>1, <1>2, <1>4 DEF Promised
  <2>2. OrderInv'
    BY <1>1, <1>2, <2>1, IgnoredKeepsOrder
  <2>. QED  BY <1>1, <2>1, <2>2 DEF AcksAsked
<1>. QED  BY <1>1, <1>3, <1>4 DEF outVars

\* Other failures are none of a write that the handler has accepted.
LEMMA OrderOtherFailure ==
    ASSUME StreamInv, HandleOtherFailure
    PROVE  OrderedInv'
<1> USE DEF StreamInv, OrderedInv, IInv, HandlerInv
<1>1. /\ Handles("CommandFailed") /\ UNCHANGED <<phase, outVars, toTcp>>
      /\ ~(IsWorking /\ Head(fromTcp).command.kind = "Write" /\ Head(fromTcp).command.ack)
  BY DEF HandleOtherFailure
<1>2. ASSUME Promised, NEW k, FailedAt(1, k)
      PROVE  FALSE
  <2>1. /\ Head(fromTcp).kind = "CommandFailed" /\ Head(fromTcp).command.kind = "Write"
        /\ Head(fromTcp) \in Range(fromTcp)
    BY <1>1, <1>2, HeadTaken
  <2>2. ~IsWorking
    BY <1>1, <1>2, <2>1 DEF AcksAsked
  <2>3. phase = "handshaking"
    BY <1>2, <2>2 DEF IsWorking, Promised
  <2>4. k = 0
    BY <1>2, <2>3 DEF Numbers
  <2>. QED  BY <1>2, <2>4 DEF OrderInv, Handshake, HasFailed
<1>. QED  BY <1>1, <1>2, OrderIgnored

\* An acknowledgement or WritingResumed makes the handler write the first of the buffer.
LEMMA OrderSending ==
    ASSUME StreamInv, NEW kind \in {"Ack", "WritingResumed"}, Handles(kind),
           phase = "buffering", phase' = "buffering",
           outMessagesBuffer' = outMessagesBuffer
             \/ (kind = "Ack" /\ outMessagesBuffer' = outMessagesBuffer \ {Head(fromTcp).id}),
           outMessagesBuffer' # {}, Command(FirstOf(outMessagesBuffer')),
           UNCHANGED outMessagesCounter
    PROVE  OrderedInv'
<1> USE DEF StreamInv, OrderedInv, IInv, HandlerInv
<1>1. /\ EventTaken /\ Head(fromTcp).kind = kind
      /\ \A k : ~FailedAt(1, k)
      /\ \A k : AckAt(1, k) <=> kind = "Ack" /\ Head(fromTcp).id = k
      /\ Range(fromTcp) = {Head(fromTcp)} \cup Range(fromTcp')
      /\ UNCHANGED <<pending, suspended, written, repeated, open>>
      /\ \A i \in Nat : \A k : FailedAt(i, k)' \/ AckAt(i, k)' => i > 0 /\ k \in 0..outMessagesCounter
      /\ \A k : IsPending(k)' => k \in 0..outMessagesCounter
  BY HeadTaken
<1>2. outMessagesBuffer' \subseteq outMessagesBuffer /\ outMessagesBuffer' \subseteq 0..outMessagesCounter
  BY DEF Numbers
<1>3. PICK m \in outMessagesBuffer' : m = Min(outMessagesBuffer') /\ \A o \in outMessagesBuffer' : m <= o
  BY <1>2, MinIsLeast DEF Numbers
<1>4. PICK c : c = Write(m, TRUE)
  OBVIOUS
<1>5. toTcp' = toTcp \o <<c>> /\ c.kind = "Write" /\ c.id = m /\ c.ack
  <2>1. toTcp' = toTcp \o <<c>>
    BY <1>3, <1>4 DEF Command, FirstOf
  <2>. QED  BY <1>4, <2>1 DEF Write
<1>6. WriteAdded(m, Len(toTcp) + 1)
  BY <1>5, ACommandAdded
<1>7. Range(toTcp') = Range(toTcp) \cup {c} /\ (Aborted' <=> Aborted)
  BY <1>5, NoAbortAdded
<1>8. Numbers'
  BY <1>1, <1>2, <1>3, <1>6 DEF Numbers, WriteAdded
<1>9. ASSUME Promised'
      PROVE  OrderInv' /\ AcksAsked'
  <2>1. Promised /\ OrderInv /\ AcksAsked
    BY <1>1, <1>7, <1>9 DEF Promised
  <2>2. ASSUME outMessagesBuffer' = outMessagesBuffer
        PROVE  OrderInv'
    <3>1. m \in outMessagesBuffer /\ \A o \in outMessagesBuffer : m <= o
      BY <1>3, <2>2
    <3>. QED  BY <1>1, <1>6, <2>1, <2>2, <3>1, SendingKeepsOrder DEF outVars
  <2>3. ASSUME outMessagesBuffer' # outMessagesBuffer
        PROVE  OrderInv'
    <3>1. PICK y : y = Head(fromTcp).id
      OBVIOUS
    <3>2. y \in outMessagesBuffer /\ AckAt(1, y) /\ outMessagesBuffer' = outMessagesBuffer \ {y}
      BY <1>1, <2>3, <3>1
    <3>3. Len(toTcp) + 1 \in Nat
      BY <1>6 DEF WriteAdded
    <3>4. \E n \in outMessagesBuffer', q \in Nat :
             WriteAdded(n, q) /\ \A o \in outMessagesBuffer' : n <= o
      BY <1>3, <1>6, <3>3
    <3>. QED  BY <1>1, <2>1, <3>2, <3>4, AckedKeepsOrder
  <2>4. OrderInv'
    BY <2>2, <2>3
  <2>. QED  BY <1>1, <1>5, <1>7, <2>1, <2>4 DEF AcksAsked
<1>. QED  BY <1>1, <1>8, <1>9

\* An Ack starts the next write, or ends buffering.
LEMMA OrderAck ==
    ASSUME StreamInv, HandleAck
    PROVE  OrderedInv'
<1> USE DEF StreamInv, OrderedInv, IInv, HandlerInv
<1>1. Handles("Ack")
  BY DEF HandleAck
<1>2. /\ EventTaken
      /\ \A k : ~FailedAt(1, k)
      /\ \A k : AckAt(1, k) <=> Head(fromTcp).id = k
      /\ Range(fromTcp) = {Head(fromTcp)} \cup Range(fromTcp')
      /\ UNCHANGED <<pending, suspended, written, repeated, open>>
      /\ \A i \in Nat : \A k : FailedAt(i, k)' \/ AckAt(i, k)' => i > 0 /\ k \in 0..outMessagesCounter
      /\ \A k : IsPending(k)' => k \in 0..outMessagesCounter
  BY <1>1, HeadTaken
<1>3. CASE UNCHANGED <<phase, outVars, toTcp>>
  BY <1>1, <1>2, <1>3, OrderIgnored
<1>4. CASE /\ phase = "buffering"
           /\ outMessagesBuffer' = outMessagesBuffer \ {Head(fromTcp).id}
           /\ Command(FirstOf(outMessagesBuffer'))
           /\ phase' = IF outMessagesBuffer' = {} THEN "writing" ELSE "buffering"
           /\ UNCHANGED outMessagesCounter
  <2>1. CASE outMessagesBuffer' # {}
    BY <1>1, <1>4, <2>1, OrderSending
  <2>2. CASE outMessagesBuffer' = {}
    <3>1. toTcp' = toTcp
      <4>1. toTcp' = toTcp \o <<>>
        BY <1>4, <2>2 DEF Command, FirstOf
      <4>2. PICK S : toTcp \in Seq(S)
        BY DEF IsSeq
      <4>. QED  BY <4>1, <4>2
    <3>2. CommandsSame /\ (Aborted' <=> Aborted)
      BY <3>1 DEF CommandsSame, WriteAt, ResumeAt, Aborted
    <3>3. Numbers'
      BY <1>2, <1>4, <3>2 DEF Numbers, CommandsSame
    <3>4. ASSUME Promised'
          PROVE  OrderInv' /\ AcksAsked'
      <4>1. Promised
        BY <1>2, <3>2, <3>4 DEF Promised
      <4>2. PICK y : y = Head(fromTcp).id
        OBVIOUS
      <4>3. y \in outMessagesBuffer /\ AckAt(1, y) /\ outMessagesBuffer' = outMessagesBuffer \ {y}
        BY <1>2, <1>4, <2>2, <4>1, <4>2 DEF Promised, BufferIsAttended
      <4>4. OrderInv'
        BY <1>2, <1>4, <2>2, <3>2, <4>1, <4>3, AckedKeepsOrder
      <4>. QED  BY <1>2, <3>1, <4>1, <4>4 DEF AcksAsked
    <3>. QED  BY <1>2, <1>4, <2>2, <3>3, <3>4
  <2>. QED  BY <2>1, <2>2
<1>. QED  BY <1>3, <1>4 DEF HandleAck

\* WritingResumed starts the next write.
LEMMA OrderWritingResumed ==
    ASSUME StreamInv, HandleWritingResumed
    PROVE  OrderedInv'
<1> USE DEF StreamInv, OrderedInv, IInv, HandlerInv
<1>1. Handles("WritingResumed") /\ UNCHANGED <<phase, outVars>>
  BY DEF HandleWritingResumed
<1>2. \A k : ~FailedAt(1, k)
  BY <1>1, HeadTaken
<1>3. CASE phase = "buffering" /\ outMessagesBuffer # {}
  <2>1. Command(FirstOf(outMessagesBuffer')) /\ outMessagesBuffer' = outMessagesBuffer
    BY <1>1, <1>3 DEF HandleWritingResumed, outVars
  <2>. QED  BY <1>1, <1>3, <2>1, OrderSending DEF outVars
<1>4. CASE ~(phase = "buffering" /\ outMessagesBuffer # {})
  <2>1. toTcp' = toTcp \o <<>>
    BY <1>4 DEF HandleWritingResumed, Command, FirstOf
  <2>2. PICK S : toTcp \in Seq(S)
    BY DEF IsSeq
  <2>3. toTcp' = toTcp
    BY <2>1, <2>2
  <2>. QED  BY <1>1, <1>2, <2>3, OrderIgnored
<1>. QED  BY <1>3, <1>4

\* The handler stops.
LEMMA OrderConnectionClosed ==
    ASSUME StreamInv, HandleConnectionClosed
    PROVE  OrderedInv'
<1> USE DEF StreamInv, OrderedInv, IInv, HandlerInv
<1>1. Handles("ConnectionClosed") /\ phase' = "stopped" /\ UNCHANGED <<outVars, toTcp>>
  BY DEF HandleConnectionClosed
<1>2. Head(fromTcp).kind = "ConnectionClosed" /\ Head(fromTcp) \in Range(fromTcp)
  BY <1>1, HeadTaken
<1>3. ~open
  BY <1>2
<1>. QED  BY <1>1, <1>3, OrderIgnored DEF Promised

\* Closing ends the promise.
LEMMA OrderCloseConnection ==
    ASSUME StreamInv, CloseConnection
    PROVE  OrderedInv'
<1> USE DEF StreamInv, OrderedInv, IInv, HandlerInv
<1>1. /\ \A i \in Nat : \A k : WriteAt(i, k)' => i > 0 /\ k \in 0..outMessagesCounter
      /\ Aborted'
  BY ClosingWrites
<1>2. UNCHANGED <<phase, outMessagesCounter, outMessagesBuffer, fromTcp, pending, written, repeated>>
  BY DEF CloseConnection, outVars, tcpVars
<1>3. Numbers'
  BY <1>1, <1>2 DEF Numbers, FailedAt, AckAt, IsPending
<1>. QED  BY <1>1, <1>2, <1>3 DEF Promised

-----------------------------------------------------------------------------
(* The stream: the refinement                                              *)

\* The invariant holds at the start.
LEMMA InitOrdered == Init => StreamInv
<1>. SUFFICES ASSUME Init
              PROVE  StreamInv
  OBVIOUS
<1>1. IInv
  BY InitAttended
<1>2. /\ outMessagesCounter = 0 /\ outMessagesBuffer = {} /\ written = {} /\ pending = {}
      /\ ~suspended /\ repeated = FALSE /\ fromTcp = <<>> /\ toTcp = <<Write(0, FALSE)>>
  BY DEF Init
<1>. PICK c : c = Write(0, FALSE)
  OBVIOUS
<1>0. c.kind = "Write" /\ c.id = 0
  BY DEF Write
<1>11. toTcp = <<c>> /\ DOMAIN toTcp = {1} /\ toTcp[1] = c
  BY <1>2
<1>3. \A i \in Nat : \A k : WriteAt(i, k) <=> i = 1 /\ k = 0
  BY <1>0, <1>11 DEF WriteAt
<1>4. \A i \in Nat : ~ResumeAt(i)
  BY <1>0, <1>11 DEF ResumeAt
<1>5. \A i \in Nat : \A k : ~FailedAt(i, k) /\ ~AckAt(i, k)
  BY <1>2 DEF FailedAt, AckAt
<1>6. \A k : ~IsPending(k)
  BY <1>2 DEF IsPending
<1>7. Numbers
  BY <1>2, <1>3, <1>5, <1>6 DEF Numbers
<1>8. Ready(0)
  BY DEF Ready
<1>9. OrderInv
  <2>1. Handshake /\ InOrder /\ Acks
    BY <1>2, <1>3, <1>5, <1>6 DEF Handshake, InOrder, Acks, HasFailed
  <2>2. SentInOrder /\ LastSent
    BY <1>2, <1>3, <1>4, <1>8 DEF SentInOrder, LastSent
  <2>3. BufferReady /\ FailedInOrder
    BY <1>2, <1>5 DEF BufferReady, FailedInOrder
  <2>4. Somewhere
    BY <1>2, <1>3 DEF Somewhere, IsSent
  <2>6. Once
    BY <1>3, <1>5, <1>6 DEF Once, HasFailed
  <2>5. CoveredSent /\ CoveredPending /\ CoveredAcked
    BY <1>2 DEF CoveredSent, CoveredPending, CoveredAcked
  <2>. QED  BY <2>1, <2>2, <2>3, <2>4, <2>5, <2>6 DEF OrderInv
<1>10. AcksAsked
  <2>1. Range(fromTcp) = {} /\ Range(toTcp) = {c}
    BY <1>2, <1>11, ShortOnes
  <2>. QED  BY <1>0, <2>1 DEF AcksAsked
<1>. QED  BY <1>1, <1>2, <1>7, <1>9, <1>10 DEF StreamInv, OrderedInv

\* Every step keeps it.
LEMMA NextOrdered == StreamInv /\ [Next]_vars => StreamInv'
<1>. SUFFICES ASSUME StreamInv, [Next]_vars
              PROVE  OrderedInv'
  BY NextAttended DEF StreamInv
<1>1. CASE UNCHANGED vars
  BY <1>1, OrderSame DEF vars
<1>2. CASE Handle
  BY <1>2, OrderFailedWrite, OrderOtherFailure, OrderAck, OrderWritingResumed, OrderConnectionClosed
     DEF Handle
<1>3. ASSUME NEW n \in 1..StreamEnd, Received(n)
      PROVE  OrderedInv'
  <2>1. phase' = phase \/ (phase = "handshaking" /\ phase' = "writing")
    BY <1>3 DEF Received, ReceivedHandshaking
  <2>. QED  BY <1>3, <2>1, OrderSame DEF Received
<1>4. CASE RequestClose
  BY <1>4, OrderSame DEF RequestClose
<1>. QED  BY <1>1, <1>2, <1>3, <1>4, OrderTcpCommand, OrderTcpFlush, OrderTcpClosed, OrderLocalMessage,
             OrderCloseConnection
          DEF Next

\* A message that goes into the socket is the next one, or one that was written before;
\* when the promise has ended, it is one of those that were accepted.
LEMMA SocketStep ==
    ASSUME StreamInv, NEW m, m \in 0..outMessagesCounter, Promised => Ready(m),
           open, written' = written \cup {m}, repeated' = (repeated \/ m \in written),
           UNCHANGED <<outMessagesCounter, open>>, Aborted' <=> Aborted
    PROVE  Stream!StreamNext
<1>0. repeated \in BOOLEAN /\ outMessagesCounter \in Nat
  BY DEF StreamInv, OrderedInv, Numbers
<1>1. CASE Aborted
  <2>1. Stream!WriteAny
    BY <1>1 DEF Stream!WriteAny
  <2>. QED  BY <2>1 DEF Stream!StreamNext
<1>2. CASE ~Aborted /\ m \in written
  <2>1. Stream!Repeat
    BY <1>2 DEF Stream!Repeat
  <2>. QED  BY <2>1 DEF Stream!StreamNext
<1>3. CASE ~Aborted /\ m \notin written
  <2>1. repeated' = repeated
    BY <1>0, <1>3
  <2>2. repeated \/ \A k \in 0..(m - 1) : k \in written
    BY <1>0, <1>3 DEF Promised, Ready
  <2>3. Stream!WriteNew
    BY <1>3, <2>1, <2>2 DEF Stream!WriteNew
  <2>. QED  BY <2>3 DEF Stream!StreamNext
<1>. QED  BY <1>1, <1>2, <1>3

\* Every step of the handler and its connection is a step of the stream.
LEMMA StreamStep ==
    ASSUME StreamInv, [Next]_vars
    PROVE  [Stream!StreamNext]_(Stream!streamVars)
<1> USE DEF StreamInv, OrderedInv, IInv, HandlerInv
<1>0. ASSUME UNCHANGED <<outMessagesCounter, written, repeated, open>>, Aborted' <=> Aborted
      PROVE  [Stream!StreamNext]_(Stream!streamVars)
  BY <1>0 DEF Stream!streamVars
<1>1. CASE TcpCommand
  <2> DEFINE c == Head(toTcp)
  <2>1. /\ toTcp # <<>> /\ toTcp' = Tail(toTcp) /\ UNCHANGED outMessagesCounter /\ open
    BY <1>1 DEF TcpCommand, outVars
  <2>2. Range(toTcp) = {c} \cup Range(toTcp')
    BY <2>1, TailOf
  <2>3. c.kind # "Abort" => (Aborted' <=> Aborted)
    BY <2>2, Kinds DEF Aborted
  <2>4. CASE c.kind = "Write" /\ UNCHANGED <<written, repeated, open>>
    BY <1>0, <2>1, <2>3, <2>4
  <2>5. CASE c.kind = "Write" /\ ~suspended /\ pending = {} /\ IntoSocket(c) /\ UNCHANGED open
    <3>1. WriteAt(1, c.id)
      BY <2>1, <2>5, ACommandTaken
    <3>2. c.id \in 0..outMessagesCounter
      BY <3>1 DEF Numbers
    <3>3. Promised => Ready(c.id)
      BY <2>5, <3>1, <3>2 DEF OrderInv, SentInOrder, IsPending, Numbers
    <3>. QED  BY <2>1, <2>3, <2>5, <3>2, <3>3, SocketStep DEF IntoSocket
  <2>6. CASE c.kind = "ResumeWriting" /\ TakesResumeWriting
    BY <1>0, <2>1, <2>3, <2>6 DEF TakesResumeWriting
  <2>7. CASE c.kind = "Abort" /\ TakesAbort
    <3>1. open' = FALSE /\ UNCHANGED <<written, repeated>>
      BY <2>7 DEF TakesAbort
    <3>2. CASE Aborted
      BY <2>1, <3>1, <3>2 DEF Stream!streamVars
    <3>3. CASE ~Aborted
      <4>1. Stream!Close
        BY <2>1, <3>1, <3>3 DEF Stream!Close
      <4>. QED  BY <4>1 DEF Stream!StreamNext
    <3>. QED  BY <3>2, <3>3
  <2>. QED  BY <1>1, <2>4, <2>5, <2>6, <2>7 DEF TcpCommand, TakesWrite, tcpVars
<1>2. CASE TcpFlush
  <2>1. PICK v \in pending : IntoSocket(v)
    BY <1>2 DEF TcpFlush
  <2>2. IsPending(v.id)
    BY DEF IsPending
  <2>3. v.id \in 0..outMessagesCounter
    BY <2>2 DEF Numbers
  <2>4. Promised => Ready(v.id)
    BY <2>2, <2>3 DEF OrderInv, InOrder, Numbers
  <2>5. UNCHANGED <<outMessagesCounter, toTcp, open>> /\ open
    BY <1>2 DEF TcpFlush, outVars
  <2>6. Aborted' <=> Aborted
    BY <2>5 DEF Aborted
  <2>. QED  BY <2>1, <2>3, <2>4, <2>5, <2>6, SocketStep DEF IntoSocket
<1>3. CASE TcpClosed \/ CloseConnection
  <2>1. UNCHANGED <<outMessagesCounter, written, repeated>> /\ ~(open /\ ~Aborted)'
    BY <1>3, ClosingWrites DEF TcpClosed, CloseConnection, outVars, tcpVars
  <2>2. CASE open /\ ~Aborted
    <3>1. Stream!Close
      BY <2>1, <2>2 DEF Stream!Close
    <3>. QED  BY <3>1 DEF Stream!StreamNext
  <2>3. CASE ~(open /\ ~Aborted)
    BY <2>1, <2>3 DEF Stream!streamVars
  <2>. QED  BY <2>2, <2>3
<1>4. CASE LocalMessage
  <2>1. outMessagesCounter' = outMessagesCounter + 1 /\ UNCHANGED <<written, repeated, open>>
    BY <1>4 DEF LocalMessage, tcpVars
  <2>2. Aborted' <=> Aborted
    <3>1. CASE UNCHANGED toTcp
      BY <3>1 DEF Aborted
    <3>2. CASE toTcp' = toTcp \o <<Write(outMessagesCounter', TRUE)>>
      BY <3>2, NoAbortAdded, Kinds
    <3>. QED  BY <1>4, <3>1, <3>2 DEF LocalMessage, Command
  <2>3. Stream!Accept
    BY <2>1, <2>2 DEF Stream!Accept
  <2>. QED  BY <2>3 DEF Stream!StreamNext
<1>5. CASE Handle
  <2>1. UNCHANGED <<outMessagesCounter, written, repeated, open>>
    BY <1>5 DEF Handle, HandleFailedWrite, HandleOtherFailure, HandleAck, HandleWritingResumed,
                HandleConnectionClosed, Handles, outVars, tcpVars
  <2>2. \/ UNCHANGED toTcp
        \/ toTcp' = toTcp \o <<>>
        \/ toTcp' = toTcp \o <<ResumeWriting>>
        \/ \E id : toTcp' = toTcp \o <<Write(id, TRUE)>>
    BY <1>5 DEF Handle, HandleFailedWrite, HandleOtherFailure, HandleAck, HandleWritingResumed,
                HandleConnectionClosed, Command, FirstOf
  <2>3. Aborted' <=> Aborted
    <3>1. CASE UNCHANGED toTcp
      BY <3>1 DEF Aborted
    <3>2. CASE toTcp' = toTcp \o <<>>
      BY <3>2, ConcatOf, ShortOnes DEF Aborted
    <3>3. CASE toTcp' = toTcp \o <<ResumeWriting>>
      BY <3>3, NoAbortAdded, Kinds
    <3>4. ASSUME NEW id, toTcp' = toTcp \o <<Write(id, TRUE)>>
          PROVE  Aborted' <=> Aborted
      BY <3>4, NoAbortAdded, Kinds
    <3>. QED  BY <2>2, <3>1, <3>2, <3>3, <3>4
  <2>. QED  BY <1>0, <2>1, <2>3
<1>6. CASE RequestClose \/ (\E n \in 1..StreamEnd : Received(n)) \/ UNCHANGED vars
  <2>1. UNCHANGED <<outMessagesCounter, toTcp, written, repeated, open>>
    BY <1>6 DEF RequestClose, Received, vars, outVars, tcpVars
  <2>. QED  BY <1>0, <2>1 DEF Aborted
<1>. QED  BY <1>1, <1>2, <1>3, <1>4, <1>5, <1>6 DEF Next

\* Whatever the connection refuses, suspends, resumes and acknowledges, what reaches the
\* socket is what the handler accepted, in order and without a gap until a message is
\* written for the second time: every step of PeerConnectionHandler and its connection is
\* a step of MessageStream, or none (localInterfaceWriting, localInterfaceBuffering and
\* closeConnection).
THEOREM StreamAlwaysSafe == Spec => Stream!StreamSafety
<1>1. Init => Stream!StreamInit
  <2>1. Init => ~Aborted
    <3>1. PICK c : c = Write(0, FALSE)
      OBVIOUS
    <3>2. Range(<<c>>) = {c} /\ Abort # c
      <4>1. c.kind = "Write"
        BY <3>1 DEF Write
      <4>. QED  BY <4>1, ShortOnes, Kinds
    <3>. QED  BY <3>1, <3>2 DEF Init, Aborted
  <2>. QED  BY <2>1 DEF Init, Stream!StreamInit
<1>2. StreamInv /\ [Next]_vars => [Stream!StreamNext]_(Stream!streamVars)
  BY StreamStep
<1>. QED  BY <1>1, <1>2, InitOrdered, NextOrdered, PTL DEF Spec, Stream!StreamSafety

=============================================================================
