--------------------------- MODULE MessageStream ---------------------------
(***************************************************************************)
(* What a connection promises to the node that sends through it: messages  *)
(* are numbered in the order in which they are accepted, and each of them  *)
(* reaches the socket unless the connection is closed first.  Message 0 is *)
(* the handshake, which every connection starts with.                      *)
(*                                                                         *)
(* The messages reach the socket in order, none left out, as long as none  *)
(* was written twice.  The order is not promised any more when a message   *)
(* has been repeated: the acknowledgement of the repetition may let a      *)
(* message overtake another whose write has failed.                        *)
(***************************************************************************)
EXTENDS Integers

VARIABLES
    accepted,       \* number of the last message accepted
    written,        \* the messages written
    repeated,       \* a message was written more than once
    open            \* the connection is not being closed

streamVars == <<accepted, written, repeated, open>>

StreamInit == accepted = 0 /\ written = {} /\ repeated = FALSE /\ open = TRUE

\* The sender need not know yet that the connection is closed.
Accept ==
    /\ accepted' = accepted + 1
    /\ UNCHANGED <<written, repeated, open>>

\* A message is written for the first time: the next one, unless one was repeated.
WriteNew ==
    /\ open
    /\ \E m \in (0..accepted) \ written :
          /\ repeated \/ \A k \in 0..(m - 1) : k \in written
          /\ written' = written \cup {m}
    /\ UNCHANGED <<accepted, repeated, open>>

Repeat ==
    /\ open
    /\ written # {}
    /\ repeated' = TRUE
    /\ UNCHANGED <<accepted, written, open>>

Close ==
    /\ open
    /\ open' = FALSE
    /\ UNCHANGED <<accepted, written, repeated>>

\* Last words: after the promise has ended, any of the messages may still be written.
WriteAny ==
    /\ ~open
    /\ \E m \in 0..accepted : written' = written \cup {m} /\ repeated' = (repeated \/ m \in written)
    /\ UNCHANGED <<accepted, open>>

StreamNext == Accept \/ WriteNew \/ Repeat \/ Close \/ WriteAny

StreamSafety == StreamInit /\ [][StreamNext]_streamVars

\* As long as the connection is open, what was accepted is on its way.
StreamSpec == StreamSafety /\ WF_streamVars(WriteNew)

=============================================================================
