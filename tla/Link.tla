---------------------------------- MODULE Link ----------------------------------
(* What a Transport promises to the sessions on both sides of a connection         *)
(* (transport.hpp): the events that it hands out, poll after poll, and what they   *)
(* have to do with what was sent at the other end.  A handle is an end of a        *)
(* connection.  Messages of a lane that the transport took are numbered by their   *)
(* sender.                                                                         *)
EXTENDS Integers, Sequences

CONSTANTS
  Handles,         \* the ends of all connections
  Peer(_),         \* the other end
  Reliable,        \* streams that keep everything in order
  Unreliable,      \* streams that may lose and reorder
  Prompt           \* whether the word that a connection is there comes before its messages

VARIABLES
  sent,            \* how many messages went into each stream at each end
  got              \* the events that each end was handed

linkVars == <<sent, got>>
Streams == Reliable \cup Unreliable

\* An event: what it is and, of a message, its stream and number.
Event(kind) == [kind |-> kind, stream |-> "none", number |-> 0]
Message(stream, number) == [kind |-> "message", stream |-> stream, number |-> number]

\* Is this a message of the stream?
Of(event, stream) == event.kind = "message" /\ event.stream = stream

\* Every message comes after all that were sent before it, and none of them twice.
InOrder(events, stream) ==
  \A i \in DOMAIN events : Of(events[i], stream) =>
    /\ \A n \in 1 .. events[i].number - 1 :
         \E j \in 1 .. i - 1 : Of(events[j], stream) /\ events[j].number = n
    /\ \A j \in 1 .. i - 1 : Of(events[j], stream) => events[j].number < events[i].number

\* The word that a connection is there comes once, if it does, and where the transport is prompt
\* before any message; the word that it is gone comes last.  Before that come messages that were
\* sent, those of a reliable stream without a gap and in order.
Fits(events, sentThere) ==
  /\ \A i \in DOMAIN events :
       /\ events[i].kind = "connected" => \A j \in 1 .. i - 1 : events[j].kind = "message"
       /\ events[i].kind = "disconnected" => i = Len(events)
       /\ Prompt /\ events[i].kind = "message" => events[1].kind = "connected"
       /\ \A s \in Streams : Of(events[i], s) => events[i].number \in 1 .. sentThere[s]
  /\ \A s \in Reliable : InOrder(events, s)

Continues(now, before) == \A i \in DOMAIN before : i \in DOMAIN now /\ now[i] = before[i]

LinkInit ==
  /\ sent = [h \in Handles |-> [s \in Streams |-> 0]]
  /\ got = [h \in Handles |-> <<>>]

Say ==
  /\ \E h \in Handles, s \in Streams : sent' = [sent EXCEPT ![h][s] = @ + 1]
  /\ UNCHANGED got

\* A poll of an endpoint, with what it has for all the connections it owns.
Hand ==
  /\ \A h \in Handles : Continues(got'[h], got[h]) /\ Fits(got'[h], sent[Peer(h)])
  /\ UNCHANGED sent

LinkSpec == LinkInit /\ [][Say \/ Hand]_linkVars
=================================================================================
