-------------------------------- MODULE Loopback --------------------------------
(* LoopbackTransport: the sessions of one process over a Hub, with a link per      *)
(* connection and a queue in each direction (singleplayer's IntegratedGame, and    *)
(* the tests).  What a link was closed for stays in its queues.                    *)
EXTENDS Integers, Sequences, FiniteSetsExt

CONSTANTS
  Clients,         \* the client endpoints, each with a connection of its own
  MaxSent          \* bound: messages sent

VARIABLES
  listening,       \* Hub::listening
  links,           \* the connections in Hub::links
  toServer, toClient,   \* the queues of each
  closed,          \* those that are closed
  sent, got        \* see Link

Handles == Clients \X {"client", "server"}
Peer(h) == <<h[1], IF h[2] = "client" THEN "server" ELSE "client">>

\* All lanes share the queues, so every one of them is reliable.
Reliable == {"bulk", "datagrams"}
Unreliable == {}

L == INSTANCE Link WITH Prompt <- TRUE

vars == <<listening, links, toServer, toClient, closed, sent, got>>

Init ==
  /\ listening = FALSE /\ links = {}
  /\ toServer = [c \in Clients |-> <<>>] /\ toClient = [c \in Clients |-> <<>>]
  /\ closed = {}
  /\ L!LinkInit

\* A second time, this is refused.
Listen == ~listening /\ listening' = TRUE
          /\ UNCHANGED <<links, toServer, toClient, closed, sent, got>>

Connect(c) ==
  /\ listening /\ c \notin links
  /\ links' = links \cup {c}
  /\ toClient' = [toClient EXCEPT ![c] = <<L!Event("connected")>>]
  /\ toServer' = [toServer EXCEPT ![c] = <<L!Event("connected")>>]
  /\ UNCHANGED <<listening, closed, sent, got>>

\* (mutant) a closed link still takes messages
Open_found(c) == c \in links

\* A link that takes messages.
Open(c) == c \in links /\ c \notin closed

Send(h, stream) ==
  LET c == h[1]
      message == L!Message(stream, sent[h][stream] + 1)
  IN  /\ Open(c)
      /\ FoldSet(LAMBDA m, n : sent[m[1]][m[2]] + n, 0, Handles \X L!Streams) < MaxSent
      /\ sent' = [sent EXCEPT ![h][stream] = @ + 1]
      /\ IF h[2] = "server"
         THEN toClient' = [toClient EXCEPT ![c] = Append(@, message)] /\ UNCHANGED toServer
         ELSE toServer' = [toServer EXCEPT ![c] = Append(@, message)] /\ UNCHANGED toClient
      /\ UNCHANGED <<listening, links, closed, got>>

\* Either side closes: both are told, after what is in their queues.
Close(c) ==
  /\ Open(c)
  /\ closed' = closed \cup {c}
  /\ toServer' = [toServer EXCEPT ![c] = Append(@, L!Event("disconnected"))]
  /\ toClient' = [toClient EXCEPT ![c] = Append(@, L!Event("disconnected"))]
  /\ UNCHANGED <<listening, links, sent, got>>

PollServer ==
  /\ got' = [h \in Handles |-> IF h[2] = "server" THEN got[h] \o toServer[h[1]] ELSE got[h]]
  /\ toServer' = [c \in Clients |-> <<>>]
  /\ UNCHANGED <<listening, links, toClient, closed, sent>>

PollClient(c) ==
  /\ got' = [got EXCEPT ![<<c, "client">>] = @ \o toClient[c]]
  /\ toClient' = [toClient EXCEPT ![c] = <<>>]
  /\ UNCHANGED <<listening, links, toServer, closed, sent>>

Next ==
  \/ Listen \/ PollServer
  \/ \E c \in Clients : Connect(c) \/ Close(c) \/ PollClient(c)
  \/ \E h \in Handles, s \in L!Streams : Send(h, s)

Spec == Init /\ [][Next]_vars

-----------------------------------------------------------------------------
\* The in-process transport keeps the promise of Transport, and says that a connection is there
\* before it hands out a message of it (loopback.cpp).
ImplementsLink == L!LinkSpec
=================================================================================
