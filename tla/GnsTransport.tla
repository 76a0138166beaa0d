------------------------------ MODULE GnsTransport ------------------------------
(* GnsTransport: sessions over GameNetworkingSockets, which has one interface and  *)
(* one status callback per process.  GnsRuntime finds the transport a callback is  *)
(* for, poll() runs the callbacks and then collects the messages.  The library     *)
(* itself (external: connections, what travels, its queue of callbacks) has a      *)
(* thread of its own and works between any two steps, those of a poll too.  A      *)
(* server, and clients that connect to it once each.                               *)
EXTENDS Integers, Sequences, FiniteSetsExt

CONSTANTS
  Clients,         \* the client endpoints, each with a connection of its own
  Server,          \* the server endpoint
  None,            \* no endpoint
  Together,        \* whether all are in one process, on one thread
  MaxSent          \* bound: messages sent

VARIABLES
  alive,           \* the transports that are not destroyed
  listening,       \* the server has a listen socket
  owned,           \* Impl::owned_conns of each endpoint
  owner,           \* GnsRuntime::conn_owners_
  pending,         \* Impl::pending: the events of each handle
  polling,         \* the endpoints between the halves of their poll
  lib,             \* the library's state of each handle
  callbacks,       \* status changes that wait for RunCallbacks
  wire,            \* messages on their way to each handle, or there and not yet received
  sent, got        \* see Link

Ends == Clients \cup {Server}
Handles == Clients \X {"client", "server"}
Peer(h) == <<h[1], IF h[2] = "client" THEN "server" ELSE "client">>
EndOf(h) == IF h[2] = "client" THEN h[1] ELSE Server

\* Lanes of the protocol in one stream keep their order (gns_lane_index, send_mode_for_lane).
Reliable == {"bulk", "feedback"}
Unreliable == {"datagrams"}

\* A message can be collected by the poll whose callbacks were run before its connection's was
\* there; the session that gets it does not know the connection yet and drops it.
L == INSTANCE Link WITH Prompt <- FALSE

implVars == <<alive, listening, owned, owner, pending, polling>>
vars == <<implVars, lib, callbacks, wire, sent, got>>

Init ==
  /\ alive = Ends /\ listening = FALSE
  /\ owned = [e \in Ends |-> {}] /\ owner = [h \in Handles |-> None]
  /\ pending = [h \in Handles |-> <<>>] /\ polling = {}
  /\ lib = [h \in Handles |-> "none"] /\ callbacks = {}
  /\ wire = [h \in Handles |-> [s \in L!Streams |-> {}]]
  /\ L!LinkInit

\* An endpoint does nothing else while it polls, and neither do the others on its thread.
Free(e) == e \in alive /\ IF Together THEN polling = {} ELSE e \notin polling

-----------------------------------------------------------------------------
(* The library.                                                                *)

Notify(h, state) ==
  /\ lib' = [lib EXCEPT ![h] = state]
  /\ callbacks' = callbacks \cup {[of |-> h, state |-> state]}
  /\ UNCHANGED <<implVars, wire, sent, got>>

\* A request to connect comes to a listen socket; the answer comes back; a connection is closed
\* at its other end, or breaks down, or never comes to be.
Asked(h) == h[2] = "server" /\ listening /\ lib[h] = "none" /\ lib[Peer(h)] = "connecting"
            /\ Notify(h, "connecting")
Answered(h) == h[2] = "client" /\ lib[h] = "connecting" /\ lib[Peer(h)] = "connected"
               /\ Notify(h, "connected")
ClosedThere(h) == lib[h] = "connected" /\ lib[Peer(h)] = "gone" /\ Notify(h, "closedByPeer")
BreaksDown(h) == lib[h] = "connected" /\ Notify(h, "problem")
NoAnswer(h) == h[2] = "client" /\ lib[h] = "connecting" /\ lib[Peer(h)] # "connected"
               /\ Notify(h, "problem")

Library ==
  \E h \in Handles : Asked(h) \/ Answered(h) \/ ClosedThere(h) \/ BreaksDown(h) \/ NoAnswer(h)

\* CloseConnection, without linger: what was not received is gone.
Closed(libs, hs) == [h \in Handles |-> IF h \in hs THEN "gone" ELSE libs[h]]

-----------------------------------------------------------------------------
(* A transport.                                                                *)

Listen ==
  /\ Free(Server) /\ ~listening
  /\ listening' = TRUE
  /\ UNCHANGED <<alive, owned, owner, pending, polling, lib, callbacks, wire, sent, got>>

Connect(c) ==
  LET h == <<c, "client">>
  IN  /\ Free(c) /\ lib[h] = "none"
      /\ lib' = [lib EXCEPT ![h] = "connecting"]
      /\ owned' = [owned EXCEPT ![c] = @ \cup {h}]
      /\ owner' = [owner EXCEPT ![h] = c]
      /\ UNCHANGED <<alive, listening, pending, polling, callbacks, wire, sent, got>>

WasTold(h, kind) == \E i \in DOMAIN got[h] : got[h][i].kind = kind

\* A session sends on a connection that it was told of, and may do so after the end; the library
\* takes nothing then.  Nor does it when its buffer is full, which is logged and changes nothing.
Send(h, stream) ==
  /\ Free(EndOf(h)) /\ WasTold(h, "connected") /\ lib[h] = "connected"
  /\ FoldSet(LAMBDA m, n : sent[m[1]][m[2]] + n, 0, Handles \X L!Streams) < MaxSent
  /\ sent' = [sent EXCEPT ![h][stream] = @ + 1]
  /\ wire' = [wire EXCEPT ![Peer(h)][stream] = @ \cup {sent'[h][stream]}]
  /\ UNCHANGED <<implVars, lib, callbacks, got>>

\* (mutant) the connection stays registered when it is closed here
Forgotten_registered(owners, hs) == owners

\* The registry without the connections that were closed.
Forgotten(owners, hs) == [h \in Handles |-> IF h \in hs THEN None ELSE owners[h]]

\* (mutant) the library is trusted to report a close to the side that closed
Synthesized_none(h) == <<>>

\* What this side is told of its own close: the library tells only the other one.
Synthesized(h) == <<L!Event("disconnected")>>

Close(h) ==
  LET e == EndOf(h)
  IN  /\ Free(e) /\ h \in owned[e]
      /\ lib' = Closed(lib, {h})
      /\ owner' = Forgotten(owner, {h})
      /\ owned' = [owned EXCEPT ![e] = @ \ {h}]
      /\ pending' = [pending EXCEPT ![h] = @ \o Synthesized(h)]
      /\ UNCHANGED <<alive, listening, polling, callbacks, wire, sent, got>>

\* The destructor hands out nothing more; the last one in a process ends the library.
Destroy(e) ==
  /\ Free(e)
  /\ alive' = alive \ {e}
  /\ lib' = Closed(lib, owned[e])
  /\ owner' = Forgotten(owner, owned[e])
  /\ owned' = [owned EXCEPT ![e] = {}]
  /\ pending' = [h \in Handles |-> IF EndOf(h) = e THEN <<>> ELSE pending[h]]
  /\ listening' = (listening /\ e # Server)
  /\ callbacks' = IF Together /\ alive' # {} THEN callbacks
                  ELSE {cb \in callbacks : ~Together /\ EndOf(cb.of) # e}
  /\ UNCHANGED <<polling, wire, sent, got>>

\* The connections, of those that a poll of e runs callbacks for, that have this one.
Has(e, state) ==
  {h \in Handles : [of |-> h, state |-> state] \in callbacks /\ (Together \/ EndOf(h) = e)}

\* on_status_changed, for all of them: one that comes to a listen socket is accepted, or not; one
\* that is ours is there, and (afterwards, if both are told) gone.
Ours(hs) == {h \in hs : owner[h] # None}
Told(e) == Ours(Has(e, "connected"))
Ended(e) == Ours(Has(e, "closedByPeer") \cup Has(e, "problem"))
Status(e, h) ==
  (IF h \in Told(e) THEN <<L!Event("connected")>> ELSE <<>>)
    \o (IF h \in Ended(e) THEN <<L!Event("disconnected")>> ELSE <<>>)

\* The first half of poll: the callbacks that are there, of all transports in the process, and
\* then what is pending for this one.  What they cause waits for the next poll.
RunCallbacks(e) ==
  LET asking == Has(e, "connecting")
  IN  /\ Free(e) /\ polling' = polling \cup {e}
      /\ \E accepted \in {{}, IF listening THEN asking ELSE {}} :
           /\ lib' = [h \in Handles |-> IF h \in accepted THEN "connected"
                                        ELSE IF h \in asking \cup Ended(e) THEN "gone" ELSE lib[h]]
           /\ owner' = [h \in Handles |-> IF h \in accepted THEN Server
                                          ELSE IF h \in Ended(e) THEN None ELSE owner[h]]
           /\ owned' = [d \in Ends |-> (owned[d] \ Ended(e))
                                         \cup (IF d = Server THEN accepted ELSE {})]
           /\ callbacks' = {cb \in callbacks : ~Together /\ EndOf(cb.of) # e}
                             \cup {[of |-> h, state |-> "connected"] : h \in accepted}
      /\ LET told(h) == pending[h] \o Status(e, h)
         IN  /\ got' = [h \in Handles |-> IF EndOf(h) = e THEN got[h] \o told(h) ELSE got[h]]
             /\ pending' = [h \in Handles |-> IF EndOf(h) = e THEN <<>> ELSE told(h)]
      /\ UNCHANGED <<alive, listening, wire, sent>>

\* (mutant) connections that are closed are asked too
Readable_any(e) == {h \in Handles : EndOf(h) = e /\ lib[h] \notin {"none", "connecting"}}

\* The connections that poll asks for messages, of those that have been made.  (What is there of
\* one that breaks down meanwhile might as well have been collected before.)
Readable(e) == {h \in owned[e] : lib[h] \in {"connected", "closedByPeer"}}

\* The second half: the messages that have arrived, one after the other.  A stream gets to
\* wherever it gets; a datagram may be lost or overtaken.
Receive(h, stream) ==
  /\ EndOf(h) \in polling /\ h \in Readable(EndOf(h))
  /\ \E n \in wire[h][stream] :
       /\ stream \in Reliable => \A m \in wire[h][stream] : n <= m
       /\ got' = [got EXCEPT ![h] = Append(@, L!Message(stream, n))]
       /\ wire' = [wire EXCEPT ![h][stream] = @ \ {n}]
  /\ UNCHANGED <<implVars, lib, callbacks, sent>>

Polled(e) ==
  /\ e \in polling /\ polling' = polling \ {e}
  /\ UNCHANGED <<alive, listening, owned, owner, pending, lib, callbacks, wire, sent, got>>

Poll(e) ==
  \/ RunCallbacks(e) \/ Polled(e)
  \/ \E h \in Handles, s \in L!Streams : EndOf(h) = e /\ Receive(h, s)

Next ==
  \/ Library \/ Listen
  \/ \E c \in Clients : Connect(c)
  \/ \E h \in Handles : Close(h) \/ \E s \in L!Streams : Send(h, s)
  \/ \E e \in Ends : Poll(e) \/ Destroy(e)

\* Every transport that is there is polled (once per tick or frame), and the library gets a
\* close or a breakdown through.
Fairness ==
  /\ \A e \in Ends : SF_vars(Poll(e))
  /\ \A h \in Handles : WF_vars(ClosedThere(h))

Spec == Init /\ [][Next]_vars /\ Fairness

-----------------------------------------------------------------------------
TypeOK ==
  /\ \A e \in Ends : owned[e] \subseteq {h \in Handles : EndOf(h) = e}
  /\ \A h \in Handles : owner[h] \in {None, EndOf(h)}
  /\ \A h \in Handles : (owner[h] # None) <=> (h \in owned[EndOf(h)])
  /\ polling \subseteq alive

\* A transport over GameNetworkingSockets keeps the promise of Transport, however closing at
\* both ends, the library, callbacks and polls interleave (GnsTransport::poll,
\* on_status_changed, close).  It is not prompt.
ImplementsLink == L!LinkSpec

\* Whoever was told of a connection is told of its end, once either side closes it, as long as
\* its transport is there (transport.hpp:103).
EndIsTold ==
  \A h \in Handles :
    (got[h] # <<>> /\ "gone" \in {lib[h], lib[Peer(h)]})
      ~> (WasTold(h, "disconnected") \/ EndOf(h) \notin alive)
=================================================================================
