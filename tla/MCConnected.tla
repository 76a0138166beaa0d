------------------------------ MODULE MCConnected ------------------------------
(* Between the disk of a server and who is connected to it, for TLC: chunks that are *)
(* saved while the disk and the server fail (ChunkLifecycle), the transports         *)
(* (GnsTransport, Loopback), and the automation channel of a development build       *)
(* (Automation).  They have no state in common here, so one run checks them side by  *)
(* side: `which` says, from the start, which of them runs; the others stay as they   *)
(* are.                                                                              *)
EXTENDS ChunkLifecycle

CONSTANTS c1, Players, Server, Guests, MaxSent, Together, MaxClients, MaxRequests, MaxFrames, None

VARIABLES
  which,
  alive, gnsListening, owned, owner, gnsPending, polling, lib, callbacks, wire, gnsSent, gnsGot,
  listening, links, toServer, toClient, closed, sent, got,
  tcp, manual, attached, present, stream, line, channelQueue, eof, pc, batch, sawEof, idle, waits,
  steps, tasks, playing, quit_, asked, answers, swallowed, frames

\* The constants are of two chunks of one region file, and any that a player may want, edit and
\* leave while the server crashes, a file is torn or cannot be opened.
AnyView == SUBSET Coords
OneRegion == [c \in Coords |-> c1]

\* Players over the network, whose transports are in the server's process as in a test, or each
\* in its own; guests in the server's process.
Gns == INSTANCE GnsTransport
  WITH Clients <- Players,
       listening <- gnsListening, pending <- gnsPending, sent <- gnsSent, got <- gnsGot
Loop == INSTANCE Loopback WITH Clients <- Guests
Channel == INSTANCE Automation WITH queue <- channelQueue

ASSUME ConnectedConstants ==
  /\ Channel!AutomationBounds
  /\ Together \in BOOLEAN
  /\ Server \notin Players /\ None \notin Players \cup {Server}

gnsVars == <<alive, gnsListening, owned, owner, gnsPending, polling, lib, callbacks, wire, gnsSent,
             gnsGot>>
loopVars == <<listening, links, toServer, toClient, closed, sent, got>>
channelVars == <<tcp, manual, attached, present, stream, line, channelQueue, eof, pc, batch, sawEof,
                 idle, waits, steps, tasks, playing, quit_, asked, answers, swallowed, frames>>
allVars == <<which, vars, gnsVars, loopVars, channelVars>>

\* Where a part starts in one of several states, the others' runs take one of them.
RunInit ==
  /\ which \in {"saved", "gns", "loop", "channel"}
  /\ Init /\ Gns!Init /\ Loop!Init /\ Channel!Init
  /\ which # "channel" => tcp /\ manual

Only(one, action) ==
  /\ which = one /\ action
  /\ one # "saved" => UNCHANGED vars
  /\ one # "gns" => UNCHANGED gnsVars
  /\ one # "loop" => UNCHANGED loopVars
  /\ one # "channel" => UNCHANGED channelVars

RunNext ==
  /\ UNCHANGED which
  /\ \/ Only("saved", Next)
     \/ Only("gns", Gns!Next)
     \/ Only("loop", Loop!Next)
     \/ Only("channel", Channel!Next)

\* Each part's own fairness.
RunFairness ==
  /\ \A e \in Gns!Ends : SF_gnsVars(which = "gns" /\ Gns!Poll(e))
  /\ \A h \in Gns!Handles : WF_gnsVars(which = "gns" /\ Gns!ClosedThere(h))
  /\ WF_channelVars(which = "channel" /\ Channel!Loop)
  /\ WF_channelVars(which = "channel" /\ Channel!Read)
  /\ WF_channelVars(which = "channel" /\ Channel!Expire)

RunSpec == RunInit /\ [][RunNext]_allVars /\ RunFairness

-----------------------------------------------------------------------------
\* The types of all of them.
TypesOK ==
  /\ which = "saved" => TypeOK
  /\ which = "gns" => Gns!TypeOK
  /\ which = "channel" => Channel!TypeOK

\* Both transports keep the promise of the interface, the one in the process promptly
\* (transport.hpp, gns_transport.cpp, loopback.cpp).
LinksHold == Gns!ImplementsLink /\ Loop!ImplementsLink

\* A request of a harness is in one place until it is answered, and under the manual clock just
\* the frames asked for are run (Host::pump, Host::frame_done).
RequestsAreExact == which = "channel" => Channel!NoRequestLost /\ Channel!StepsAreExact

\* What was begun gets done: over the network whoever was told of a connection is told of its
\* end, and every request of a harness is answered, unless the program ends (GnsTransport,
\* Host::pump).
ThingsGetDone == /\ (which = "gns" => Gns!EndIsTold)
                 /\ (which = "channel" => Channel!RequestsAreAnswered)
================================================================================
