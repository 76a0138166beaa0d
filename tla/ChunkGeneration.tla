--------------------------- MODULE ChunkGeneration ---------------------------
(***************************************************************************)
(* What a pool of chunk workers promises its one caller, the tick thread:  *)
(* a submitted coordinate that is neither queued nor in flight is queued,  *)
(* queued coordinates are generated in order by at most MaxInFlight        *)
(* workers at a time, and every generated chunk is handed out exactly once *)
(* by the poll that follows.  WorldGenPool implements this module at the   *)
(* level of its mutex and condition variable; ChunkLifecycle builds on it. *)
(***************************************************************************)
EXTENDS Naturals, Sequences, FiniteSets, SequencesExt

CONSTANTS
  Coords,        \* the chunk coordinates that can be asked for
  MaxInFlight    \* number of worker threads; 0 is the synchronous pool

ASSUME ChunkGenerationAssumption == MaxInFlight \in Nat

VARIABLES
  queue,         \* coordinates waiting for a worker, oldest first
  in_flight,     \* coordinates a worker is generating
  completed      \* coordinates generated and not yet polled, oldest first

genVars == <<queue, in_flight, completed>>

GenInit == queue = <<>> /\ in_flight = {} /\ completed = <<>>

Pending(c) == c \in in_flight \/ c \in ToSet(queue)

\* Submit the coordinates of the sequence cs, none of them pending, one after
\* the other.  The synchronous pool generates each one on the spot.
SubmitAll(cs) ==
  /\ IF MaxInFlight = 0
     THEN completed' = completed \o cs /\ UNCHANGED queue
     ELSE queue' = queue \o cs /\ UNCHANGED completed
  /\ UNCHANGED in_flight

Submit(c) == ~Pending(c) /\ SubmitAll(<<c>>)

\* A worker takes the oldest coordinate.
Take ==
  /\ queue # <<>>
  /\ Cardinality(in_flight) < MaxInFlight
  /\ in_flight' = in_flight \union {Head(queue)}
  /\ queue' = Tail(queue)
  /\ UNCHANGED completed

\* A worker publishes the chunk it generated.
Finish(c) ==
  /\ c \in in_flight
  /\ in_flight' = in_flight \ {c}
  /\ completed' = Append(completed, c)
  /\ UNCHANGED queue

Poll == completed' = <<>> /\ UNCHANGED <<queue, in_flight>>

GenNext ==
  \/ \E c \in Coords : Submit(c) \/ Finish(c)
  \/ Take
  \/ Poll

GenSpec == GenInit /\ [][GenNext]_genVars
=============================================================================
