---------------------------- MODULE WorldGenPool ----------------------------
(***************************************************************************)
(* WorldGenWorkerPool at the grain of its mutex and condition variable.    *)
(* A worker is at one of                                                   *)
(*   "ready"       at the head of worker_loop, wanting the mutex           *)
(*   "blocking"    found nothing to do, still holds the mutex, is about to *)
(*                 enter the wait                                          *)
(*   "waiting"     blocked in cv_.wait, mutex released                     *)
(*   "generating"  runs the generator, outside the mutex                   *)
(*   "exited"      returned from worker_loop                               *)
(* The tick thread owns the pool: it submits, polls and finally destroys.  *)
(* Its own position is `owner`.  ChunkMeshWorkerPool has the same code.    *)
(***************************************************************************)
EXTENDS Naturals, Sequences, FiniteSets, SequencesExt

CONSTANTS
  Coords,        \* chunk coordinates
  Workers,       \* worker threads, at least one (the synchronous pool has none)
  None,          \* the coordinate of a worker that holds none
  MaxCompleted   \* bound: the owner does not submit beyond this many unpolled chunks

ASSUME WorldGenPoolAssumption ==
  /\ IsFiniteSet(Workers)
  /\ Workers # {}
  /\ None \notin Coords
  /\ MaxCompleted \in Nat

VARIABLES queue, in_flight, completed, stop, pc, coord, owner

vars == <<queue, in_flight, completed, stop, pc, coord, owner>>

\* Only a worker about to wait keeps the mutex across two steps.
MutexFree == \A w \in Workers : pc[w] # "blocking"

\* (mutant) forgets the coordinates the workers hold
Pending_queueOnly(c) == c \in ToSet(queue)

Pending(c) == c \in in_flight \/ c \in ToSet(queue)

Init ==
  /\ queue = <<>> /\ in_flight = {} /\ completed = <<>>
  /\ stop = FALSE
  /\ pc = [w \in Workers |-> "ready"]
  /\ coord = [w \in Workers |-> None]
  /\ owner = "running"

-----------------------------------------------------------------------------
(* The owner *)

\* submit() of a coordinate that is not pending; a duplicate changes nothing.
Submit(c) ==
  /\ owner = "running" /\ MutexFree
  /\ Len(queue) + Cardinality(in_flight) + Len(completed) < MaxCompleted
  /\ ~Pending(c)
  /\ queue' = Append(queue, c)
  /\ owner' = "notify"
  /\ UNCHANGED <<in_flight, completed, stop, pc, coord>>

Wake(ws) == pc' = [w \in Workers |-> IF w \in ws THEN "ready" ELSE pc[w]]

\* (mutant) the notify finds nobody
WaitingWorkers_none == {}

WaitingWorkers == {w \in Workers : pc[w] = "waiting"}

\* The notify_one that ends submit(), after the mutex is released.
NotifyOne ==
  /\ owner = "notify"
  /\ IF WaitingWorkers = {} THEN Wake({}) ELSE \E w \in WaitingWorkers : Wake({w})
  /\ owner' = "running"
  /\ UNCHANGED <<queue, in_flight, completed, stop, coord>>

PollCompleted ==
  /\ owner = "running" /\ MutexFree
  /\ completed' = <<>>
  /\ UNCHANGED <<queue, in_flight, stop, pc, coord, owner>>

\* The destructor: the flag is stored without the mutex, ...
DestroyStop ==
  /\ owner = "running"
  /\ stop' = TRUE
  /\ owner' = "stopping"
  /\ UNCHANGED <<queue, in_flight, completed, pc, coord>>

\* ... then every waiting worker is notified, ...
DestroyNotify ==
  /\ owner = "stopping"
  /\ Wake(WaitingWorkers)
  /\ owner' = "joining"
  /\ UNCHANGED <<queue, in_flight, completed, stop, coord>>

\* ... and all workers are joined.
DestroyJoin ==
  /\ owner = "joining"
  /\ \A w \in Workers : pc[w] = "exited"
  /\ owner' = "destroyed"
  /\ UNCHANGED <<queue, in_flight, completed, stop, pc, coord>>

-----------------------------------------------------------------------------
(* The workers *)

\* (mutant) the queue is popped before its front is read
NextCoord_afterPop == IF Len(queue) > 1 THEN queue[2] ELSE None

NextCoord == Head(queue)

WorkerTake(w) ==
  /\ pc[w] = "ready" /\ MutexFree /\ ~stop /\ queue # <<>>
  /\ coord' = [coord EXCEPT ![w] = NextCoord]
  /\ queue' = Tail(queue)
  /\ in_flight' = in_flight \union {NextCoord}
  /\ pc' = [pc EXCEPT ![w] = "generating"]
  /\ UNCHANGED <<completed, stop, owner>>

\* The wait's predicate was false: nothing queued, not stopping.
WorkerBlock(w) ==
  /\ pc[w] = "ready" /\ MutexFree /\ ~stop /\ queue = <<>>
  /\ pc' = [pc EXCEPT ![w] = "blocking"]
  /\ UNCHANGED <<queue, in_flight, completed, stop, coord, owner>>

WorkerWait(w) ==
  /\ pc[w] = "blocking"
  /\ pc' = [pc EXCEPT ![w] = "waiting"]
  /\ UNCHANGED <<queue, in_flight, completed, stop, coord, owner>>

\* A condition variable may wake a waiter on its own; nothing makes it do so.
SpuriousWakeup(w) ==
  /\ pc[w] = "waiting"
  /\ Wake({w})
  /\ UNCHANGED <<queue, in_flight, completed, stop, coord, owner>>

WorkerPublish(w) ==
  /\ pc[w] = "generating" /\ MutexFree
  /\ in_flight' = in_flight \ {coord[w]}
  /\ completed' = Append(completed, coord[w])
  /\ coord' = [coord EXCEPT ![w] = None]
  /\ pc' = [pc EXCEPT ![w] = "ready"]
  /\ UNCHANGED <<queue, stop, owner>>

WorkerExit(w) ==
  /\ pc[w] = "ready" /\ MutexFree /\ stop
  /\ pc' = [pc EXCEPT ![w] = "exited"]
  /\ UNCHANGED <<queue, in_flight, completed, stop, coord, owner>>

-----------------------------------------------------------------------------
OwnerStep ==
  \/ \E c \in Coords : Submit(c)
  \/ NotifyOne \/ PollCompleted
  \/ DestroyStop \/ DestroyNotify \/ DestroyJoin

WorkerStep(w) ==
  \/ WorkerTake(w) \/ WorkerBlock(w) \/ WorkerWait(w)
  \/ WorkerPublish(w) \/ WorkerExit(w)

\* A destroyed pool does nothing more.
Destroyed == owner = "destroyed" /\ UNCHANGED vars

Next ==
  \/ OwnerStep
  \/ \E w \in Workers : WorkerStep(w) \/ SpuriousWakeup(w)
  \/ Destroyed

Spec == Init /\ [][Next]_vars

\* Each worker thread is scheduled again and again, a thread that wants the
\* mutex does not starve on it (SF: others may hold it in between), and the
\* owner finishes the calls it began; it need never submit, poll nor destroy.
Fairness ==
  /\ \A w \in Workers : WF_vars(WorkerStep(w)) /\ SF_vars(WorkerPublish(w))
  /\ WF_vars(NotifyOne \/ DestroyNotify \/ DestroyJoin)

FairSpec == Spec /\ Fairness

-----------------------------------------------------------------------------
\* The pool's members hold what worker_pool.hpp declares, and every thread is at
\* one of its program points.
TypeOK ==
  /\ queue \in Seq(Coords)
  /\ in_flight \in SUBSET Coords
  /\ completed \in Seq(Coords)
  /\ stop \in BOOLEAN
  /\ pc \in [Workers -> {"ready", "blocking", "waiting", "generating", "exited"}]
  /\ coord \in [Workers -> Coords \union {None}]
  /\ owner \in {"running", "notify", "stopping", "joining", "destroyed"}

\* No two workers ever generate the same chunk, and a chunk being generated
\* is not queued a second time: the two checks of submit() cover each other
\* across the instant a worker moves a coordinate from one set to the other.
NoDoubleGeneration ==
  /\ IsInjective(queue)
  /\ ToSet(queue) \intersect in_flight = {}
  /\ in_flight = {coord[w] : w \in {v \in Workers : pc[v] = "generating"}}
  /\ \A v, w \in Workers :
       (v # w /\ pc[v] = "generating" /\ pc[w] = "generating") => coord[v] # coord[w]

\* No submission's wakeup is lost: once submit() has returned, a queued chunk
\* has a worker that is awake, because a worker decides to wait under the
\* mutex submit() needs.
NoMissedSubmission ==
  queue # <<>> /\ owner = "running" => \E w \in Workers : pc[w] \in {"ready", "generating"}

\* Both: whatever is submitted is worked on, once.
WorkIsExact == NoDoubleGeneration /\ NoMissedSubmission

\* The pool implements what its caller relies on (ChunkGeneration).
Abstract == INSTANCE ChunkGeneration WITH MaxInFlight <- Cardinality(Workers)

ImplementsChunkGeneration == Abstract!GenSpec

\* Every queued chunk is eventually generated unless the pool is destroyed.
QueuedIsGenerated ==
  \A c \in Coords : (c \in ToSet(queue)) ~> (stop \/ (c \notin ToSet(queue) /\ c \notin in_flight))

\* Destroying the pool returns: ~WorldGenWorkerPool joins every worker.
DestructorReturns == (owner = "stopping") ~> (owner = "destroyed")
=============================================================================
