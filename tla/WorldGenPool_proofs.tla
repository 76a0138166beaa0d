------------------------- MODULE WorldGenPool_proofs -------------------------
(***************************************************************************)
(* What holds of the worker pool for every set of coordinates, every       *)
(* finite number of workers and every bound: types, the absence of double  *)
(* generation, the absence of a missed submission, and the implementation  *)
(* of ChunkGeneration.                                                     *)
(***************************************************************************)
EXTENDS WorldGenPool, TLAPS, SequenceTheorems, FiniteSetTheorems

-----------------------------------------------------------------------------
(* Sequences without repetition *)

\* Appending adds one element to the set of a sequence's elements.
LEMMA ToSetAppend ==
  ASSUME NEW S, NEW s \in Seq(S), NEW e \in S
  PROVE  ToSet(Append(s, e)) = ToSet(s) \union {e}
<1>1. /\ Len(s) \in Nat /\ DOMAIN s = 1..Len(s)
      /\ DOMAIN Append(s, e) = 1..(Len(s) + 1)
      /\ \A i \in 1..Len(s) : Append(s, e)[i] = s[i]
      /\ Append(s, e)[Len(s) + 1] = e
  BY AppendProperties, LenProperties
<1>2. ASSUME NEW x \in ToSet(Append(s, e)) PROVE x \in ToSet(s) \union {e}
  <2>1. PICK i \in 1..(Len(s) + 1) : x = Append(s, e)[i]
    BY <1>1, <1>2 DEF ToSet
  <2>2. i \in 1..Len(s) \/ i = Len(s) + 1
    BY <1>1
  <2> QED BY <1>1, <2>1, <2>2 DEF ToSet
<1>3. ASSUME NEW x \in ToSet(s) \union {e} PROVE x \in ToSet(Append(s, e))
  <2>1. CASE x = e
    <3>1. Len(s) + 1 \in 1..(Len(s) + 1)
      BY <1>1
    <3> QED BY <1>1, <2>1, <3>1 DEF ToSet
  <2>2. CASE x \in ToSet(s)
    <3>1. PICK i \in 1..Len(s) : x = s[i]
      BY <1>1, <2>2 DEF ToSet
    <3>2. i \in 1..(Len(s) + 1)
      BY <1>1
    <3> QED BY <1>1, <3>1, <3>2 DEF ToSet
  <2> QED BY <1>3, <2>1, <2>2
<1> QED BY <1>2, <1>3

\* The elements of a nonempty sequence are its head and those of its tail.
LEMMA ToSetHeadTail ==
  ASSUME NEW S, NEW s \in Seq(S), s # <<>>
  PROVE  /\ Head(s) \in S
         /\ Tail(s) \in Seq(S)
         /\ ToSet(s) = {Head(s)} \union ToSet(Tail(s))
<1>1. /\ Head(s) \in S /\ Tail(s) \in Seq(S)
      /\ Len(s) \in Nat \ {0} /\ Len(Tail(s)) = Len(s) - 1
      /\ \A i \in 1..(Len(s) - 1) : Tail(s)[i] = s[i + 1]
      /\ DOMAIN s = 1..Len(s) /\ DOMAIN Tail(s) = 1..(Len(s) - 1)
      /\ Head(s) = s[1]
  BY HeadTailProperties, LenProperties, EmptySeq
<1>2. ASSUME NEW x \in ToSet(s) PROVE x \in {Head(s)} \union ToSet(Tail(s))
  <2>1. PICK i \in 1..Len(s) : x = s[i]
    BY <1>1, <1>2 DEF ToSet
  <2>2. CASE i = 1
    BY <1>1, <2>1, <2>2
  <2>3. CASE i # 1
    <3>1. i - 1 \in 1..(Len(s) - 1) /\ (i - 1) + 1 = i
      BY <1>1, <2>3
    <3>2. x = Tail(s)[i - 1]
      BY <1>1, <2>1, <3>1
    <3> QED BY <1>1, <3>1, <3>2 DEF ToSet
  <2> QED BY <2>2, <2>3
<1>3. ASSUME NEW x \in {Head(s)} \union ToSet(Tail(s)) PROVE x \in ToSet(s)
  <2>1. CASE x = Head(s)
    <3>1. 1 \in 1..Len(s)
      BY <1>1
    <3> QED BY <1>1, <2>1, <3>1 DEF ToSet
  <2>2. CASE x \in ToSet(Tail(s))
    <3>1. PICK i \in 1..(Len(s) - 1) : x = Tail(s)[i]
      BY <1>1, <2>2 DEF ToSet
    <3>2. i + 1 \in 1..Len(s) /\ x = s[i + 1]
      BY <1>1, <3>1
    <3> QED BY <1>1, <3>2 DEF ToSet
  <2> QED BY <1>3, <2>1, <2>2
<1> QED BY <1>1, <1>2, <1>3

\* A sequence without repetition stays one when a new element is appended.
LEMMA InjectiveAppend ==
  ASSUME NEW S, NEW s \in Seq(S), NEW e \in S, IsInjective(s), e \notin ToSet(s)
  PROVE  IsInjective(Append(s, e))
<1>1. /\ Len(s) \in Nat /\ DOMAIN s = 1..Len(s)
      /\ DOMAIN Append(s, e) = 1..(Len(s) + 1)
      /\ \A i \in 1..Len(s) : Append(s, e)[i] = s[i]
      /\ Append(s, e)[Len(s) + 1] = e
  BY AppendProperties, LenProperties
<1>2. \A i \in 1..Len(s) : s[i] # e
  BY <1>1 DEF ToSet
<1>3. SUFFICES ASSUME NEW i \in 1..(Len(s) + 1), NEW j \in 1..(Len(s) + 1),
                      Append(s, e)[i] = Append(s, e)[j]
               PROVE  i = j
  BY <1>1 DEF IsInjective
<1>4. (i \in 1..Len(s) \/ i = Len(s) + 1) /\ (j \in 1..Len(s) \/ j = Len(s) + 1)
  BY <1>1
<1>5. \A a, b \in 1..Len(s) : s[a] = s[b] => a = b
  BY <1>1 DEF IsInjective
<1> QED BY <1>1, <1>2, <1>3, <1>4, <1>5

\* The tail of a sequence without repetition is one and lacks the head.
LEMMA InjectiveTail ==
  ASSUME NEW S, NEW s \in Seq(S), s # <<>>, IsInjective(s)
  PROVE  IsInjective(Tail(s)) /\ Head(s) \notin ToSet(Tail(s))
<1>1. /\ Len(s) \in Nat \ {0}
      /\ \A i \in 1..(Len(s) - 1) : Tail(s)[i] = s[i + 1]
      /\ DOMAIN s = 1..Len(s) /\ DOMAIN Tail(s) = 1..(Len(s) - 1)
      /\ Head(s) = s[1]
  BY HeadTailProperties, LenProperties, EmptySeq
<1>2. \A a, b \in 1..Len(s) : s[a] = s[b] => a = b
  BY <1>1 DEF IsInjective
<1>3. \A i \in 1..(Len(s) - 1) : i + 1 \in 1..Len(s) /\ i + 1 # 1
  BY <1>1
<1>4. 1 \in 1..Len(s)
  BY <1>1
<1>5. IsInjective(Tail(s))
  <2> SUFFICES ASSUME NEW i \in 1..(Len(s) - 1), NEW j \in 1..(Len(s) - 1),
                      Tail(s)[i] = Tail(s)[j]
               PROVE  i = j
    BY <1>1 DEF IsInjective
  <2>1. s[i + 1] = s[j + 1]
    BY <1>1
  <2>2. i + 1 = j + 1
    BY <1>2, <1>3, <2>1
  <2> QED BY <2>2
<1>6. Head(s) \notin ToSet(Tail(s))
  BY <1>1, <1>2, <1>3, <1>4 DEF ToSet
<1> QED BY <1>5, <1>6

-----------------------------------------------------------------------------
(* The inductive invariant *)

Generating == {w \in Workers : pc[w] = "generating"}

\* Generation without repetition, with in_flight told by its elements.
Exclusive ==
  /\ IsInjective(queue)
  /\ \A x \in in_flight : x \notin ToSet(queue)
  /\ \A w \in Generating : coord[w] \in in_flight
  /\ \A x \in in_flight : \E w \in Generating : coord[w] = x
  /\ \A v, w \in Generating : coord[v] = coord[w] => v = w

\* While the pool is not being destroyed nobody exits, and a worker that is
\* about to wait has seen an empty queue which nobody can fill meanwhile.
Awake ==
  /\ owner \in {"running", "notify"} =>
       /\ ~stop
       /\ \A w \in Workers : pc[w] # "exited"
  /\ \A w \in Workers : pc[w] = "blocking" => queue = <<>>
  /\ NoMissedSubmission

IInv == TypeOK /\ Exclusive /\ Awake

\* The owner's possible actions and the workers', named once for all proofs.
LEMMA NextCases ==
  ASSUME Next
  PROVE  \/ \E c \in Coords : Submit(c)
         \/ NotifyOne \/ PollCompleted \/ DestroyStop \/ DestroyNotify \/ DestroyJoin
         \/ \E w \in Workers : \/ WorkerTake(w) \/ WorkerBlock(w) \/ WorkerWait(w)
                               \/ WorkerPublish(w) \/ WorkerExit(w) \/ SpuriousWakeup(w)
         \/ UNCHANGED vars
BY DEF Next, OwnerStep, WorkerStep, Destroyed

\* The coordinate a worker takes and what remains of the queue.
LEMMA TakenIsHead ==
  ASSUME TypeOK, queue # <<>>
  PROVE  /\ NextCoord \in Coords
         /\ Tail(queue) \in Seq(Coords)
         /\ ToSet(queue) = {NextCoord} \union ToSet(Tail(queue))
         /\ IsInjective(queue) => IsInjective(Tail(queue)) /\ NextCoord \notin ToSet(Tail(queue))
BY ToSetHeadTail, InjectiveTail DEF TypeOK, NextCoord

\* A pool that has just been constructed satisfies the inductive invariant.
LEMMA InitIInv == Init => IInv
<1> SUFFICES ASSUME Init PROVE IInv
  OBVIOUS
<1>1. TypeOK
  BY EmptySeq, WorldGenPoolAssumption DEF Init, TypeOK
<1>2. ToSet(queue) = {} /\ IsInjective(queue)
  BY DEF Init, ToSet, IsInjective
<1>3. Exclusive
  BY <1>2 DEF Exclusive, Init, Generating
<1>4. Awake
  BY DEF Awake, Init, NoMissedSubmission
<1> QED BY <1>1, <1>3, <1>4 DEF IInv

\* Every step keeps every variable in its type; a published coordinate is one
\* that was in flight.
LEMMA TypeStep == IInv /\ [Next]_vars => TypeOK'
<1> SUFFICES ASSUME IInv, [Next]_vars PROVE TypeOK'
  OBVIOUS
<1> USE DEF IInv
<1>0. CASE UNCHANGED vars
  BY <1>0 DEF TypeOK, vars
<1>1. ASSUME NEW c \in Coords, Submit(c) PROVE TypeOK'
  BY <1>1, AppendProperties DEF TypeOK, Submit
<1>2. CASE NotifyOne
  BY <1>2 DEF TypeOK, NotifyOne, Wake, WaitingWorkers
<1>3. CASE PollCompleted
  BY <1>3, EmptySeq DEF TypeOK, PollCompleted
<1>4. CASE DestroyStop
  BY <1>4 DEF TypeOK, DestroyStop
<1>5. CASE DestroyNotify
  BY <1>5 DEF TypeOK, DestroyNotify, Wake
<1>6. CASE DestroyJoin
  BY <1>6 DEF TypeOK, DestroyJoin
<1>7. ASSUME NEW w \in Workers, WorkerTake(w) PROVE TypeOK'
  BY <1>7, TakenIsHead DEF TypeOK, WorkerTake
<1>8. ASSUME NEW w \in Workers, WorkerBlock(w) \/ WorkerWait(w) \/ WorkerExit(w) PROVE TypeOK'
  BY <1>8 DEF TypeOK, WorkerBlock, WorkerWait, WorkerExit
<1>9. ASSUME NEW w \in Workers, WorkerPublish(w) PROVE TypeOK'
  <2>1. coord[w] \in Coords
    BY <1>9 DEF TypeOK, Exclusive, Generating, WorkerPublish
  <2> QED BY <1>9, <2>1, AppendProperties DEF TypeOK, WorkerPublish
<1>10. ASSUME NEW w \in Workers, SpuriousWakeup(w) PROVE TypeOK'
  BY <1>10 DEF TypeOK, SpuriousWakeup, Wake
<1> QED BY <1>0, <1>1, <1>2, <1>3, <1>4, <1>5, <1>6, <1>7, <1>8, <1>9, <1>10, NextCases

\* A step that leaves the pool's sets and every generating worker alone.
LEMMA ExclusiveUnchanged ==
  ASSUME Exclusive, UNCHANGED <<queue, in_flight, coord>>, Generating' = Generating
  PROVE  Exclusive'
BY DEF Exclusive, Generating

\* Every step keeps queue, in_flight_ and the coordinates being generated apart.
LEMMA ExclusiveStep == IInv /\ [Next]_vars => Exclusive'
<1> SUFFICES ASSUME IInv, [Next]_vars PROVE Exclusive'
  OBVIOUS
<1> USE DEF IInv
<1>0. CASE UNCHANGED vars
  BY <1>0, ExclusiveUnchanged DEF vars, Generating
<1>1. ASSUME NEW c \in Coords, Submit(c) PROVE Exclusive'
  <2>1. /\ queue' = Append(queue, c) /\ UNCHANGED <<in_flight, pc, coord>>
        /\ c \notin ToSet(queue) /\ c \notin in_flight /\ queue \in Seq(Coords)
    BY <1>1 DEF Submit, Pending, TypeOK
  <2>2. IsInjective(queue') /\ ToSet(queue') = ToSet(queue) \union {c}
    BY <1>1, <2>1, ToSetAppend, InjectiveAppend DEF Exclusive
  <2> QED BY <2>1, <2>2 DEF Exclusive, Generating
<1>2. CASE NotifyOne
  BY <1>2, ExclusiveUnchanged DEF NotifyOne, Wake, WaitingWorkers, Generating, TypeOK
<1>3. CASE PollCompleted \/ DestroyStop \/ DestroyJoin
  BY <1>3, ExclusiveUnchanged DEF PollCompleted, DestroyStop, DestroyJoin, Generating
<1>4. CASE DestroyNotify
  BY <1>4, ExclusiveUnchanged DEF DestroyNotify, Wake, WaitingWorkers, Generating, TypeOK
<1>5. ASSUME NEW w \in Workers, WorkerTake(w) PROVE Exclusive'
  <2> DEFINE c == NextCoord
  <2>1. /\ queue' = Tail(queue) /\ in_flight' = in_flight \union {c}
        /\ coord' = [coord EXCEPT ![w] = c] /\ pc' = [pc EXCEPT ![w] = "generating"]
        /\ pc[w] = "ready"
    BY <1>5 DEF WorkerTake
  <2>2. /\ ToSet(queue) = {c} \union ToSet(Tail(queue))
        /\ IsInjective(Tail(queue)) /\ c \notin ToSet(Tail(queue))
    BY <1>5, TakenIsHead DEF WorkerTake, Exclusive
  <2>3. Generating' = Generating \union {w} /\ w \notin Generating
    BY <2>1 DEF Generating, TypeOK
  <2>4. c \notin in_flight
    BY <2>2 DEF Exclusive
  <2>5. coord'[w] = c /\ \A v \in Generating : coord'[v] = coord[v]
    BY <2>1, <2>3 DEF TypeOK, Generating
  <2> HIDE DEF c
  <2>6. IsInjective(queue') /\ \A x \in in_flight' : x \notin ToSet(queue')
    BY <2>1, <2>2 DEF Exclusive
  <2>7. /\ \A v \in Generating' : coord'[v] \in in_flight'
        /\ \A x \in in_flight' : \E v \in Generating' : coord'[v] = x
    BY <2>1, <2>3, <2>5 DEF Exclusive
  <2>8. \A u, v \in Generating' : coord'[u] = coord'[v] => u = v
    BY <2>3, <2>4, <2>5 DEF Exclusive
  <2> QED BY <2>6, <2>7, <2>8 DEF Exclusive
<1>6. ASSUME NEW w \in Workers, WorkerBlock(w) \/ WorkerWait(w) \/ WorkerExit(w) PROVE Exclusive'
  BY <1>6, ExclusiveUnchanged DEF WorkerBlock, WorkerWait, WorkerExit, Generating, TypeOK
<1>7. ASSUME NEW w \in Workers, WorkerPublish(w) PROVE Exclusive'
  <2>1. /\ UNCHANGED queue /\ in_flight' = in_flight \ {coord[w]}
        /\ coord' = [coord EXCEPT ![w] = None] /\ pc' = [pc EXCEPT ![w] = "ready"]
        /\ w \in Generating
    BY <1>7 DEF WorkerPublish, Generating
  <2>2. Generating' = Generating \ {w}
    BY <2>1 DEF Generating, TypeOK
  <2>3. \A v \in Generating' : coord'[v] = coord[v] /\ coord[v] # coord[w]
    BY <2>1, <2>2 DEF TypeOK, Generating, Exclusive
  <2>4. /\ \A v \in Generating' : coord'[v] \in in_flight'
        /\ \A x \in in_flight' : \E v \in Generating' : coord'[v] = x
    BY <2>1, <2>2, <2>3 DEF Exclusive
  <2> QED BY <2>1, <2>2, <2>3, <2>4 DEF Exclusive
<1>8. ASSUME NEW w \in Workers, SpuriousWakeup(w) PROVE Exclusive'
  BY <1>8, ExclusiveUnchanged DEF SpuriousWakeup, Wake, Generating, TypeOK
<1> QED BY <1>0, <1>1, <1>2, <1>3, <1>4, <1>5, <1>6, <1>7, <1>8, NextCases

\* Every step leaves a worker awake while the queue holds a coordinate.
LEMMA AwakeStep == IInv /\ [Next]_vars => Awake'
<1> SUFFICES ASSUME IInv, [Next]_vars PROVE Awake'
  OBVIOUS
<1> USE DEF IInv, Awake, NoMissedSubmission
<1>0. CASE UNCHANGED vars
  BY <1>0 DEF vars
<1>1. ASSUME NEW c \in Coords, Submit(c) PROVE Awake'
  BY <1>1 DEF Submit, MutexFree
<1>2. CASE NotifyOne
  <2>1. CASE WaitingWorkers = {}
    <3>1. pc' = pc
      BY <1>2, <2>1 DEF NotifyOne, Wake, TypeOK
    <3>2. queue # <<>> => \A w \in Workers : pc[w] \in {"ready", "generating"}
      BY <1>2, <2>1 DEF NotifyOne, WaitingWorkers, TypeOK
    <3> QED BY <1>2, <3>1, <3>2, WorldGenPoolAssumption DEF NotifyOne
  <2>2. CASE WaitingWorkers # {}
    <3>1. PICK w \in WaitingWorkers : Wake({w})
      BY <1>2, <2>2 DEF NotifyOne
    <3>2. w \in Workers /\ pc'[w] = "ready"
      BY <3>1 DEF Wake, WaitingWorkers
    <3>3. \A v \in Workers : pc'[v] # "ready" => pc'[v] = pc[v]
      BY <3>1 DEF Wake
    <3> QED BY <1>2, <3>2, <3>3 DEF NotifyOne
  <2> QED BY <2>1, <2>2
<1>3. CASE PollCompleted \/ DestroyStop \/ DestroyJoin
  BY <1>3 DEF PollCompleted, DestroyStop, DestroyJoin
<1>4. CASE DestroyNotify
  <2>1. \A v \in Workers : pc'[v] # "ready" => pc'[v] = pc[v]
    BY <1>4 DEF DestroyNotify, Wake
  <2> QED BY <1>4, <2>1 DEF DestroyNotify
<1>5. ASSUME NEW w \in Workers, WorkerTake(w) PROVE Awake'
  BY <1>5 DEF WorkerTake, MutexFree, TypeOK
<1>6. ASSUME NEW w \in Workers, WorkerBlock(w) PROVE Awake'
  BY <1>6 DEF WorkerBlock, TypeOK
<1>7. ASSUME NEW w \in Workers, WorkerWait(w) PROVE Awake'
  BY <1>7 DEF WorkerWait, TypeOK
<1>8. ASSUME NEW w \in Workers, WorkerExit(w) PROVE Awake'
  BY <1>8 DEF WorkerExit, TypeOK
<1>9. ASSUME NEW w \in Workers, WorkerPublish(w) PROVE Awake'
  BY <1>9 DEF WorkerPublish, TypeOK
<1>10. ASSUME NEW w \in Workers, SpuriousWakeup(w) PROVE Awake'
  <2>1. \A v \in Workers : pc'[v] # "ready" => pc'[v] = pc[v]
    BY <1>10 DEF SpuriousWakeup, Wake
  <2>2. pc'[w] = "ready"
    BY <1>10 DEF SpuriousWakeup, Wake
  <2> QED BY <1>10, <2>1, <2>2 DEF SpuriousWakeup
<1> QED BY <1>0, <1>1, <1>2, <1>3, <1>4, <1>5, <1>6, <1>7, <1>8, <1>9, <1>10, NextCases

\* The inductive invariant holds in every reachable state of the pool.
LEMMA Invariance == Spec => []IInv
<1>1. IInv /\ [Next]_vars => IInv'
  BY TypeStep, ExclusiveStep, AwakeStep DEF IInv
<1> QED BY <1>1, InitIInv, PTL DEF Spec

-----------------------------------------------------------------------------
(* The theorems *)

\* Every reachable state of the pool is well typed (worker_pool.hpp's members).
THEOREM TypeCorrect == Spec => []TypeOK
<1>1. IInv => TypeOK
  BY DEF IInv
<1> QED BY <1>1, Invariance, PTL

\* However many workers there are, no chunk is generated by two of them and no
\* chunk in flight is queued again (submit(), worker_loop()).
THEOREM GeneratesOnce == Spec => []NoDoubleGeneration
<1>1. IInv => NoDoubleGeneration
  BY DEF IInv, Exclusive, Generating, NoDoubleGeneration, TypeOK
<1> QED BY <1>1, Invariance, PTL

\* No wakeup of submit() is lost, for any number of workers (submit(),
\* worker_loop()'s wait).
THEOREM SubmissionsAreSeen == Spec => []NoMissedSubmission
<1>1. IInv => NoMissedSubmission
  BY DEF IInv, Awake
<1> QED BY <1>1, Invariance, PTL

\* Whatever is submitted is worked on, once (submit(), worker_loop()).
THEOREM PoolWorksExactly == Spec => []WorkIsExact
  BY GeneratesOnce, SubmissionsAreSeen, PTL DEF WorkIsExact

\* A worker that is not generating leaves room for one more coordinate in flight.
LEMMA RoomForOne ==
  ASSUME IInv, NEW w \in Workers, w \notin Generating
  PROVE  Cardinality(in_flight) < Cardinality(Workers)
<1> DEFINE f == [v \in Generating |-> coord[v]]
<1>1. IsFiniteSet(Workers) /\ IsFiniteSet(Workers \ {w})
  BY WorldGenPoolAssumption, FS_RemoveElement
<1>2. /\ IsFiniteSet(Generating)
      /\ Cardinality(Generating) <= Cardinality(Workers \ {w})
  <2>1. Generating \in SUBSET (Workers \ {w})
    BY DEF Generating
  <2> QED BY <1>1, <2>1, FS_Subset
<1>3. Cardinality(Workers \ {w}) = Cardinality(Workers) - 1
  BY <1>1, FS_RemoveElement
<1>4. f \in Surjection(Generating, in_flight)
  BY DEF IInv, Exclusive, Surjection
<1>5. IsFiniteSet(in_flight) /\ Cardinality(in_flight) <= Cardinality(Generating)
  BY <1>2, <1>4, FS_Surjection
<1>6. /\ Cardinality(Workers) \in Nat /\ Cardinality(Generating) \in Nat
      /\ Cardinality(in_flight) \in Nat
  BY <1>1, <1>2, <1>5, FS_CardinalityType
<1> QED BY <1>2, <1>3, <1>5, <1>6

\* Every step of the pool is a step of ChunkGeneration or leaves it alone.
LEMMA StepSimulation == IInv /\ [Next]_vars => [Abstract!GenNext]_(Abstract!genVars)
<1> SUFFICES ASSUME IInv, [Next]_vars
             PROVE  Abstract!GenNext \/ UNCHANGED Abstract!genVars
  OBVIOUS
<1> USE DEF IInv
<1>0. CASE UNCHANGED vars
  BY <1>0 DEF vars, Abstract!genVars
<1>1. ASSUME NEW c \in Coords, Submit(c) PROVE Abstract!GenNext
  <2>1. queue' = queue \o <<c>>
    BY <1>1, AppendIsConcat DEF Submit, TypeOK
  <2>2. Cardinality(Workers) # 0
    BY WorldGenPoolAssumption, FS_EmptySet
  <2>3. Abstract!Submit(c)
    BY <1>1, <2>1, <2>2 DEF Submit, Pending, ToSet,
            Abstract!Submit, Abstract!SubmitAll, Abstract!Pending, Abstract!ToSet
  <2> QED BY <2>3 DEF Abstract!GenNext
<1>2. CASE NotifyOne \/ DestroyStop \/ DestroyNotify \/ DestroyJoin
  BY <1>2 DEF NotifyOne, DestroyStop, DestroyNotify, DestroyJoin, Abstract!genVars
<1>3. CASE PollCompleted
  BY <1>3 DEF PollCompleted, Abstract!Poll, Abstract!GenNext
<1>4. ASSUME NEW w \in Workers, WorkerTake(w) PROVE Abstract!GenNext
  <2>1. Cardinality(in_flight) < Cardinality(Workers)
    BY <1>4, RoomForOne DEF WorkerTake, Generating
  <2>2. Abstract!Cardinality(in_flight) = Cardinality(in_flight)
    BY DEF Cardinality, Abstract!Cardinality
  <2>3. Abstract!Take
    BY <1>4, <2>1, <2>2 DEF WorkerTake, NextCoord, Abstract!Take
  <2> QED BY <2>3 DEF Abstract!GenNext
<1>5. ASSUME NEW w \in Workers,
             WorkerBlock(w) \/ WorkerWait(w) \/ WorkerExit(w) \/ SpuriousWakeup(w)
      PROVE  UNCHANGED Abstract!genVars
  BY <1>5 DEF WorkerBlock, WorkerWait, WorkerExit, SpuriousWakeup, Abstract!genVars
<1>6. ASSUME NEW w \in Workers, WorkerPublish(w) PROVE Abstract!GenNext
  <2>1. coord[w] \in in_flight /\ coord[w] \in Coords
    BY <1>6 DEF WorkerPublish, Exclusive, Generating, TypeOK
  <2>2. Abstract!Finish(coord[w])
    BY <1>6, <2>1 DEF WorkerPublish, Abstract!Finish
  <2> QED BY <2>1, <2>2 DEF Abstract!GenNext
<1> QED BY <1>0, <1>1, <1>2, <1>3, <1>4, <1>5, <1>6, NextCases

\* The pool, with its mutex, condition variable and destructor, implements
\* what its caller relies on.
THEOREM PoolImplementsGeneration == Spec => ImplementsChunkGeneration
<1>1. Init => Abstract!GenInit
  BY DEF Init, Abstract!GenInit
<1> QED BY <1>1, StepSimulation, Invariance, PTL
        DEF Spec, ImplementsChunkGeneration, Abstract!GenSpec
=============================================================================
