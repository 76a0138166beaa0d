----------------------- MODULE Connected_proofs -----------------------
(***************************************************************************)
(* What holds of the loaded world for every set of chunks, players' views, *)
(* budgets, workers, faults and region files: types; that a request is     *)
(* never forgotten and never made twice; that a clean region is on disk;   *)
(* and that no edit is lost unless a generated chunk arrives for a         *)
(* coordinate that was loaded or saved meanwhile, which cannot happen with *)
(* the synchronous pool and views that fit the budget.  And of the channel *)
(* of a development build, for any number of harnesses, requests and       *)
(* frames: that no request is lost or answered twice.  And of both         *)
(* transports, for any number of connections and messages: that they keep  *)
(* what Transport promises.                                                *)
(***************************************************************************)
EXTENDS MCConnected, SequenceTheorems, FiniteSetTheorems, TLAPS

-----------------------------------------------------------------------------
(* Sequences *)

\* The elements of a sequence over S are in S.
LEMMA ToSetInSet ==
  ASSUME NEW S, NEW s \in Seq(S)
  PROVE  ToSet(s) \subseteq S
<1>1. DOMAIN s = 1..Len(s)
  BY LenProperties
<1> QED BY <1>1, ElementOfSeq DEF ToSet

\* The elements of a concatenation are those of its parts.
LEMMA ToSetConcat ==
  ASSUME NEW S, NEW s \in Seq(S), NEW t \in Seq(S)
  PROVE  ToSet(s \o t) = ToSet(s) \union ToSet(t)
<1>1. /\ Len(s) \in Nat /\ DOMAIN s = 1..Len(s)
      /\ Len(t) \in Nat /\ DOMAIN t = 1..Len(t)
      /\ s \o t \in Seq(S) /\ Len(s \o t) = Len(s) + Len(t)
      /\ \A i \in 1..(Len(s) + Len(t)) :
           (s \o t)[i] = IF i <= Len(s) THEN s[i] ELSE t[i - Len(s)]
  BY ConcatProperties, LenProperties
<1>2. DOMAIN (s \o t) = 1..(Len(s) + Len(t))
  BY <1>1, LenProperties
<1>3. ASSUME NEW x \in ToSet(s \o t) PROVE x \in ToSet(s) \union ToSet(t)
  <2>1. PICK i \in 1..(Len(s) + Len(t)) : x = (s \o t)[i]
    BY <1>2, <1>3 DEF ToSet
  <2>2. CASE i <= Len(s)
    <3>1. i \in 1..Len(s) /\ x = s[i]
      BY <1>1, <2>1, <2>2
    <3> QED BY <1>1, <3>1 DEF ToSet
  <2>3. CASE ~(i <= Len(s))
    <3>1. i - Len(s) \in 1..Len(t) /\ x = t[i - Len(s)]
      BY <1>1, <2>1, <2>3
    <3> QED BY <1>1, <3>1 DEF ToSet
  <2> QED BY <2>2, <2>3
<1>4. ASSUME NEW x \in ToSet(s) PROVE x \in ToSet(s \o t)
  <2>1. PICK i \in 1..Len(s) : x = s[i]
    BY <1>1, <1>4 DEF ToSet
  <2>2. i \in 1..(Len(s) + Len(t)) /\ x = (s \o t)[i]
    BY <1>1, <2>1
  <2> QED BY <1>2, <2>2 DEF ToSet
<1>5. ASSUME NEW x \in ToSet(t) PROVE x \in ToSet(s \o t)
  <2>1. PICK i \in 1..Len(t) : x = t[i]
    BY <1>1, <1>5 DEF ToSet
  <2>2. /\ i + Len(s) \in 1..(Len(s) + Len(t))
        /\ ~(i + Len(s) <= Len(s)) /\ (i + Len(s)) - Len(s) = i
    BY <1>1
  <2>3. x = (s \o t)[i + Len(s)]
    BY <1>1, <2>1, <2>2
  <2> QED BY <1>2, <2>2, <2>3 DEF ToSet
<1> QED BY <1>3, <1>4, <1>5

\* Cutting a sequence in two loses no element of it.
LEMMA ToSetCut ==
  ASSUME NEW S, NEW s \in Seq(S), NEW k \in 0..Len(s)
  PROVE  /\ SubSeq(s, 1, k) \in Seq(S) /\ SubSeq(s, k + 1, Len(s)) \in Seq(S)
         /\ ToSet(s) = ToSet(SubSeq(s, 1, k)) \union ToSet(SubSeq(s, k + 1, Len(s)))
<1>1. Len(s) \in Nat /\ k \in Nat /\ k <= Len(s)
  BY LenProperties
<1>2. SubSeq(s, 1, k) \in Seq(S)
  <2>1. \A i \in 1..k : s[i] \in S
    BY <1>1, ElementOfSeq
  <2> QED BY <1>1, <2>1, SubSeqProperties
<1>3. SubSeq(s, k + 1, Len(s)) \in Seq(S)
  <2>1. \A i \in (k + 1)..Len(s) : s[i] \in S
    BY <1>1, ElementOfSeq
  <2> QED BY <1>1, <2>1, SubSeqProperties
<1>4. SubSeq(s, 1, k) \o SubSeq(s, k + 1, Len(s)) = SubSeq(s, 1, Len(s))
  <2>1. 1 \in 1..(Len(s) + 1) /\ k \in (1 - 1)..Len(s) /\ Len(s) \in k..Len(s)
    BY <1>1
  <2> QED BY <2>1, ConcatAdjacentSubSeq
<1>5. SubSeq(s, 1, k) \o SubSeq(s, k + 1, Len(s)) = s
  BY <1>4, SubSeqFull
<1> DEFINE front == SubSeq(s, 1, k)
           back == SubSeq(s, k + 1, Len(s))
<1>6. front \in Seq(S) /\ back \in Seq(S) /\ front \o back = s
  BY <1>2, <1>3, <1>5
<1>7. ToSet(s) = ToSet(front) \union ToSet(back)
  <2> HIDE DEF front, back
  <2>1. ToSet(front \o back) = ToSet(front) \union ToSet(back)
    BY <1>6, ToSetConcat, ZenonT(60)
  <2> QED BY <1>6, <2>1, Zenon
<1> QED BY <1>2, <1>3, <1>7

LEMMA ToSetOne ==
  ASSUME NEW e
  PROVE  ToSet(<<e>>) = {e}
<1>1. DOMAIN <<e>> = {1} /\ <<e>>[1] = e
  OBVIOUS
<1>2. ToSet(<<e>>) = {<<e>>[i] : i \in {1}}
  BY <1>1 DEF ToSet
<1>3. {<<e>>[i] : i \in {1}} = {<<e>>[1]}
  OBVIOUS
<1> QED BY <1>1, <1>2, <1>3

\* Appending adds one element.
LEMMA ToSetAppend ==
  ASSUME NEW S, NEW s \in Seq(S), NEW e \in S
  PROVE  Append(s, e) \in Seq(S) /\ ToSet(Append(s, e)) = ToSet(s) \union {e}
<1>1. Append(s, e) = s \o <<e>> /\ <<e>> \in Seq(S) /\ Append(s, e) \in Seq(S)
  BY AppendIsConcat, AppendProperties
<1>2. ToSet(s \o <<e>>) = ToSet(s) \union ToSet(<<e>>)
  BY <1>1, ToSetConcat, ZenonT(60)
<1> QED BY <1>1, <1>2, ToSetOne

\* The first element is one.
LEMMA ToSetHeadTail ==
  ASSUME NEW S, NEW s \in Seq(S), s # <<>>
  PROVE  /\ Head(s) \in S /\ Tail(s) \in Seq(S)
         /\ ToSet(s) = {Head(s)} \union ToSet(Tail(s))
<1> DEFINE e == Head(s)
           t == Tail(s)
           u == <<e>>
<1>1. e \in S /\ t \in Seq(S) /\ s = u \o t
  BY HeadTailProperties
<1>2. ToSet(u) = {e} /\ u \in Seq(S)
  BY <1>1, ToSetOne
<1> HIDE DEF e, t, u
<1>3. ToSet(u \o t) = ToSet(u) \union ToSet(t)
  BY <1>1, <1>2, ToSetConcat
<1>4. ToSet(s) = {e} \union ToSet(t)
  BY <1>1, <1>2, <1>3
<1> QED BY <1>1, <1>4 DEF e, t

LEMMA ToSetEmpty == ToSet(<<>>) = {}
<1>1. DOMAIN <<>> = 1..0
  OBVIOUS
<1> QED BY <1>1 DEF ToSet

\* SetToSeq lists a finite set: its elements, each in one place.
LEMMA SetToSeqLists ==
  ASSUME NEW S, IsFiniteSet(S)
  PROVE  /\ SetToSeq(S) \in Seq(S)
         /\ Len(SetToSeq(S)) = Cardinality(S)
         /\ ToSet(SetToSeq(S)) = S
<1> DEFINE n == Cardinality(S)
           s == SetToSeq(S)
<1>1. n \in Nat /\ ExistsBijection(1..n, S)
  BY FS_CardinalityType
<1>2. PICK f : f \in [1..n -> S] /\ IsInjective(f)
  BY <1>1 DEF ExistsBijection, Bijection, Injection
<1>3. s \in [1..n -> S] /\ IsInjective(s)
  BY <1>2 DEF SetToSeq
<1>4. s \in Seq(S)
  BY <1>1, <1>3, SeqDef
<1>5. DOMAIN s = 1..n /\ Len(s) = n
  BY <1>1, <1>3, <1>4, LenProperties
<1>6. IsFiniteSet(1..n) /\ Cardinality(1..n) = n
  BY <1>1, FS_Interval
<1>7. s \in Injection(1..n, S)
  BY <1>3 DEF Injection
<1>8. s \in Surjection(1..n, S)
  BY <1>6, <1>7, FS_Injection
<1>9. ToSet(s) = S
  BY <1>3, <1>5, <1>8 DEF Surjection, ToSet
<1> QED BY <1>4, <1>5, <1>9

-----------------------------------------------------------------------------
(* The operators of the model *)

Saved == Chunk \union {NoChunk}

\* A chunk has revisions and edits in bounds, and is told from no chunk.
LEMMA ChunkFacts ==
  /\ NoChunk \notin Chunk
  /\ MaxRev \in Nat
  /\ Fresh \in Chunk /\ EditsOf(Fresh) = 0 /\ EditsOf(NoChunk) = 0
  /\ \A ch \in Chunk : /\ ch.rev \in 0..MaxRev /\ ch.edits \in 0..MaxRev
                       /\ ch.edits <= ch.rev /\ EditsOf(ch) = ch.edits
                       /\ ch = [rev |-> ch.rev, edits |-> ch.edits]
  /\ \A r \in 0..MaxRev, e \in 0..MaxRev :
       e <= r => [rev |-> r, edits |-> e] \in Chunk
<1>1. MaxRev \in Nat /\ NoChunk \notin [rev : Nat, edits : Nat]
  BY ChunkLifecycleAssumption
<1>2. NoChunk \notin Chunk
  <2>1. Chunk \subseteq [rev : Nat, edits : Nat]
    BY <1>1 DEF Chunk
  <2> QED BY <1>1, <2>1
<1>3. Fresh \in Chunk
  BY <1>1 DEF Fresh, Chunk
<1>4. EditsOf(Fresh) = 0 /\ EditsOf(NoChunk) = 0
  BY <1>2, <1>3 DEF EditsOf, Fresh
<1>5. \A ch \in Chunk : /\ ch.rev \in 0..MaxRev /\ ch.edits \in 0..MaxRev
                        /\ ch.edits <= ch.rev /\ EditsOf(ch) = ch.edits
                        /\ ch = [rev |-> ch.rev, edits |-> ch.edits]
  BY <1>2 DEF Chunk, EditsOf
<1>6. \A r \in 0..MaxRev, e \in 0..MaxRev : e <= r => [rev |-> r, edits |-> e] \in Chunk
  BY DEF Chunk
<1> QED BY <1>1, <1>2, <1>3, <1>4, <1>5, <1>6

\* What edits and light make of a chunk.
LEMMA TouchedChunk ==
  ASSUME NEW ch \in Chunk, ch.rev < MaxRev
  PROVE  /\ [ch EXCEPT !.rev = @ + 1] \in Chunk
         /\ [ch EXCEPT !.rev = @ + 1].edits = ch.edits
         /\ [ch EXCEPT !.rev = @ + 1].rev = ch.rev + 1
         /\ Edited(ch) \in Chunk
         /\ Edited(ch).edits = ch.edits + 1
         /\ Edited(ch).rev = ch.rev + 1
<1>1. /\ ch.rev \in Nat /\ ch.edits \in Nat /\ ch.edits <= ch.rev /\ MaxRev \in Nat
      /\ ch = [rev |-> ch.rev, edits |-> ch.edits]
  BY ChunkFacts
<1>2. [ch EXCEPT !.rev = @ + 1] = [rev |-> ch.rev + 1, edits |-> ch.edits]
  BY <1>1
<1>3. /\ ch.rev + 1 \in 0..MaxRev /\ ch.edits \in 0..MaxRev /\ ch.edits + 1 \in 0..MaxRev
      /\ ch.edits <= ch.rev + 1 /\ ch.edits + 1 <= ch.rev + 1
  BY <1>1
<1>4. /\ [rev |-> ch.rev + 1, edits |-> ch.edits] \in Chunk
      /\ [rev |-> ch.rev + 1, edits |-> ch.edits + 1] \in Chunk
  BY <1>3, ChunkFacts
<1> QED BY <1>2, <1>4 DEF Edited

\* Chunk v is chunk w, light aside.
Same(v, w) == v.edits = w.edits /\ (v.rev = w.rev \/ v.rev = w.rev + 1)

\* Relighting leaves the chunks and their edits, and turns no revision back.
LEMMA RelitWorld ==
  ASSUME NEW D, NEW w \in [D -> Chunk], NEW v \in Relit(w)
  PROVE  /\ v \in [D -> Chunk]
         /\ \A c \in D : Same(v[c], w[c])
<1>1. PICK lit \in SUBSET {c \in DOMAIN w : w[c].rev < MaxRev} :
        v = [c \in DOMAIN w |-> IF c \in lit THEN [w[c] EXCEPT !.rev = @ + 1] ELSE w[c]]
  BY DEF Relit
<1>2. ASSUME NEW c \in D PROVE v[c] \in Chunk /\ Same(v[c], w[c])
  <2>1. w[c] \in Chunk /\ c \in DOMAIN w
    BY <1>2
  <2>2. CASE c \in lit
    <3>1. v[c] = [w[c] EXCEPT !.rev = @ + 1] /\ w[c].rev < MaxRev
      BY <1>1, <2>1, <2>2
    <3>2. v[c] \in Chunk /\ v[c].edits = w[c].edits /\ v[c].rev = w[c].rev + 1
      BY <2>1, <3>1, TouchedChunk
    <3> QED BY <3>2 DEF Same
  <2>3. CASE c \notin lit
    <3>1. v[c] = w[c]
      BY <1>1, <2>1, <2>3
    <3> QED BY <2>1, <3>1 DEF Same
  <2> QED BY <2>2, <2>3
<1>3. v \in [D -> Chunk]
  <2>1. DOMAIN v = D /\ v = [c \in D |-> v[c]]
    BY <1>1
  <2> QED BY <1>2, <2>1
<1> QED BY <1>2, <1>3

\* Inserting chunks and relighting: the new ones are there, the others are what they were.
LEMMA GrownWorld ==
  ASSUME NEW D, NEW w \in [D -> Chunk], NEW E, NEW new \in [E -> Chunk],
         NEW v \in Relit(Inserted(w, new))
  PROVE  /\ v \in [D \union E -> Chunk]
         /\ \A c \in E : Same(v[c], new[c])
         /\ \A c \in D \ E : Same(v[c], w[c])
<1> DEFINE u == Inserted(w, new)
<1>1. /\ u \in [D \union E -> Chunk]
      /\ \A c \in E : u[c] = new[c]
      /\ \A c \in D \ E : u[c] = w[c]
  BY DEF Inserted
<1> HIDE DEF u
<1>2. v \in [D \union E -> Chunk] /\ \A c \in D \union E : Same(v[c], u[c])
  BY <1>1, RelitWorld DEF u
<1>3. \A c \in E : Same(v[c], new[c])
  BY <1>1, <1>2
<1>4. \A c \in D \ E : Same(v[c], w[c])
  BY <1>1, <1>2
<1> QED BY <1>2, <1>3, <1>4

\* A pass takes part of the backlog, and with no clock all of one that fits the budget.
LEMMA TakesPart ==
  ASSUME NEW n \in Nat, NEW before \in BOOLEAN, NEW k \in Takes(n, before)
  PROVE  k \in 0..n /\ (~TimeBudget /\ n <= IngestBudget => k = n)
<1> DEFINE most == Least(n, IngestBudget)
<1>1. IngestBudget \in Nat /\ TimeBudget \in BOOLEAN
  BY ChunkLifecycleAssumption
<1>2. most \in 0..n /\ (n <= IngestBudget => most = n)
  BY <1>1 DEF Least
<1>3. k = most \/ (TimeBudget /\ k \in 0..most)
  BY DEF Takes
<1> HIDE DEF most
<1> QED BY <1>2, <1>3

\* What the cache holds of chunk c after it was offered: what it held, if that is the chunk
\* or the chunk is as generated, and the chunk otherwise.
LEMMA SavedChunk ==
  ASSUME TypeOK, NEW c \in Loaded
  PROVE  /\ SavedIfDirty(cache, c)[c] = cache[c] \/ SavedIfDirty(cache, c)[c] = world[c]
         /\ \/ SavedIfDirty(cache, c)[c] = world[c]
            \/ world[c].rev = 0
            \/ cache[c] # NoChunk /\ cache[c].rev = world[c].rev
         /\ SavedIfDirty(cache, c) = cache => SavedIfDirty(cache, c)[c] = cache[c]
<1>1. c \in Coords /\ cache \in [Coords -> Saved] /\ DOMAIN cache = Coords
  BY DEF TypeOK, Saved
<1>2. [cache EXCEPT ![c] = world[c]][c] = world[c]
  BY <1>1
<1> QED BY <1>2 DEF SavedIfDirty

\* The cache after several chunks were offered, and the regions that makes dirty.
LEMMA SavedChunks ==
  ASSUME TypeOK, NEW cs \in SUBSET Loaded
  PROVE  /\ SavedAll(cs) \in [Coords -> Saved]
         /\ \A c \in Coords \ cs : SavedAll(cs)[c] = cache[c]
         /\ \A c \in cs : /\ SavedAll(cs)[c] = cache[c] \/ SavedAll(cs)[c] = world[c]
                          /\ \/ SavedAll(cs)[c] = world[c]
                             \/ world[c].rev = 0
                             \/ cache[c] # NoChunk /\ cache[c].rev = world[c].rev
         /\ dirty \subseteq DirtyAfter(cs) /\ DirtyAfter(cs) \in SUBSET Coords
         /\ \A c \in Coords : RegionOf[c] \notin DirtyAfter(cs) => SavedAll(cs)[c] = cache[c]
<1>1. /\ Loaded \subseteq Coords /\ cache \in [Coords -> Saved] /\ dirty \subseteq Coords
      /\ \A c \in Loaded : world[c] \in Chunk
      /\ RegionOf \in [Coords -> Coords]
  BY ChunkLifecycleAssumption DEF TypeOK, Saved
<1>2. \A c \in Coords \ cs : SavedAll(cs)[c] = cache[c]
  BY DEF SavedAll
<1>3. \A c \in cs : SavedAll(cs)[c] = SavedIfDirty(cache, c)[c]
  BY <1>1 DEF SavedAll
<1>4. \A c \in cs : /\ SavedAll(cs)[c] = cache[c] \/ SavedAll(cs)[c] = world[c]
                    /\ \/ SavedAll(cs)[c] = world[c]
                       \/ world[c].rev = 0
                       \/ cache[c] # NoChunk /\ cache[c].rev = world[c].rev
  BY <1>3, SavedChunk
<1>5. SavedAll(cs) \in [Coords -> Saved]
  <2>1. \A c \in Coords : SavedAll(cs)[c] \in Saved
    BY <1>1, <1>2, <1>4 DEF Saved
  <2>2. DOMAIN SavedAll(cs) = Coords /\ SavedAll(cs) = [c \in Coords |-> SavedAll(cs)[c]]
    BY DEF SavedAll
  <2> QED BY <2>1, <2>2
<1>6. dirty \subseteq DirtyAfter(cs) /\ DirtyAfter(cs) \in SUBSET Coords
  BY <1>1 DEF DirtyAfter
<1>7. ASSUME NEW c \in Coords, RegionOf[c] \notin DirtyAfter(cs)
      PROVE  SavedAll(cs)[c] = cache[c]
  <2>1. CASE c \notin cs
    BY <1>2, <2>1
  <2>2. CASE c \in cs
    <3>1. SavedIfDirty(cache, c) = cache
      BY <1>7, <2>2 DEF DirtyAfter
    <3> QED BY <1>3, <2>2, <3>1
  <2> QED BY <2>1, <2>2
<1> QED BY <1>2, <1>4, <1>5, <1>6, <1>7

\* Some region files are rewritten.
LEMMA WrittenFiles ==
  ASSUME NEW m \in [Coords -> Saved], disk \in [Coords -> Saved], NEW rs
  PROVE  Written(m, rs) \in [Coords -> Saved]
BY DEF Written

-----------------------------------------------------------------------------
(* What the steps of update() do *)

\* The chunks new, a function on coordinates, have joined the world; the others are as they
\* were, light aside.
Joined(new) ==
  /\ world' \in [Loaded \union DOMAIN new -> Chunk]
  /\ \A c \in DOMAIN new : Same(world'[c], new[c])
  /\ \A c \in Loaded \ DOMAIN new : Same(world'[c], world[c])

LEMMA JoinedWorld ==
  ASSUME world \in [Loaded -> Chunk], NEW E, NEW new \in [E -> Chunk],
         IF E = {} THEN UNCHANGED world ELSE world' \in Relit(Inserted(world, new))
  PROVE  Joined(new)
<1>1. DOMAIN new = E
  OBVIOUS
<1>2. CASE E = {}
  <2>1. world' = world /\ Loaded \union E = Loaded
    BY <1>2
  <2>2. \A c \in Loaded : Same(world'[c], world[c])
    BY <2>1 DEF Same
  <2> QED BY <1>1, <1>2, <2>1, <2>2 DEF Joined
<1>3. CASE E # {}
  <2>1. world' \in Relit(Inserted(world, new))
    BY <1>3
  <2>2. /\ world' \in [Loaded \union E -> Chunk]
        /\ \A c \in E : Same(world'[c], new[c])
        /\ \A c \in Loaded \ E : Same(world'[c], world[c])
    BY <2>1, GrownWorld
  <2> QED BY <1>1, <2>2 DEF Joined
<1> QED BY <1>2, <1>3

\* A poll + ingest pass takes a part of what was generated; the rest stays in the backlog.
LEMMA IngestEffect ==
  ASSUME TypeOK, NEW want \in SUBSET Coords, NEW before \in BOOLEAN, Ingest(want, before)
  PROVE  /\ backlog' \in Seq(Coords) /\ completed' = <<>> /\ UNCHANGED <<queue, in_flight>>
         /\ progressed' \in BOOLEAN
         /\ ~TimeBudget /\ Len(backlog \o completed) <= IngestBudget => backlog' = <<>>
         /\ \E popped \in SUBSET Coords :
              /\ ToSet(backlog) \union ToSet(completed) = popped \union ToSet(backlog')
              /\ requested' = requested \ popped
              /\ Joined([c \in popped \intersect want |-> Fresh])
<1> DEFINE finished == backlog \o completed
<1>1. /\ backlog \in Seq(Coords) /\ completed \in Seq(Coords)
      /\ world \in [Loaded -> Chunk] /\ requested \subseteq Coords
  BY DEF TypeOK
<1>2. /\ finished \in Seq(Coords) /\ Len(finished) \in Nat
      /\ ToSet(finished) = ToSet(backlog) \union ToSet(completed)
  BY <1>1, ConcatProperties, LenProperties, ToSetConcat
<1> HIDE DEF finished
<1>3. PICK k \in Takes(Len(finished), before) :
        /\ backlog' = Rest(finished, k)
        /\ requested' = StillRequested(ToSet(SubSeq(finished, 1, k)))
        /\ IF ToSet(SubSeq(finished, 1, k)) \intersect want = {} THEN UNCHANGED world
           ELSE world' \in Relit(Inserted(world,
                             [c \in ToSet(SubSeq(finished, 1, k)) \intersect want |-> Fresh]))
        /\ progressed' = (before \/ k > 0)
  BY DEF Ingest, finished
<1>4. completed' = <<>> /\ UNCHANGED <<queue, in_flight>>
  BY DEF Ingest, Poll
<1>5. /\ k \in 0..Len(finished)
      /\ ~TimeBudget /\ Len(finished) <= IngestBudget => k = Len(finished)
  BY <1>2, TakesPart
<1> DEFINE popped == ToSet(SubSeq(finished, 1, k))
<1>6. /\ SubSeq(finished, 1, k) \in Seq(Coords) /\ backlog' \in Seq(Coords)
      /\ ToSet(finished) = popped \union ToSet(backlog')
  BY <1>2, <1>3, <1>5, ToSetCut DEF Rest
<1>7. popped \in SUBSET Coords
  BY <1>6, ToSetInSet
<1>8. Joined([c \in popped \intersect want |-> Fresh])
  <2>1. [c \in popped \intersect want |-> Fresh] \in [popped \intersect want -> Chunk]
    BY ChunkFacts
  <2> QED BY <1>1, <1>3, <2>1, JoinedWorld
<1>9. k = Len(finished) => backlog' = <<>>
  <2>1. Len(finished) + 1 \in Int /\ Len(finished) \in Int /\ Len(finished) < Len(finished) + 1
    BY <1>2
  <2>2. SubSeq(finished, Len(finished) + 1, Len(finished)) = <<>>
    BY <2>1, SubSeqEmpty
  <2> QED BY <1>3, <2>2 DEF Rest
<1>10. requested' = requested \ popped
  BY <1>3 DEF StillRequested
<1>11. progressed' \in BOOLEAN
  BY <1>3
<1>12. ~TimeBudget /\ Len(backlog \o completed) <= IngestBudget => backlog' = <<>>
  BY <1>5, <1>9 DEF finished
<1> HIDE DEF popped
<1> QED BY <1>2, <1>4, <1>6, <1>7, <1>8, <1>10, <1>11, <1>12

\* The second step asks the pool for the missing chunks that are not saved, loads some of
\* those that are, and does nothing to any other.
LEMMA RequestEffect ==
  ASSUME TypeOK, Request
  PROVE  \E submit \in SUBSET ((wanted \ Loaded) \ requested),
            load \in SUBSET ((wanted \ Loaded) \ requested) :
           /\ submit \intersect load = {}
           /\ \A c \in submit : Persist => cache[c] = NoChunk
           /\ \A c \in load : cache[c] # NoChunk
           /\ requested' = requested \union submit
           /\ Joined([c \in load |-> cache[c]])
           /\ \E cs \in Seq(Coords) :
                /\ ToSet(cs) = submit /\ Len(cs) = Cardinality(submit)
                /\ IF MaxInFlight = 0 THEN completed' = completed \o cs /\ UNCHANGED queue
                                      ELSE queue' = queue \o cs /\ UNCHANGED completed
           /\ UNCHANGED <<in_flight, backlog, wanted, storeVars, histVars>>
           /\ progressed' \in BOOLEAN /\ step = "request" /\ step' = "ingest"
<1> DEFINE missing == (wanted \ Loaded) \ requested
           hits == IF Persist THEN {c \in missing : cache[c] # NoChunk} ELSE {}
           submit == {c \in missing \ hits : ~Pending(c)}
<1>1. /\ wanted \subseteq Coords /\ requested \subseteq Coords /\ world \in [Loaded -> Chunk]
      /\ cache \in [Coords -> Saved] /\ progressed \in BOOLEAN /\ IsFiniteSet(Coords)
  BY ChunkLifecycleAssumption DEF TypeOK, Saved
<1>2. /\ SubmitAll(SetToSeq(submit))
      /\ requested' = requested \union submit
      /\ step = "request" /\ step' = "ingest"
      /\ UNCHANGED <<backlog, wanted, storeVars, histVars>>
  BY DEF Request
<1>3. PICK load \in DiskLoads(hits) :
        /\ IF load = {} THEN UNCHANGED world
           ELSE world' \in Relit(Inserted(world, [c \in load |-> cache[c]]))
        /\ progressed' = (progressed \/ load # {})
  BY DEF Request
<1>4. load \subseteq hits
  BY DEF DiskLoads
<1>5. IsFiniteSet(submit) /\ submit \subseteq Coords
  BY <1>1, FS_Subset
<1>6. /\ SetToSeq(submit) \in Seq(Coords) /\ ToSet(SetToSeq(submit)) = submit
      /\ Len(SetToSeq(submit)) = Cardinality(submit)
  <2> HIDE DEF submit
  <2>1. /\ SetToSeq(submit) \in Seq(submit) /\ ToSet(SetToSeq(submit)) = submit
        /\ Len(SetToSeq(submit)) = Cardinality(submit)
    BY <1>5, SetToSeqLists
  <2>2. SetToSeq(submit) \in Seq(Coords)
    BY <1>5, <2>1, SeqMonotonic
  <2> QED BY <2>1, <2>2
<1>7. Joined([c \in load |-> cache[c]])
  <2>1. \A c \in load : cache[c] \in Chunk
    BY <1>1, <1>4 DEF Saved
  <2>2. [c \in load |-> cache[c]] \in [load -> Chunk]
    BY <2>1
  <2> QED BY <1>1, <1>3, <2>2, JoinedWorld
<1>8. /\ IF MaxInFlight = 0
         THEN completed' = completed \o SetToSeq(submit) /\ UNCHANGED queue
         ELSE queue' = queue \o SetToSeq(submit) /\ UNCHANGED completed
      /\ UNCHANGED in_flight
  BY <1>2 DEF SubmitAll
<1>9. /\ submit \in SUBSET missing /\ load \in SUBSET missing /\ submit \intersect load = {}
      /\ \A c \in submit : Persist => cache[c] = NoChunk
      /\ \A c \in load : cache[c] # NoChunk
  BY <1>4
<1>10. progressed' \in BOOLEAN
  BY <1>1, <1>3
<1> HIDE DEF submit, hits
<1> QED BY <1>2, <1>6, <1>7, <1>8, <1>9, <1>10

\* The number of edits of what the store holds of a chunk.
LEMMA SavedEdits ==
  /\ \A x \in Saved : EditsOf(x) \in 0..MaxRev
  /\ NoChunk \in Saved /\ Chunk \subseteq Saved
BY ChunkFacts DEF Saved

\* An accepted edit shows in the chunk and in the history; the other chunks are as they were,
\* light aside.
LEMMA EditEffect ==
  ASSUME TypeOK, NEW c \in Coords, Edit(c)
  PROVE  /\ world' \in [Loaded -> Chunk]
         /\ c \in Loaded
         /\ world'[c].edits = world[c].edits + 1 /\ world'[c].rev > world[c].rev
         /\ \A d \in Loaded \ {c} : Same(world'[d], world[d])
         /\ world[c].edits < MaxRev
         /\ step = "idle"
         /\ accepted' = [accepted EXCEPT ![c] = Least(@ + 1, MaxRev)]
         /\ UNCHANGED <<genVars, backlog, requested, tickVars, storeVars, swept>>
<1> DEFINE w == [world EXCEPT ![c] = Edited(@)]
<1>1. /\ c \in Loaded /\ world[c].rev < MaxRev /\ world' \in Relit(w)
      /\ step = "idle"
      /\ accepted' = [accepted EXCEPT ![c] = Least(@ + 1, MaxRev)]
      /\ UNCHANGED <<genVars, backlog, requested, tickVars, storeVars, swept>>
  BY DEF Edit
<1>2. world \in [Loaded -> Chunk] /\ world[c] \in Chunk
  BY <1>1 DEF TypeOK
<1>3. /\ Edited(world[c]) \in Chunk
      /\ Edited(world[c]).edits = world[c].edits + 1
      /\ Edited(world[c]).rev = world[c].rev + 1
  BY <1>1, <1>2, TouchedChunk
<1>4. /\ w \in [Loaded -> Chunk] /\ w[c] = Edited(world[c])
      /\ \A d \in Loaded \ {c} : w[d] = world[d]
  BY <1>1, <1>2, <1>3
<1> HIDE DEF w
<1>5. /\ world' \in [Loaded -> Chunk]
      /\ \A d \in Loaded : Same(world'[d], w[d])
  BY <1>1, <1>4, RelitWorld
<1>6. \A d \in Loaded \ {c} : Same(world'[d], world[d])
  BY <1>4, <1>5
<1>7. world'[c].edits = world[c].edits + 1 /\ world'[c].rev > world[c].rev
  <2>1. Same(world'[c], Edited(world[c]))
    BY <1>1, <1>4, <1>5
  <2>2. world[c].rev \in Nat
    BY <1>2, ChunkFacts
  <2> QED BY <1>3, <2>1, <2>2 DEF Same
<1>8. world[c].edits < MaxRev
  BY <1>1, <1>2, ChunkFacts
<1> QED BY <1>1, <1>5, <1>6, <1>7, <1>8

\* A sweep brings the cache up to date with the world, and the files of all regions but the
\* failed ones up to date with the cache.
LEMMA SweepEffect ==
  ASSUME TypeOK, Sweep
  PROVE  \E failed \in SUBSET DirtyAfter(Loaded) :
           /\ cache' = SavedAll(Loaded)
           /\ disk' = Written(SavedAll(Loaded), DirtyAfter(Loaded) \ failed)
           /\ dirty' = failed
           /\ swept' = [c \in Coords |-> IF RegionOf[c] \in failed THEN swept[c]
                                         ELSE EditsOf(SavedAll(Loaded)[c])]
           /\ cache' \in [Coords -> Saved] /\ disk' \in [Coords -> Saved]
           /\ dirty' \in SUBSET Coords /\ swept' \in [Coords -> 0..MaxRev]
<1>1. PICK failed \in SUBSET DirtyAfter(Loaded) :
        /\ cache' = SavedAll(Loaded)
        /\ disk' = Written(SavedAll(Loaded), DirtyAfter(Loaded) \ failed)
        /\ dirty' = failed
        /\ swept' = [c \in Coords |-> IF RegionOf[c] \in failed THEN swept[c]
                                      ELSE EditsOf(SavedAll(Loaded)[c])]
  BY DEF Sweep
<1>2. SavedAll(Loaded) \in [Coords -> Saved] /\ DirtyAfter(Loaded) \in SUBSET Coords
  BY SavedChunks
<1>3. disk \in [Coords -> Saved] /\ swept \in [Coords -> 0..MaxRev]
  BY DEF TypeOK, Saved
<1>4. disk' \in [Coords -> Saved]
  BY <1>1, <1>2, <1>3, WrittenFiles
<1>5. swept' \in [Coords -> 0..MaxRev]
  <2>1. \A c \in Coords : EditsOf(SavedAll(Loaded)[c]) \in 0..MaxRev
    BY <1>2, SavedEdits
  <2> QED BY <1>1, <1>3, <2>1
<1> QED BY <1>1, <1>2, <1>4, <1>5

\* The files a crash in the middle of a flush leaves: of some regions as they were or as they
\* should be, of one none.
TornFiles(torn, done) ==
  [c \in Coords |-> IF RegionOf[c] = torn THEN NoChunk
                    ELSE Written(SavedAll(Loaded), done)[c]]

\* After a crash the server knows what is in the files.
LEMMA CrashEffect ==
  ASSUME TypeOK, NEW files \in [Coords -> Saved], CrashWith(files)
  PROVE  /\ Forget /\ step' = "idle"
         /\ disk' = files /\ cache' = files /\ dirty' = {}
         /\ accepted' = [c \in Coords |-> EditsOf(files[c])]
         /\ accepted' \in [Coords -> 0..MaxRev]
<1>1. /\ Forget /\ step' = "idle"
      /\ disk' = files /\ cache' = files /\ dirty' = {}
      /\ accepted' = [c \in Coords |-> EditsOf(files[c])]
  BY DEF CrashWith
<1>2. \A c \in Coords : EditsOf(files[c]) \in 0..MaxRev
  BY SavedEdits
<1> QED BY <1>1, <1>2

\* A crash in a flush, in these words.
LEMMA TornEffect ==
  ASSUME TypeOK, CrashInFlush
  PROVE  \E torn \in DirtyAfter(Loaded), done \in SUBSET DirtyAfter(Loaded) :
           /\ torn \notin done /\ step = "idle" /\ Persist
           /\ TornFiles(torn, done) \in [Coords -> Saved]
           /\ CrashWith(TornFiles(torn, done))
           /\ swept' = [c \in Coords |-> IF RegionOf[c] = torn THEN 0 ELSE swept[c]]
           /\ swept' \in [Coords -> 0..MaxRev]
<1>1. step = "idle" /\ Persist
  BY DEF CrashInFlush
<1>2. PICK torn \in DirtyAfter(Loaded), done \in SUBSET DirtyAfter(Loaded) :
        /\ torn \notin done
        /\ CrashWith(TornFiles(torn, done))
        /\ swept' = [c \in Coords |-> IF RegionOf[c] = torn THEN 0 ELSE swept[c]]
  BY DEF CrashInFlush, TornFiles
<1>3. Written(SavedAll(Loaded), done) \in [Coords -> Saved]
  <2>1. SavedAll(Loaded) \in [Coords -> Saved]
    BY SavedChunks
  <2>2. disk \in [Coords -> Saved]
    BY DEF TypeOK, Saved
  <2> QED BY <2>1, <2>2, WrittenFiles
<1>4. TornFiles(torn, done) \in [Coords -> Saved]
  BY <1>3, SavedEdits DEF TornFiles
<1>5. swept' \in [Coords -> 0..MaxRev]
  BY <1>2, ChunkFacts DEF TypeOK
<1> QED BY <1>1, <1>2, <1>4, <1>5

-----------------------------------------------------------------------------
(* Types *)

\* What Forget leaves has its types.
LEMMA Forgotten ==
  ASSUME Forget
  PROVE  /\ queue' \in Seq(Coords) /\ in_flight' = {} /\ completed' \in Seq(Coords)
         /\ backlog' \in Seq(Coords) /\ requested' = {} /\ Loaded' = {}
         /\ ToSet(backlog') = {} /\ ToSet(completed') = {} /\ ToSet(queue') = {}
         /\ world' \in [Loaded' -> Chunk] /\ wanted' = {} /\ progressed' = FALSE
         /\ queue' = <<>> /\ completed' = <<>> /\ backlog' = <<>>
<1>1. <<>> \in Seq(Coords)
  BY EmptySeq
<1>2. DOMAIN << >> = {} /\ << >> \in [{} -> Chunk]
  OBVIOUS
<1>3. /\ queue' = <<>> /\ in_flight' = {} /\ completed' = <<>> /\ backlog' = <<>>
      /\ requested' = {} /\ world' = << >> /\ wanted' = {} /\ progressed' = FALSE
  BY DEF Forget
<1> QED BY <1>1, <1>2, <1>3, ToSetEmpty DEF Loaded

LEMMA InitTypes == Init => TypeOK
<1> SUFFICES ASSUME Init PROVE TypeOK
  OBVIOUS
<1>1. <<>> \in Seq(Coords)
  BY EmptySeq
<1>2. DOMAIN << >> = {} /\ << >> \in [{} -> Chunk]
  OBVIOUS
<1> QED BY <1>1, <1>2, ChunkFacts DEF Init, GenInit, TypeOK, Loaded

LEMMA TypesNext == TypeOK /\ [Next]_vars => TypeOK'
<1> SUFFICES ASSUME TypeOK, [Next]_vars PROVE TypeOK'
  OBVIOUS
<1> USE DEF Saved, Loaded
<1>0. /\ Views \subseteq SUBSET Coords /\ RegionOf \in [Coords -> Coords]
      /\ MaxInFlight \in Nat
  BY ChunkLifecycleAssumption, ChunkGenerationAssumption
<1>1. ASSUME NEW want \in Views, BeginUpdate(want) PROVE TypeOK'
  <2>1. want \in SUBSET Coords /\ Ingest(want, FALSE)
    BY <1>0, <1>1 DEF BeginUpdate
  <2>2. /\ backlog' \in Seq(Coords) /\ completed' = <<>> /\ UNCHANGED <<queue, in_flight>>
        /\ progressed' \in BOOLEAN
    BY <2>1, IngestEffect
  <2>3. PICK popped \in SUBSET Coords :
          /\ requested' = requested \ popped
          /\ Joined([c \in popped \intersect want |-> Fresh])
    BY <2>1, IngestEffect
  <2>4. /\ wanted' = want /\ step' = "request"
        /\ UNCHANGED <<cache, dirty, disk, accepted, swept>>
    BY <1>1 DEF BeginUpdate, storeVars, histVars
  <2>5. Loaded' \subseteq Coords /\ world' \in [Loaded' -> Chunk]
    BY <2>3 DEF Joined, TypeOK
  <2> QED BY <2>1, <2>2, <2>3, <2>4, <2>5, EmptySeq DEF TypeOK
<1>2. ASSUME Request PROVE TypeOK'
  <2>1. PICK submit \in SUBSET ((wanted \ Loaded) \ requested),
             load \in SUBSET ((wanted \ Loaded) \ requested), cs \in Seq(Coords) :
          /\ requested' = requested \union submit
          /\ Joined([c \in load |-> cache[c]])
          /\ IF MaxInFlight = 0 THEN completed' = completed \o cs /\ UNCHANGED queue
                                ELSE queue' = queue \o cs /\ UNCHANGED completed
          /\ UNCHANGED <<in_flight, backlog, wanted, storeVars, histVars>>
          /\ progressed' \in BOOLEAN /\ step' = "ingest"
    BY <1>2, RequestEffect
  <2>2. Loaded' \subseteq Coords /\ world' \in [Loaded' -> Chunk]
    BY <2>1 DEF Joined, TypeOK
  <2>3. queue' \in Seq(Coords) /\ completed' \in Seq(Coords)
    <3>1. queue \in Seq(Coords) /\ completed \in Seq(Coords)
      BY DEF TypeOK
    <3>2. queue \o cs \in Seq(Coords) /\ completed \o cs \in Seq(Coords)
      BY <3>1, ConcatProperties
    <3> QED BY <2>1, <3>1, <3>2
  <2> QED BY <2>1, <2>2, <2>3 DEF TypeOK, storeVars, histVars
<1>3. ASSUME IngestAgain PROVE TypeOK'
  <2>1. Ingest(wanted, progressed) /\ wanted \in SUBSET Coords /\ progressed \in BOOLEAN
    BY <1>3 DEF IngestAgain, TypeOK
  <2>2. /\ backlog' \in Seq(Coords) /\ completed' = <<>> /\ UNCHANGED <<queue, in_flight>>
        /\ progressed' \in BOOLEAN
    BY <2>1, IngestEffect
  <2>3. PICK popped \in SUBSET Coords :
          /\ requested' = requested \ popped
          /\ Joined([c \in popped \intersect wanted |-> Fresh])
    BY <2>1, IngestEffect
  <2>4. step' = "unload" /\ UNCHANGED <<wanted, cache, dirty, disk, accepted, swept>>
    BY <1>3 DEF IngestAgain, storeVars, histVars
  <2>5. Loaded' \subseteq Coords /\ world' \in [Loaded' -> Chunk]
    BY <2>3 DEF Joined, TypeOK
  <2> QED BY <2>2, <2>3, <2>4, <2>5, EmptySeq DEF TypeOK
<1>4. ASSUME Unload PROVE TypeOK'
  <2>1. Evicted \in SUBSET Loaded
    BY DEF Evicted
  <2>2. cache' \in [Coords -> Saved] /\ dirty' \in SUBSET Coords
    BY <1>4, <2>1, SavedChunks DEF Unload, TypeOK
  <2>3. Loaded' \subseteq Coords /\ world' \in [Loaded' -> Chunk]
    BY <1>4 DEF Unload, TypeOK
  <2> QED BY <1>4, <2>2, <2>3 DEF Unload, TypeOK, genVars, histVars
<1>5. ASSUME Take, UNCHANGED <<backlog, requested, world, tickVars, storeVars, histVars>>
      PROVE  TypeOK'
  <2>1. Head(queue) \in Coords /\ Tail(queue) \in Seq(Coords)
    BY <1>5, HeadTailProperties DEF Take, TypeOK
  <2> QED BY <1>5, <2>1 DEF Take, TypeOK, tickVars, storeVars, histVars
<1>6. ASSUME NEW c \in Coords, Finish(c),
             UNCHANGED <<backlog, requested, world, tickVars, storeVars, histVars>>
      PROVE  TypeOK'
  <2>1. Append(completed, c) \in Seq(Coords)
    BY AppendProperties DEF TypeOK
  <2> QED BY <1>6, <2>1 DEF Finish, TypeOK, tickVars, storeVars, histVars
<1>7. ASSUME NEW c \in Coords, Edit(c) PROVE TypeOK'
  <2>1. /\ world' \in [Loaded -> Chunk] /\ accepted' = [accepted EXCEPT ![c] = Least(@ + 1, MaxRev)]
        /\ UNCHANGED <<genVars, backlog, requested, tickVars, storeVars, swept>>
    BY <1>7, EditEffect
  <2>2. accepted' \in [Coords -> 0..MaxRev]
    <3>1. Least(accepted[c] + 1, MaxRev) \in 0..MaxRev
      BY ChunkFacts DEF TypeOK, Least
    <3> QED BY <2>1, <3>1 DEF TypeOK
  <2>3. Loaded' = Loaded
    BY <2>1
  <2> QED BY <2>1, <2>2, <2>3 DEF TypeOK, genVars, tickVars, storeVars
<1>8. ASSUME Autosave PROVE TypeOK'
  <2>1. /\ cache' \in [Coords -> Saved] /\ disk' \in [Coords -> Saved]
        /\ dirty' \in SUBSET Coords /\ swept' \in [Coords -> 0..MaxRev]
    BY <1>8, SweepEffect DEF Autosave
  <2> QED BY <1>8, <2>1 DEF Autosave, TypeOK, genVars, tickVars
<1>9. ASSUME Shutdown PROVE TypeOK'
  <2>1. /\ cache' \in [Coords -> Saved] /\ disk' \in [Coords -> Saved]
        /\ dirty' \in SUBSET Coords /\ swept' \in [Coords -> 0..MaxRev]
    BY <1>9, SweepEffect DEF Shutdown
  <2>2. Forget /\ step' = "stopped" /\ UNCHANGED accepted
    BY <1>9 DEF Shutdown
  <2> QED BY <2>1, <2>2, Forgotten DEF TypeOK
<1>10. ASSUME Restart PROVE TypeOK'
  <2>1. \A c \in Coords : EditsOf(disk[c]) \in 0..MaxRev
    BY SavedEdits DEF TypeOK
  <2>2. accepted' \in [Coords -> 0..MaxRev]
    BY <1>10, <2>1 DEF Restart
  <2> QED BY <1>10, <2>2 DEF Restart, TypeOK, genVars
<1>11. ASSUME Crash PROVE TypeOK'
  <2>1. disk \in [Coords -> Saved] /\ CrashWith(disk) /\ UNCHANGED swept
    BY <1>11 DEF Crash, TypeOK
  <2>2. /\ Forget /\ step' = "idle" /\ disk' = disk /\ cache' = disk /\ dirty' = {}
        /\ accepted' \in [Coords -> 0..MaxRev]
    BY <2>1, CrashEffect
  <2> QED BY <2>1, <2>2, Forgotten DEF TypeOK
<1>12. ASSUME CrashInFlush PROVE TypeOK'
  <2>1. PICK torn \in DirtyAfter(Loaded), done \in SUBSET DirtyAfter(Loaded) :
          /\ TornFiles(torn, done) \in [Coords -> Saved]
          /\ CrashWith(TornFiles(torn, done))
          /\ swept' \in [Coords -> 0..MaxRev]
    BY <1>12, TornEffect
  <2> DEFINE files == TornFiles(torn, done)
  <2> HIDE DEF files
  <2>2. files \in [Coords -> Saved] /\ CrashWith(files)
    BY <2>1 DEF files
  <2>3. /\ Forget /\ step' = "idle" /\ disk' = files /\ cache' = files /\ dirty' = {}
        /\ accepted' \in [Coords -> 0..MaxRev]
    BY <2>2, CrashEffect
  <2> QED BY <2>1, <2>2, <2>3, Forgotten DEF TypeOK
<1>13. ASSUME UNCHANGED vars PROVE TypeOK'
  BY <1>13 DEF TypeOK, vars, genVars, tickVars, storeVars, histVars
<1> QED BY <1>1, <1>2, <1>3, <1>4, <1>5, <1>6, <1>7, <1>8, <1>9, <1>10, <1>11, <1>12, <1>13
        DEF Next, Update, Generate

\* The members of the pool's client, the world and the region store hold what their headers
\* declare, however many chunks, workers and faults there are.
THEOREM TypeCorrect == Spec => []TypeOK
<1>1. Init => TypeOK
  BY InitTypes
<1>2. TypeOK /\ [Next]_vars => TypeOK'
  BY TypesNext
<1> QED BY <1>1, <1>2, PTL DEF Spec

-----------------------------------------------------------------------------
(* Requests and what they bring *)

StoppedIsEmpty == step = "stopped" => Loaded = {} /\ requested = {}

\* What update() knows of the pool and the world.
StreamInv == RequestIsAlive /\ RequestedNotLoaded /\ OnlyWantedLoaded /\ StoppedIsEmpty

\* The coordinates that are on their way.
Coming == in_flight \union ToSet(queue) \union ToSet(completed) \union ToSet(backlog)

LEMMA Alive == RequestIsAlive <=> requested \subseteq Coming
BY DEF RequestIsAlive, Coming, Pending

LEMMA AliveNext == RequestIsAlive' <=> requested' \subseteq Coming'
BY DEF RequestIsAlive, Coming, Pending

\* A pass removes from the requests what it takes from the pipeline.
LEMMA IngestKeepsRequests ==
  ASSUME TypeOK, StreamInv, NEW want \in SUBSET Coords, NEW before \in BOOLEAN,
         Ingest(want, before)
  PROVE  RequestIsAlive' /\ RequestedNotLoaded'
<1>1. completed' = <<>> /\ UNCHANGED <<queue, in_flight>>
  BY IngestEffect
<1>2. PICK popped \in SUBSET Coords :
        /\ ToSet(backlog) \union ToSet(completed) = popped \union ToSet(backlog')
        /\ requested' = requested \ popped
        /\ Joined([c \in popped \intersect want |-> Fresh])
  BY IngestEffect
<1>3. Coming \ popped \subseteq Coming'
  BY <1>1, <1>2 DEF Coming
<1>4. Loaded' = Loaded \union (popped \intersect want)
  BY <1>2 DEF Joined, Loaded
<1>5. RequestIsAlive'
  BY <1>2, <1>3, Alive, AliveNext DEF StreamInv
<1>6. RequestedNotLoaded'
  BY <1>2, <1>4 DEF StreamInv, RequestedNotLoaded
<1> QED BY <1>5, <1>6

LEMMA StreamNext == TypeOK /\ StreamInv /\ [Next]_vars => StreamInv'
<1> SUFFICES ASSUME TypeOK, StreamInv, [Next]_vars PROVE StreamInv'
  OBVIOUS
<1>0. Views \subseteq SUBSET Coords /\ MaxInFlight \in Nat
  BY ChunkLifecycleAssumption, ChunkGenerationAssumption
<1>1. ASSUME NEW want \in Views, BeginUpdate(want) PROVE StreamInv'
  <2>1. want \in SUBSET Coords /\ Ingest(want, FALSE) /\ step' = "request"
    BY <1>0, <1>1 DEF BeginUpdate
  <2>2. RequestIsAlive' /\ RequestedNotLoaded'
    BY <2>1, IngestKeepsRequests
  <2> QED BY <2>1, <2>2 DEF StreamInv, OnlyWantedLoaded, StoppedIsEmpty
<1>2. ASSUME Request PROVE StreamInv'
  <2>1. PICK submit \in SUBSET ((wanted \ Loaded) \ requested),
             load \in SUBSET ((wanted \ Loaded) \ requested), cs \in Seq(Coords) :
          /\ submit \intersect load = {}
          /\ requested' = requested \union submit
          /\ Joined([c \in load |-> cache[c]])
          /\ ToSet(cs) = submit
          /\ IF MaxInFlight = 0 THEN completed' = completed \o cs /\ UNCHANGED queue
                                ELSE queue' = queue \o cs /\ UNCHANGED completed
          /\ UNCHANGED <<in_flight, backlog>>
          /\ step' = "ingest"
    BY <1>2, RequestEffect
  <2>2. /\ ToSet(completed \o cs) = ToSet(completed) \union submit
        /\ ToSet(queue \o cs) = ToSet(queue) \union submit
    BY <2>1, ToSetConcat DEF TypeOK
  <2>3. Coming' = Coming \union submit
    BY <2>1, <2>2 DEF Coming
  <2>4. RequestIsAlive'
    BY <2>1, <2>3, Alive, AliveNext DEF StreamInv
  <2>5. Loaded' = Loaded \union load
    BY <2>1 DEF Joined, Loaded
  <2>6. RequestedNotLoaded'
    BY <2>1, <2>5 DEF StreamInv, RequestedNotLoaded
  <2> QED BY <2>1, <2>4, <2>6 DEF StreamInv, OnlyWantedLoaded, StoppedIsEmpty
<1>3. ASSUME IngestAgain PROVE StreamInv'
  <2>1. /\ wanted \in SUBSET Coords /\ progressed \in BOOLEAN
        /\ Ingest(wanted, progressed) /\ step' = "unload"
    BY <1>3 DEF IngestAgain, TypeOK
  <2>2. RequestIsAlive' /\ RequestedNotLoaded'
    BY <2>1, IngestKeepsRequests
  <2> QED BY <2>1, <2>2 DEF StreamInv, OnlyWantedLoaded, StoppedIsEmpty
<1>4. ASSUME Unload PROVE StreamInv'
  <2>1. /\ Loaded' = Loaded \intersect wanted /\ requested' = requested \intersect wanted
        /\ UNCHANGED <<queue, in_flight, completed, backlog, wanted>> /\ step' = "idle"
    BY <1>4 DEF Unload, Loaded, Evicted, genVars
  <2>2. RequestIsAlive'
    BY <2>1, Alive, AliveNext DEF StreamInv, Coming
  <2> QED BY <2>1, <2>2 DEF StreamInv, RequestedNotLoaded, OnlyWantedLoaded, StoppedIsEmpty
<1> DEFINE Outside == UNCHANGED <<backlog, requested, world, tickVars, storeVars, histVars>>
<1>5. ASSUME Generate, Outside PROVE StreamInv'
  <2>1. UNCHANGED <<backlog, requested, world, wanted, step>> /\ Loaded' = Loaded
    BY <1>5 DEF tickVars, Loaded
  <2>2. Coming \subseteq Coming'
    <3>1. CASE Take
      <4>1. ToSet(queue) = {Head(queue)} \union ToSet(Tail(queue))
        BY <3>1, ToSetHeadTail DEF Take, TypeOK
      <4> QED BY <2>1, <3>1, <4>1 DEF Take, Coming
    <3>2. ASSUME NEW c \in Coords, Finish(c) PROVE Coming \subseteq Coming'
      <4>1. ToSet(Append(completed, c)) = ToSet(completed) \union {c}
        BY ToSetAppend DEF TypeOK
      <4> QED BY <2>1, <3>2, <4>1 DEF Finish, Coming
    <3> QED BY <1>5, <3>1, <3>2 DEF Generate
  <2>3. RequestIsAlive'
    BY <2>1, <2>2, Alive, AliveNext DEF StreamInv
  <2> QED BY <2>1, <2>3 DEF StreamInv, RequestedNotLoaded, OnlyWantedLoaded, StoppedIsEmpty
<1>6. ASSUME NEW c \in Coords, Edit(c) PROVE StreamInv'
  <2>1. /\ UNCHANGED <<queue, in_flight, completed, backlog, requested, wanted, step>>
        /\ Loaded' = Loaded
    BY <1>6, EditEffect DEF genVars, tickVars, Loaded
  <2>2. RequestIsAlive'
    BY <2>1, Alive, AliveNext DEF StreamInv, Coming
  <2> QED BY <2>1, <2>2 DEF StreamInv, RequestedNotLoaded, OnlyWantedLoaded, StoppedIsEmpty
<1>7. ASSUME UNCHANGED <<queue, in_flight, completed, backlog, requested, world, wanted, step>>
      PROVE  StreamInv'
  <2>1. Loaded' = Loaded /\ Coming' = Coming
    BY <1>7 DEF Loaded, Coming
  <2>2. RequestIsAlive'
    BY <1>7, <2>1, Alive, AliveNext DEF StreamInv
  <2> QED BY <1>7, <2>1, <2>2 DEF StreamInv, RequestedNotLoaded, OnlyWantedLoaded, StoppedIsEmpty
<1>8. ASSUME Autosave PROVE StreamInv'
  BY <1>7, <1>8 DEF Autosave, genVars, tickVars
<1>9. ASSUME Forget PROVE StreamInv'
  <2>1. requested' = {} /\ Loaded' = {}
    BY <1>9, Forgotten
  <2>2. RequestIsAlive'
    BY <2>1, AliveNext
  <2> QED BY <2>1, <2>2 DEF StreamInv, RequestedNotLoaded, OnlyWantedLoaded, StoppedIsEmpty
<1>10. ASSUME Restart PROVE StreamInv'
  <2>1. /\ UNCHANGED <<queue, in_flight, completed, backlog, requested, world, wanted>>
        /\ requested = {} /\ Loaded = {} /\ step' = "idle" /\ Loaded' = Loaded
    BY <1>10 DEF Restart, genVars, StreamInv, StoppedIsEmpty, Loaded
  <2>2. RequestIsAlive'
    BY <2>1, AliveNext
  <2> QED BY <2>1, <2>2 DEF StreamInv, RequestedNotLoaded, OnlyWantedLoaded, StoppedIsEmpty
<1>11. ASSUME Shutdown \/ Crash \/ CrashInFlush PROVE StreamInv'
  <2>1. Forget
    BY <1>11 DEF Shutdown, Crash, CrashInFlush, CrashWith
  <2> QED BY <1>9, <2>1
<1>12. ASSUME UNCHANGED vars PROVE StreamInv'
  BY <1>7, <1>12 DEF vars, genVars, tickVars
<1> QED BY <1>1, <1>2, <1>3, <1>4, <1>5, <1>6, <1>8, <1>10, <1>11, <1>12 DEF Next, Update

LEMMA InitStream == Init => StreamInv
<1> SUFFICES ASSUME Init PROVE StreamInv
  OBVIOUS
<1>1. Loaded = {} /\ requested = {}
  BY DEF Init, Loaded
<1> QED BY <1>1
        DEF StreamInv, RequestIsAlive, RequestedNotLoaded, OnlyWantedLoaded, StoppedIsEmpty

\* What update() waits for is on its way and not loaded, and between updates nothing is loaded
\* or asked for that is not wanted: whatever the budgets, the faults and the order in which
\* workers finish, no coordinate is skipped for good (ChunkLifecycleSystem::requested_).
THEOREM RequestsFollow == Spec => [](RequestIsAlive /\ RequestedNotLoaded /\ OnlyWantedLoaded)
<1> DEFINE Inv == TypeOK /\ StreamInv
<1>1. Init => Inv
  BY InitTypes, InitStream
<1>2. Inv /\ [Next]_vars => Inv'
  BY TypesNext, StreamNext
<1>3. Inv => RequestIsAlive /\ RequestedNotLoaded /\ OnlyWantedLoaded
  BY DEF StreamInv
<1> HIDE DEF Inv
<1> QED BY <1>1, <1>2, <1>3, PTL DEF Spec

-----------------------------------------------------------------------------
(* What is on disk *)

\* A completed sweep leaves no clean region behind its file.
LEMMA SweepCleans ==
  ASSUME TypeOK, CleanRegionIsOnDisk, step # "stopped", Sweep
  PROVE  \A c \in Coords : RegionOf[c] \notin dirty' => disk'[c] = cache'[c]
<1>1. PICK failed \in SUBSET DirtyAfter(Loaded) :
        /\ cache' = SavedAll(Loaded)
        /\ disk' = Written(SavedAll(Loaded), DirtyAfter(Loaded) \ failed)
        /\ dirty' = failed
  BY SweepEffect
<1>2. ASSUME NEW c \in Coords, RegionOf[c] \notin dirty' PROVE disk'[c] = cache'[c]
  <2>1. CASE RegionOf[c] \in DirtyAfter(Loaded)
    BY <1>1, <1>2, <2>1 DEF Written
  <2>2. CASE RegionOf[c] \notin DirtyAfter(Loaded)
    <3>1. RegionOf[c] \notin dirty /\ SavedAll(Loaded)[c] = cache[c]
      BY <2>2, SavedChunks
    <3>2. disk[c] = cache[c]
      BY <3>1 DEF CleanRegionIsOnDisk
    <3> QED BY <1>1, <2>2, <3>1, <3>2 DEF Written
  <2> QED BY <2>1, <2>2
<1> QED BY <1>2

LEMMA CleanNext == TypeOK /\ CleanRegionIsOnDisk /\ [Next]_vars => CleanRegionIsOnDisk'
<1> SUFFICES ASSUME TypeOK, CleanRegionIsOnDisk, [Next]_vars PROVE CleanRegionIsOnDisk'
  OBVIOUS
<1>1. CASE UNCHANGED storeVars /\ step # "stopped"
  BY <1>1 DEF CleanRegionIsOnDisk, storeVars
<1>2. CASE UNCHANGED <<storeVars, step>>
  BY <1>2 DEF CleanRegionIsOnDisk, storeVars
<1>3. ASSUME NEW want \in Views, BeginUpdate(want) PROVE CleanRegionIsOnDisk'
  BY <1>1, <1>3 DEF BeginUpdate
<1>4. ASSUME Request \/ IngestAgain PROVE CleanRegionIsOnDisk'
  BY <1>1, <1>4 DEF Request, IngestAgain
<1>5. ASSUME Unload PROVE CleanRegionIsOnDisk'
  <2>1. CASE ~Persist
    BY <1>1, <1>5, <2>1 DEF Unload, storeVars
  <2>2. CASE Persist
    <3>1. /\ cache' = SavedAll(Evicted) /\ dirty' = DirtyAfter(Evicted) /\ UNCHANGED disk
          /\ step = "unload" /\ Evicted \in SUBSET Loaded
      BY <1>5, <2>2 DEF Unload, Evicted
    <3>2. ASSUME NEW c \in Coords, RegionOf[c] \notin dirty' PROVE disk'[c] = cache'[c]
      <4>1. RegionOf[c] \notin dirty /\ SavedAll(Evicted)[c] = cache[c]
        BY <3>1, <3>2, SavedChunks
      <4> QED BY <3>1, <4>1 DEF CleanRegionIsOnDisk
    <3> QED BY <3>2 DEF CleanRegionIsOnDisk
  <2> QED BY <2>1, <2>2
<1>6. ASSUME Generate, UNCHANGED <<backlog, requested, world, tickVars, storeVars, histVars>>
      PROVE  CleanRegionIsOnDisk'
  BY <1>2, <1>6 DEF tickVars
<1>7. ASSUME NEW c \in Coords, Edit(c) PROVE CleanRegionIsOnDisk'
  BY <1>2, <1>7, EditEffect DEF tickVars
<1>8. ASSUME Autosave PROVE CleanRegionIsOnDisk'
  BY <1>8, SweepCleans DEF Autosave, CleanRegionIsOnDisk
<1>9. ASSUME Shutdown PROVE CleanRegionIsOnDisk'
  BY <1>9 DEF Shutdown, CleanRegionIsOnDisk
<1>10. ASSUME Restart PROVE CleanRegionIsOnDisk'
  BY <1>10 DEF Restart, CleanRegionIsOnDisk
<1>11. ASSUME Crash \/ CrashInFlush PROVE CleanRegionIsOnDisk'
  <2>1. disk' = cache'
    BY <1>11 DEF Crash, CrashInFlush, CrashWith
  <2> QED BY <2>1 DEF CleanRegionIsOnDisk
<1>12. CASE UNCHANGED vars
  BY <1>2, <1>12 DEF vars, tickVars
<1> QED BY <1>3, <1>4, <1>5, <1>6, <1>7, <1>8, <1>9, <1>10, <1>11, <1>12 DEF Next, Update

\* A flush may skip the regions not marked dirty: their files are as the cache has them, through
\* evictions, files that could not be opened, crashes and restarts, and even where generated
\* chunks overwrite edited ones (RegionStore::flush).
THEOREM CleanRegionsAreOnDisk == Spec => []CleanRegionIsOnDisk
<1> DEFINE Inv == TypeOK /\ CleanRegionIsOnDisk
<1>1. Init => Inv
  <2>1. Init => CleanRegionIsOnDisk
    BY DEF Init, CleanRegionIsOnDisk
  <2> QED BY <2>1, InitTypes
<1>2. Inv /\ [Next]_vars => Inv'
  BY TypesNext, CleanNext
<1>3. Inv => CleanRegionIsOnDisk
  OBVIOUS
<1> HIDE DEF Inv
<1> QED BY <1>1, <1>2, <1>3, PTL DEF Spec

-----------------------------------------------------------------------------
(* Edits *)

\* No chunk that was generated is on its way to a coordinate that is loaded or saved: what an
\* update inserts over nothing it may insert as it is.
NothingLate == \A c \in ToSet(backlog \o completed) : c \notin Loaded /\ cache[c] = NoChunk

\* The cache is never ahead of the world, and where it is level it holds the same.
LevelInv ==
  \A c \in Loaded :
    cache[c] # NoChunk =>
      /\ cache[c].rev <= world[c].rev
      /\ cache[c].rev = world[c].rev => cache[c].edits = world[c].edits

SweptWasAccepted == step # "stopped" => \A c \in Coords : swept[c] <= accepted[c]

EditsInv == EditsSurvive /\ LevelInv /\ SweptWasAccepted

\* Saving a loaded chunk saves its edits: the store skips it only if it has them already.
LEMMA SavingKeepsEdits ==
  ASSUME TypeOK, LevelInv, NEW cs \in SUBSET Loaded, NEW c \in cs
  PROVE  /\ EditsOf(SavedAll(cs)[c]) = world[c].edits
         /\ SavedAll(cs)[c] # NoChunk =>
              /\ SavedAll(cs)[c].rev <= world[c].rev
              /\ SavedAll(cs)[c].rev = world[c].rev => SavedAll(cs)[c].edits = world[c].edits
<1>1. /\ c \in Loaded /\ c \in Coords /\ world[c] \in Chunk /\ cache[c] \in Saved
  BY DEF TypeOK, Saved
<1>2. /\ world[c].rev \in Nat /\ world[c].edits \in Nat /\ world[c].edits <= world[c].rev
      /\ EditsOf(world[c]) = world[c].edits /\ world[c] # NoChunk
  BY <1>1, ChunkFacts
<1>3. CASE SavedAll(cs)[c] = world[c]
  BY <1>2, <1>3
<1>4. CASE SavedAll(cs)[c] = cache[c] /\ world[c].rev = 0
  <2>1. CASE cache[c] = NoChunk
    BY <1>2, <1>4, <2>1, ChunkFacts
  <2>2. CASE cache[c] # NoChunk
    <3>1. cache[c] \in Chunk
      BY <1>1, <2>2 DEF Saved
    <3>2. cache[c].rev <= 0 /\ cache[c].rev \in Nat
      BY <1>1, <1>4, <2>2, <3>1, ChunkFacts DEF LevelInv
    <3> QED BY <1>1, <1>2, <1>4, <2>2, <3>1, <3>2, ChunkFacts DEF LevelInv
  <2> QED BY <2>1, <2>2
<1>5. CASE SavedAll(cs)[c] = cache[c] /\ cache[c] # NoChunk /\ cache[c].rev = world[c].rev
  <2>1. cache[c] \in Chunk
    BY <1>1, <1>5 DEF Saved
  <2> QED BY <1>1, <1>2, <1>5, <2>1, ChunkFacts DEF LevelInv
<1> QED BY <1>3, <1>4, <1>5, SavedChunks

\* So after all loaded chunks were offered the store has every accepted edit.
LEMMA SweepSavesAll ==
  ASSUME TypeOK, LevelInv, NoAcceptedEditLost, step # "stopped", NEW c \in Coords
  PROVE  EditsOf(SavedAll(Loaded)[c]) = accepted[c]
<1>1. CASE c \in Loaded
  <2>1. EditsOf(SavedAll(Loaded)[c]) = world[c].edits
    BY <1>1, SavingKeepsEdits
  <2>2. EditsOf(world[c]) = accepted[c]
    BY <1>1 DEF NoAcceptedEditLost
  <2>3. EditsOf(world[c]) = world[c].edits
    BY <1>1, ChunkFacts DEF TypeOK
  <2> QED BY <2>1, <2>2, <2>3
<1>2. CASE c \notin Loaded
  <2>1. SavedAll(Loaded)[c] = cache[c]
    BY <1>2, SavedChunks
  <2> QED BY <1>2, <2>1 DEF NoAcceptedEditLost
<1> QED BY <1>1, <1>2

\* Chunks that come to where nothing was loaded, as the store has them, change no count.
LEMMA JoiningKeepsEdits ==
  ASSUME TypeOK, EditsInv, step # "stopped", step' # "stopped",
         UNCHANGED <<storeVars, histVars>>,
         NEW E \in SUBSET Coords, NEW new \in [E -> Chunk], E \intersect Loaded = {},
         \A c \in E : /\ EditsOf(cache[c]) = new[c].edits
                      /\ cache[c] # NoChunk => cache[c] = new[c],
         Joined(new)
  PROVE  EditsInv'
<1>1. /\ DOMAIN new = E /\ Loaded' = Loaded \union E /\ world' \in [Loaded \union E -> Chunk]
      /\ \A c \in E : Same(world'[c], new[c])
      /\ \A c \in Loaded : Same(world'[c], world[c])
      /\ world \in [Loaded -> Chunk] /\ cache \in [Coords -> Saved] /\ Loaded \subseteq Coords
  BY DEF Joined, TypeOK, Saved, Loaded
<1>2. UNCHANGED <<cache, dirty, disk, accepted, swept>>
  BY DEF storeVars, histVars
<1>3. NoAcceptedEditLost'
  <2>1. ASSUME NEW c \in Coords
        PROVE  EditsOf(IF c \in Loaded' THEN world'[c] ELSE cache'[c]) = accepted'[c]
    <3>1. EditsOf(IF c \in Loaded THEN world[c] ELSE cache[c]) = accepted[c]
      BY DEF EditsInv, EditsSurvive, NoAcceptedEditLost
    <3>2. CASE c \in E
      <4>1. EditsOf(world'[c]) = world'[c].edits /\ world'[c].edits = new[c].edits
        BY <1>1, <3>2, ChunkFacts DEF Same
      <4> QED BY <1>1, <1>2, <3>1, <3>2, <4>1
    <3>3. CASE c \in Loaded
      <4>1. /\ EditsOf(world'[c]) = world'[c].edits /\ world'[c].edits = world[c].edits
            /\ EditsOf(world[c]) = world[c].edits
        BY <1>1, <3>3, ChunkFacts DEF Same
      <4> QED BY <1>1, <1>2, <3>1, <3>3, <4>1
    <3>4. CASE c \notin Loaded \union E
      BY <1>1, <1>2, <3>1, <3>4
    <3> QED BY <3>2, <3>3, <3>4
  <2> QED BY <2>1 DEF NoAcceptedEditLost
<1>4. LevelInv'
  <2>1. ASSUME NEW c \in Loaded', cache'[c] # NoChunk
        PROVE  /\ cache'[c].rev <= world'[c].rev
               /\ cache'[c].rev = world'[c].rev => cache'[c].edits = world'[c].edits
    <3>1. cache[c] \in Chunk /\ cache[c].rev \in Nat
      BY <1>1, <1>2, <2>1, ChunkFacts DEF Saved
    <3>2. CASE c \in E
      <4>1. cache[c] = new[c] /\ Same(world'[c], new[c])
        BY <1>1, <1>2, <2>1, <3>2
      <4> QED BY <1>2, <3>1, <4>1 DEF Same
    <3>3. CASE c \in Loaded
      <4>1. /\ cache[c].rev <= world[c].rev
            /\ cache[c].rev = world[c].rev => cache[c].edits = world[c].edits
            /\ Same(world'[c], world[c]) /\ world[c].rev \in Nat
        BY <1>1, <1>2, <2>1, <3>3, ChunkFacts DEF EditsInv, LevelInv
      <4> QED BY <1>2, <3>1, <4>1 DEF Same
    <3> QED BY <1>1, <2>1, <3>2, <3>3
  <2> QED BY <2>1 DEF LevelInv
<1>5. ShutdownKeepsEdits' /\ SweptEditsSurvive' /\ SweptWasAccepted'
  BY <1>2 DEF EditsInv, EditsSurvive, ShutdownKeepsEdits, SweptEditsSurvive, SweptWasAccepted
<1> QED BY <1>3, <1>4, <1>5 DEF EditsInv, EditsSurvive

\* A pass inserts only where nothing is loaded or saved.
LEMMA IngestKeepsEdits ==
  ASSUME TypeOK, EditsInv, NothingLate, step # "stopped", step' # "stopped",
         UNCHANGED <<storeVars, histVars>>,
         NEW want \in SUBSET Coords, NEW before \in BOOLEAN, Ingest(want, before)
  PROVE  EditsInv'
<1>1. PICK popped \in SUBSET Coords :
        /\ ToSet(backlog) \union ToSet(completed) = popped \union ToSet(backlog')
        /\ Joined([c \in popped \intersect want |-> Fresh])
  BY IngestEffect
<1> DEFINE E == popped \intersect want
           new == [c \in E |-> Fresh]
<1>2. ToSet(backlog \o completed) = ToSet(backlog) \union ToSet(completed)
  BY ToSetConcat DEF TypeOK
<1>3. \A c \in E : c \notin Loaded /\ cache[c] = NoChunk
  BY <1>1, <1>2 DEF NothingLate
<1>4. E \in SUBSET Coords /\ new \in [E -> Chunk] /\ E \intersect Loaded = {}
  BY <1>3, ChunkFacts
<1>5. \A c \in E : /\ EditsOf(cache[c]) = new[c].edits
                   /\ cache[c] # NoChunk => cache[c] = new[c]
  BY <1>3, ChunkFacts DEF Fresh
<1>6. Joined(new)
  BY <1>1
<1> HIDE DEF E, new
<1> QED BY <1>4, <1>5, <1>6, JoiningKeepsEdits

\* The second step loads what the store has, where nothing is loaded.
LEMMA RequestKeepsEdits ==
  ASSUME TypeOK, EditsInv, Request
  PROVE  EditsInv'
<1>1. PICK load \in SUBSET ((wanted \ Loaded) \ requested) :
        /\ \A c \in load : cache[c] # NoChunk
        /\ Joined([c \in load |-> cache[c]])
        /\ UNCHANGED <<storeVars, histVars>>
        /\ step = "request" /\ step' = "ingest"
  BY RequestEffect
<1> DEFINE new == [c \in load |-> cache[c]]
<1>2. load \in SUBSET Coords /\ load \intersect Loaded = {}
  BY DEF TypeOK
<1>3. \A c \in load : cache[c] \in Chunk
  BY <1>1, <1>2 DEF TypeOK
<1>4. new \in [load -> Chunk]
  BY <1>3
<1>5. \A c \in load : /\ EditsOf(cache[c]) = new[c].edits
                      /\ cache[c] # NoChunk => cache[c] = new[c]
  BY <1>3, ChunkFacts
<1>6. Joined(new)
  BY <1>1
<1> HIDE DEF new
<1> QED BY <1>1, <1>2, <1>4, <1>5, <1>6, JoiningKeepsEdits

\* Eviction saves what it takes from the world.
LEMMA UnloadKeepsEdits ==
  ASSUME TypeOK, EditsInv, Persist, Unload
  PROVE  EditsInv'
<1>1. /\ step = "unload" /\ step' = "idle"
      /\ cache' = SavedAll(Evicted)
      /\ world' = [c \in Loaded \ Evicted |-> world[c]] /\ Loaded' = Loaded \ Evicted
      /\ UNCHANGED <<disk, accepted, swept>>
  BY DEF Unload, histVars, Loaded
<1>2. Evicted \in SUBSET Loaded /\ Loaded \subseteq Coords /\ world \in [Loaded -> Chunk]
  BY DEF Evicted, TypeOK
<1>3. \A c \in Coords \ Evicted : cache'[c] = cache[c]
  BY <1>1, <1>2, SavedChunks
<1>4. NoAcceptedEditLost'
  <2>1. ASSUME NEW c \in Coords
        PROVE  EditsOf(IF c \in Loaded' THEN world'[c] ELSE cache'[c]) = accepted'[c]
    <3>1. EditsOf(IF c \in Loaded THEN world[c] ELSE cache[c]) = accepted[c]
      BY <1>1 DEF EditsInv, EditsSurvive, NoAcceptedEditLost
    <3>2. CASE c \in Evicted
      <4>1. EditsOf(SavedAll(Evicted)[c]) = world[c].edits
        BY <1>2, <3>2, SavingKeepsEdits DEF EditsInv
      <4>2. EditsOf(world[c]) = world[c].edits
        BY <1>2, <3>2, ChunkFacts
      <4> QED BY <1>1, <1>2, <3>1, <3>2, <4>1, <4>2
    <3>3. CASE c \notin Evicted
      BY <1>1, <1>2, <1>3, <3>1, <3>3
    <3> QED BY <3>2, <3>3
  <2> QED BY <2>1 DEF NoAcceptedEditLost
<1>5. LevelInv'
  <2>1. \A c \in Loaded' : c \in Loaded /\ world'[c] = world[c] /\ cache'[c] = cache[c]
    BY <1>1, <1>2, <1>3
  <2> QED BY <2>1 DEF LevelInv, EditsInv
<1>6. ShutdownKeepsEdits' /\ SweptEditsSurvive' /\ SweptWasAccepted'
  BY <1>1 DEF EditsInv, EditsSurvive, ShutdownKeepsEdits, SweptEditsSurvive, SweptWasAccepted
<1> QED BY <1>4, <1>5, <1>6 DEF EditsInv, EditsSurvive

\* An accepted edit is one more in its chunk and in the history.
LEMMA EditKeepsEdits ==
  ASSUME TypeOK, EditsInv, NEW c \in Coords, Edit(c)
  PROVE  EditsInv'
<1>1. /\ world' \in [Loaded -> Chunk] /\ c \in Loaded /\ step = "idle"
      /\ world'[c].edits = world[c].edits + 1 /\ world'[c].rev > world[c].rev
      /\ \A d \in Loaded \ {c} : Same(world'[d], world[d])
      /\ world[c].edits < MaxRev
      /\ accepted' = [accepted EXCEPT ![c] = Least(@ + 1, MaxRev)]
      /\ UNCHANGED <<step, cache, dirty, disk, swept>>
  BY EditEffect DEF tickVars, storeVars
<1>2. /\ Loaded' = Loaded /\ Loaded \subseteq Coords /\ world \in [Loaded -> Chunk]
      /\ cache \in [Coords -> Saved]
      /\ accepted \in [Coords -> 0..MaxRev] /\ swept \in [Coords -> 0..MaxRev]
      /\ MaxRev \in Nat
  BY <1>1, ChunkFacts DEF TypeOK, Loaded, Saved
<1>3. /\ \A d \in Coords \ {c} : accepted'[d] = accepted[d]
      /\ EditsOf(world[c]) = world[c].edits /\ world[c].edits \in Nat
      /\ EditsOf(world'[c]) = world'[c].edits
  BY <1>1, <1>2, ChunkFacts
<1>4. accepted[c] = world[c].edits
  BY <1>1, <1>3 DEF EditsInv, EditsSurvive, NoAcceptedEditLost
<1>5. accepted'[c] = accepted[c] + 1
  <2>1. accepted'[c] = Least(accepted[c] + 1, MaxRev)
    BY <1>1, <1>2
  <2> QED BY <1>1, <1>2, <1>3, <1>4, <2>1 DEF Least
<1>6. NoAcceptedEditLost'
  <2>1. ASSUME NEW d \in Coords
        PROVE  EditsOf(IF d \in Loaded' THEN world'[d] ELSE cache'[d]) = accepted'[d]
    <3>1. EditsOf(IF d \in Loaded THEN world[d] ELSE cache[d]) = accepted[d]
      BY <1>1 DEF EditsInv, EditsSurvive, NoAcceptedEditLost
    <3>2. CASE d = c
      BY <1>1, <1>2, <1>3, <1>4, <1>5, <3>2
    <3>3. CASE d # c /\ d \in Loaded
      <4>1. EditsOf(world'[d]) = EditsOf(world[d])
        BY <1>1, <1>2, <3>3, ChunkFacts DEF Same
      <4> QED BY <1>2, <1>3, <3>1, <3>3, <4>1
    <3>4. CASE d \notin Loaded
      BY <1>1, <1>2, <1>3, <3>1, <3>4
    <3> QED BY <3>2, <3>3, <3>4
  <2> QED BY <2>1 DEF NoAcceptedEditLost
<1>7. LevelInv'
  <2>1. ASSUME NEW d \in Loaded, cache[d] # NoChunk
        PROVE  /\ cache[d].rev <= world'[d].rev
               /\ cache[d].rev = world'[d].rev => cache[d].edits = world'[d].edits
    <3>1. /\ cache[d] \in Chunk /\ cache[d].rev \in Nat
          /\ world[d].rev \in Nat /\ world'[d].rev \in Nat
      BY <1>1, <1>2, <2>1, ChunkFacts DEF Saved
    <3>2. /\ cache[d].rev <= world[d].rev
          /\ cache[d].rev = world[d].rev => cache[d].edits = world[d].edits
      BY <2>1 DEF EditsInv, LevelInv
    <3>3. CASE d = c
      BY <1>1, <3>1, <3>2, <3>3
    <3>4. CASE d # c
      <4>1. Same(world'[d], world[d])
        BY <1>1, <3>4
      <4> QED BY <3>1, <3>2, <4>1 DEF Same
    <3> QED BY <3>3, <3>4
  <2> QED BY <1>1, <1>2, <2>1 DEF LevelInv
<1>8. SweptWasAccepted'
  <2>1. ASSUME NEW d \in Coords PROVE swept'[d] <= accepted'[d]
    <3>1. swept[d] <= accepted[d] /\ swept'[d] = swept[d]
      BY <1>1 DEF EditsInv, SweptWasAccepted
    <3> QED BY <1>2, <1>3, <1>5, <3>1
  <2> QED BY <2>1 DEF SweptWasAccepted
<1>9. ShutdownKeepsEdits' /\ SweptEditsSurvive'
  BY <1>1 DEF EditsInv, EditsSurvive, ShutdownKeepsEdits, SweptEditsSurvive
<1> QED BY <1>6, <1>7, <1>8, <1>9 DEF EditsInv, EditsSurvive

\* A sweep writes what was accepted, except to the files that failed.
LEMMA SweepKeepsEdits ==
  ASSUME TypeOK, EditsInv, CleanRegionIsOnDisk, step # "stopped", Sweep, UNCHANGED accepted
  PROVE  /\ \A c \in Coords : EditsOf(cache'[c]) = accepted[c]
         /\ \A c \in Coords : swept'[c] <= accepted[c]
         /\ \A c \in Coords : RegionOf[c] \notin dirty' => EditsOf(disk'[c]) = accepted[c]
         /\ SweptEditsSurvive'
<1>1. PICK failed \in SUBSET DirtyAfter(Loaded) :
        /\ cache' = SavedAll(Loaded)
        /\ disk' = Written(SavedAll(Loaded), DirtyAfter(Loaded) \ failed)
        /\ dirty' = failed
        /\ swept' = [c \in Coords |-> IF RegionOf[c] \in failed THEN swept[c]
                                      ELSE EditsOf(SavedAll(Loaded)[c])]
  BY SweepEffect
<1>2. \A c \in Coords : EditsOf(cache'[c]) = accepted[c]
  BY <1>1, SweepSavesAll DEF EditsInv, EditsSurvive
<1>3. /\ accepted \in [Coords -> 0..MaxRev] /\ swept \in [Coords -> 0..MaxRev] /\ MaxRev \in Nat
  BY ChunkFacts DEF TypeOK
<1>4. \A c \in Coords : swept'[c] <= accepted[c]
  BY <1>1, <1>2, <1>3 DEF EditsInv, SweptWasAccepted
<1>5. \A c \in Coords : RegionOf[c] \notin dirty' => EditsOf(disk'[c]) = accepted[c]
  BY <1>2, SweepCleans
<1>6. ASSUME NEW c \in Coords PROVE EditsOf(disk'[c]) >= swept'[c]
  <2>1. CASE RegionOf[c] \in failed
    <3>1. disk'[c] = disk[c] /\ swept'[c] = swept[c]
      BY <1>1, <2>1 DEF Written
    <3> QED BY <3>1 DEF EditsInv, EditsSurvive, SweptEditsSurvive
  <2>2. CASE RegionOf[c] \notin failed
    <3>1. EditsOf(disk'[c]) = accepted[c] /\ swept'[c] = accepted[c]
      BY <1>1, <1>2, <1>5, <2>2
    <3> QED BY <1>3, <3>1
  <2> QED BY <2>1, <2>2
<1> QED BY <1>2, <1>4, <1>5, <1>6 DEF SweptEditsSurvive

LEMMA AutosaveKeepsEdits ==
  ASSUME TypeOK, EditsInv, CleanRegionIsOnDisk, Autosave
  PROVE  EditsInv'
<1>1. /\ step = "idle" /\ Sweep /\ UNCHANGED <<world, step, accepted>> /\ Loaded' = Loaded
  BY DEF Autosave, tickVars, Loaded
<1>2. cache' = SavedAll(Loaded)
  BY <1>1, SweepEffect
<1>3. /\ \A c \in Coords : EditsOf(cache'[c]) = accepted[c]
      /\ \A c \in Coords : swept'[c] <= accepted[c]
      /\ SweptEditsSurvive'
  BY <1>1, SweepKeepsEdits
<1>4. NoAcceptedEditLost'
  BY <1>1, <1>3 DEF EditsInv, EditsSurvive, NoAcceptedEditLost
<1>5. LevelInv'
  <2>1. ASSUME NEW c \in Loaded, cache'[c] # NoChunk
        PROVE  /\ cache'[c].rev <= world[c].rev
               /\ cache'[c].rev = world[c].rev => cache'[c].edits = world[c].edits
    BY <1>2, <2>1, SavingKeepsEdits DEF EditsInv
  <2> QED BY <1>1, <2>1 DEF LevelInv
<1>6. SweptWasAccepted' /\ ShutdownKeepsEdits'
  BY <1>1, <1>3 DEF SweptWasAccepted, ShutdownKeepsEdits
<1> QED BY <1>3, <1>4, <1>5, <1>6 DEF EditsInv, EditsSurvive

LEMMA ShutdownKeepsAll ==
  ASSUME TypeOK, EditsInv, CleanRegionIsOnDisk, Shutdown
  PROVE  EditsInv'
<1>1. step = "idle" /\ Sweep /\ UNCHANGED accepted /\ Forget /\ step' = "stopped"
  BY DEF Shutdown
<1>2. /\ \A c \in Coords : RegionOf[c] \notin dirty' => EditsOf(disk'[c]) = accepted[c]
      /\ SweptEditsSurvive'
  BY <1>1, SweepKeepsEdits
<1>3. Loaded' = {}
  BY <1>1, Forgotten
<1> QED BY <1>1, <1>2, <1>3
        DEF EditsInv, EditsSurvive, NoAcceptedEditLost, ShutdownKeepsEdits, LevelInv,
            SweptWasAccepted

\* Starting on the files there are, with what they hold counted as accepted.
LEMMA StartingKeepsEdits ==
  ASSUME TypeOK, NEW files \in [Coords -> Saved], Loaded' = {}, step' = "idle",
         cache' = files, disk' = files,
         accepted' = [c \in Coords |-> EditsOf(files[c])],
         \A c \in Coords : EditsOf(files[c]) >= swept'[c]
  PROVE  EditsInv'
<1>1. NoAcceptedEditLost'
  BY DEF NoAcceptedEditLost
<1>2. LevelInv'
  BY DEF LevelInv
<1>3. SweptEditsSurvive' /\ ShutdownKeepsEdits'
  BY DEF SweptEditsSurvive, ShutdownKeepsEdits
<1>4. SweptWasAccepted'
  <2>1. \A c \in Coords : accepted'[c] = EditsOf(files[c])
    OBVIOUS
  <2>2. \A a, b : a >= b => b <= a
    OBVIOUS
  <2> QED BY <2>1, <2>2 DEF SweptWasAccepted
<1> QED BY <1>1, <1>2, <1>3, <1>4 DEF EditsInv, EditsSurvive

LEMMA TornKeepsEdits ==
  ASSUME TypeOK, EditsInv, CrashInFlush
  PROVE  EditsInv'
<1>1. PICK torn \in DirtyAfter(Loaded), done \in SUBSET DirtyAfter(Loaded) :
        /\ torn \notin done /\ step = "idle"
        /\ TornFiles(torn, done) \in [Coords -> Saved]
        /\ CrashWith(TornFiles(torn, done))
        /\ swept' = [c \in Coords |-> IF RegionOf[c] = torn THEN 0 ELSE swept[c]]
  BY TornEffect
<1>2. ASSUME NEW c \in Coords PROVE EditsOf(TornFiles(torn, done)[c]) >= swept'[c]
  <2>1. /\ swept[c] \in 0..MaxRev /\ accepted[c] \in 0..MaxRev /\ MaxRev \in Nat
        /\ EditsOf(disk[c]) >= swept[c] /\ swept[c] <= accepted[c]
        /\ EditsOf(SavedAll(Loaded)[c]) = accepted[c]
    BY <1>1, ChunkFacts, SweepSavesAll
       DEF TypeOK, EditsInv, EditsSurvive, SweptEditsSurvive, SweptWasAccepted
  <2>2. CASE RegionOf[c] = torn
    <3>1. TornFiles(torn, done)[c] = NoChunk /\ swept'[c] = 0
      BY <1>1, <2>2 DEF TornFiles
    <3> QED BY <3>1, ChunkFacts
  <2>3. CASE RegionOf[c] # torn /\ RegionOf[c] \in done
    <3>1. TornFiles(torn, done)[c] = SavedAll(Loaded)[c] /\ swept'[c] = swept[c]
      BY <1>1, <2>3 DEF TornFiles, Written
    <3> QED BY <2>1, <3>1
  <2>4. CASE RegionOf[c] # torn /\ RegionOf[c] \notin done
    <3>1. TornFiles(torn, done)[c] = disk[c] /\ swept'[c] = swept[c]
      BY <1>1, <2>4 DEF TornFiles, Written
    <3> QED BY <2>1, <3>1
  <2> QED BY <2>2, <2>3, <2>4
<1> DEFINE files == TornFiles(torn, done)
<1> HIDE DEF files
<1>3. files \in [Coords -> Saved] /\ CrashWith(files)
  BY <1>1 DEF files
<1>4. /\ Forget /\ step' = "idle" /\ disk' = files /\ cache' = files
      /\ accepted' = [c \in Coords |-> EditsOf(files[c])]
  BY <1>3, CrashEffect
<1>5. \A c \in Coords : EditsOf(files[c]) >= swept'[c]
  BY <1>2 DEF files
<1> QED BY <1>3, <1>4, <1>5, Forgotten, StartingKeepsEdits

LEMMA EditsNext ==
  ASSUME Persist, TypeOK, StreamInv, CleanRegionIsOnDisk, EditsInv, NothingLate, [Next]_vars
  PROVE  EditsInv'
<1>0. Views \subseteq SUBSET Coords
  BY ChunkLifecycleAssumption
<1>1. ASSUME NEW want \in Views, BeginUpdate(want) PROVE EditsInv'
  <2>1. /\ want \in SUBSET Coords /\ Ingest(want, FALSE)
        /\ step # "stopped" /\ step' # "stopped" /\ UNCHANGED <<storeVars, histVars>>
    BY <1>0, <1>1 DEF BeginUpdate
  <2> QED BY <2>1, IngestKeepsEdits
<1>2. ASSUME Request PROVE EditsInv'
  BY <1>2, RequestKeepsEdits
<1>3. ASSUME IngestAgain PROVE EditsInv'
  <2>1. /\ wanted \in SUBSET Coords /\ progressed \in BOOLEAN /\ Ingest(wanted, progressed)
        /\ step # "stopped" /\ step' # "stopped" /\ UNCHANGED <<storeVars, histVars>>
    BY <1>3 DEF IngestAgain, TypeOK
  <2> QED BY <2>1, IngestKeepsEdits
<1>4. ASSUME Unload PROVE EditsInv'
  BY <1>4, UnloadKeepsEdits
<1>5. ASSUME UNCHANGED <<world, step, storeVars, histVars>> PROVE EditsInv'
  BY <1>5 DEF EditsInv, EditsSurvive, NoAcceptedEditLost, ShutdownKeepsEdits,
              SweptEditsSurvive, LevelInv, SweptWasAccepted, Loaded, storeVars, histVars
<1>6. ASSUME NEW c \in Coords, Edit(c) PROVE EditsInv'
  BY <1>6, EditKeepsEdits
<1>7. ASSUME Autosave PROVE EditsInv'
  BY <1>7, AutosaveKeepsEdits
<1>8. ASSUME Shutdown PROVE EditsInv'
  BY <1>8, ShutdownKeepsAll
<1>9. ASSUME Restart PROVE EditsInv'
  <2>1. /\ step = "stopped" /\ step' = "idle" /\ cache' = disk /\ disk' = disk /\ swept' = swept
        /\ world' = world /\ accepted' = [c \in Coords |-> EditsOf(disk[c])]
    BY <1>9 DEF Restart
  <2>2. Loaded' = {}
    BY <2>1 DEF StreamInv, StoppedIsEmpty, Loaded
  <2>3. disk \in [Coords -> Saved] /\ \A c \in Coords : EditsOf(disk[c]) >= swept'[c]
    BY <2>1 DEF EditsInv, EditsSurvive, SweptEditsSurvive, TypeOK, Saved
  <2> QED BY <2>1, <2>2, <2>3, StartingKeepsEdits
<1>10. ASSUME Crash PROVE EditsInv'
  <2>1. /\ disk \in [Coords -> Saved] /\ CrashWith(disk) /\ swept' = swept
        /\ \A c \in Coords : EditsOf(disk[c]) >= swept'[c]
    BY <1>10 DEF Crash, TypeOK, Saved, EditsInv, EditsSurvive, SweptEditsSurvive
  <2>2. /\ Forget /\ step' = "idle" /\ disk' = disk /\ cache' = disk
        /\ accepted' = [c \in Coords |-> EditsOf(disk[c])]
    BY <2>1, CrashEffect
  <2> QED BY <2>1, <2>2, Forgotten, StartingKeepsEdits
<1>11. ASSUME CrashInFlush PROVE EditsInv'
  BY <1>11, TornKeepsEdits
<1> QED BY <1>1, <1>2, <1>3, <1>4, <1>5, <1>6, <1>7, <1>8, <1>9, <1>10, <1>11
        DEF Next, Update, vars, tickVars

LEMMA InitEdits == Init => EditsInv
<1> SUFFICES ASSUME Init PROVE EditsInv
  OBVIOUS
<1>1. /\ Loaded = {} /\ step = "idle"
      /\ cache = [c \in Coords |-> NoChunk] /\ disk = [c \in Coords |-> NoChunk]
      /\ accepted = [c \in Coords |-> 0] /\ swept = [c \in Coords |-> 0]
  BY DEF Init, Loaded
<1> QED BY <1>1, ChunkFacts
        DEF EditsInv, EditsSurvive, NoAcceptedEditLost, ShutdownKeepsEdits, SweptEditsSurvive,
            LevelInv, SweptWasAccepted

\* An edit is lost only where a generated chunk is still on its way to a coordinate that was
\* loaded or saved in the meantime: as long as there is none, every accepted edit is in the
\* world, the store or the file it should be in, through evictions, failed files, shutdowns
\* and crashes.  ChunkLifecycleSystem::update inserts what it polls without a look at either.
THEOREM OnlyLateChunksLoseEdits ==
  ASSUME Persist
  PROVE  Spec /\ []NothingLate => []EditsSurvive
<1> DEFINE Inv == TypeOK /\ StreamInv /\ CleanRegionIsOnDisk /\ EditsInv
<1>1. Init => Inv
  <2>1. Init => CleanRegionIsOnDisk
    BY DEF Init, CleanRegionIsOnDisk
  <2> QED BY <2>1, InitTypes, InitStream, InitEdits
<1>2. Inv /\ NothingLate /\ [Next]_vars => Inv'
  BY TypesNext, StreamNext, CleanNext, EditsNext
<1>3. Inv => EditsSurvive
  BY DEF EditsInv
<1> HIDE DEF Inv
<1> QED BY <1>1, <1>2, <1>3, PTL DEF Spec

-----------------------------------------------------------------------------
(* Requests of a harness (Automation): where each of them is.                 *)

R == 1..MaxRequests
AskedTypes == [kind : Channel!Kinds, frames : 1..MaxFrames]
StepTypes == [id : R, remaining : 1..MaxFrames]

ChannelTypes ==
  /\ stream \in Seq(1..(MaxRequests + 1))
  /\ channelQueue \in Seq(0..MaxRequests) /\ batch \in Seq(0..MaxRequests)
  /\ asked \in Seq(AskedTypes) /\ Len(asked) <= MaxRequests
  /\ waits \subseteq [id : R, late : BOOLEAN] /\ tasks \subseteq [id : R, left : 1..MaxFrames]
  /\ steps \in Seq(StepTypes)
  /\ answers \in [R -> 0..1] /\ swallowed \subseteq R /\ frames \in [R \union {0} -> Nat]

\* The places where a request can be ...
Wire(r) == r \in Channel!Range(stream)
Queued(r) == r \in Channel!Range(channelQueue)
Taken(r) == r \in Channel!Range(batch)
Waiting(r) == r \in Channel!Owed(waits)
Stepping(r) == r \in Channel!Owed(Channel!Range(steps))
Acting(r) == r \in Channel!Owed(tasks)
Swallowed(r) == r \in swallowed
Told(r) == answers[r] = 1

Held(r) == Wire(r) \/ Queued(r) \/ Taken(r) \/ Waiting(r) \/ Stepping(r) \/ Acting(r)
           \/ Swallowed(r) \/ Told(r)
AtMostOne(r) ==
  /\ Wire(r) => ~Queued(r) /\ ~Taken(r) /\ ~Waiting(r) /\ ~Stepping(r) /\ ~Acting(r)
                /\ ~Swallowed(r) /\ ~Told(r)
  /\ Queued(r) => ~Taken(r) /\ ~Waiting(r) /\ ~Stepping(r) /\ ~Acting(r) /\ ~Swallowed(r) /\ ~Told(r)
  /\ Taken(r) => ~Waiting(r) /\ ~Stepping(r) /\ ~Acting(r) /\ ~Swallowed(r) /\ ~Told(r)
  /\ Waiting(r) => ~Stepping(r) /\ ~Acting(r) /\ ~Swallowed(r) /\ ~Told(r)
  /\ Stepping(r) => ~Acting(r) /\ ~Swallowed(r) /\ ~Told(r)
  /\ Acting(r) => ~Swallowed(r) /\ ~Told(r)
  /\ Swallowed(r) => ~Told(r)

\* ... and what was sent is in one of them, and there once.
Once(s) == \A i, j \in 1..Len(s) : i < j /\ s[i] = s[j] => s[i] \notin R
PlaceInv ==
  /\ \A r \in R : (Held(r) <=> r \in 1..Len(asked)) /\ AtMostOne(r)
  /\ Once(stream) /\ Once(channelQueue) /\ Once(batch)
  /\ \A i, j \in 1..Len(steps) : i < j => steps[i].id # steps[j].id

\* After the end of input nothing comes any more.
EndInv ==
  /\ eof => ~present /\ ~tcp /\ stream = <<>>
  /\ sawEof => eof /\ channelQueue = <<>>
  /\ pc # "dispatch" => batch = <<>>
  /\ quit_ => \/ channelQueue = <<>> /\ stream = <<>> /\ eof
              \/ \E r \in 1..Len(asked) : asked[r].kind = "quit" /\ answers[r] = 1

\* Who owes an answer, and what the manual clock has run for it.
KindInv ==
  /\ \A r \in R : Waiting(r) => asked[r].kind = "wait"
  /\ \A r \in R : Stepping(r) => asked[r].kind = "step"
  /\ \A r \in R : Acting(r) => asked[r].kind = "act"
FrameInv ==
  manual => /\ frames[0] = 0
            /\ \A i \in 1..Len(steps) :
                 frames[steps[i].id] = asked[steps[i].id].frames - steps[i].remaining
            /\ \A r \in 1..Len(asked) : asked[r].kind = "step" /\ Told(r) => frames[r] = asked[r].frames
            /\ \A r \in R : ~Stepping(r) /\ ~Told(r) => frames[r] = 0

ChannelInv == ChannelTypes /\ PlaceInv /\ EndInv /\ KindInv /\ FrameInv

-----------------------------------------------------------------------------
\* A queue from which the first is taken, or to which one is added.

Taking(S, s, h, t) ==
  /\ h \in S /\ t \in Seq(S) /\ Once(t) /\ h \in Channel!Range(s)
  /\ \A r \in R : r \in Channel!Range(t) <=> r \in Channel!Range(s) /\ r # h
Adding(S, s, e, t) ==
  /\ t \in Seq(S) /\ Once(t)
  /\ \A r \in R : r \in Channel!Range(t) <=> r \in Channel!Range(s) \/ r = e

LEMMA TakeFirst ==
  ASSUME NEW S, NEW s \in Seq(S), s # <<>>, Once(s), NEW t, t = Tail(s)
  PROVE  Taking(S, s, Head(s), t)
<1>1. /\ Head(s) \in S /\ t \in Seq(S) /\ Len(t) = Len(s) - 1 /\ Len(s) \in Nat /\ Len(s) > 0
      /\ \A i \in 1..Len(t) : t[i] = s[i + 1]
      /\ Head(s) = s[1] /\ DOMAIN s = 1..Len(s) /\ DOMAIN t = 1..Len(t)
  BY HeadTailProperties, LenProperties, EmptySeq
<1>2. Once(t)
  BY <1>1 DEF Once
<1>3. ASSUME NEW r \in R, r \in Channel!Range(t)
      PROVE  r \in Channel!Range(s) /\ r # Head(s)
  <2>1. PICK i \in 1..Len(t) : t[i] = r
    BY <1>1, <1>3 DEF Channel!Range
  <2>2. i + 1 \in 1..Len(s) /\ s[i + 1] = r /\ 1 \in 1..Len(s) /\ 1 < i + 1
    BY <1>1, <2>1
  <2>3. s[1] # r
    BY <2>2 DEF Once
  <2> QED BY <1>1, <2>2, <2>3 DEF Channel!Range
<1>4. ASSUME NEW r \in R, r \in Channel!Range(s), r # Head(s)
      PROVE  r \in Channel!Range(t)
  <2>1. PICK i \in 1..Len(s) : s[i] = r
    BY <1>1, <1>4 DEF Channel!Range
  <2>2. i - 1 \in 1..Len(t) /\ t[i - 1] = r
    BY <1>1, <1>4, <2>1
  <2> QED BY <1>1, <2>2 DEF Channel!Range
<1>5. Head(s) \in Channel!Range(s)
  <2>1. 1 \in DOMAIN s
    BY <1>1
  <2> QED BY <1>1, <2>1 DEF Channel!Range
<1> QED BY <1>1, <1>2, <1>3, <1>4, <1>5 DEF Taking

LEMMA AddLast ==
  ASSUME NEW S, NEW s \in Seq(S), NEW e \in S, Once(s), e \in R => e \notin Channel!Range(s),
         NEW t, t = Append(s, e)
  PROVE  Adding(S, s, e, t)
<1>1. /\ t \in Seq(S) /\ Len(t) = Len(s) + 1 /\ Len(s) \in Nat /\ t[Len(s) + 1] = e
      /\ \A i \in 1..Len(s) : t[i] = s[i]
      /\ DOMAIN s = 1..Len(s) /\ DOMAIN t = 1..Len(t)
  BY LenProperties
<1>2. \A i \in 1..Len(t) : i \in 1..Len(s) \/ i = Len(s) + 1
  BY <1>1
<1>3. \A i \in 1..Len(s) : s[i] \in Channel!Range(s)
  BY <1>1 DEF Channel!Range
<1>4. Once(t)
  BY <1>1, <1>2, <1>3 DEF Once
<1>5. \A r \in R : r \in Channel!Range(t) <=> r \in Channel!Range(s) \/ r = e
  <2>1. Len(s) + 1 \in 1..Len(t)
    BY <1>1
  <2> QED BY <1>1, <1>2, <2>1 DEF Channel!Range
<1> QED BY <1>1, <1>4, <1>5 DEF Adding

LEMMA EmptyOnce ==
  ASSUME NEW s, s = <<>>
  PROVE  Once(s) /\ Len(s) = 0 /\ Channel!Range(s) = {}
<1>1. Len(s) = 0 /\ DOMAIN s = {}
  OBVIOUS
<1> QED BY <1>1 DEF Once, Channel!Range

LEMMA AnswersOnce ==
  ASSUME answers \in [R -> 0..1], NEW ids, \A r \in R : r \in ids => ~Told(r), Channel!Answer(ids)
  PROVE  /\ answers' \in [R -> 0..1]
         /\ \A r \in R : Told(r)' <=> Told(r) \/ r \in ids
<1>1. answers' = [r \in R |-> answers[r] + (IF r \in ids THEN 1 ELSE 0)]
  BY DEF Channel!Answer, Channel!Requests, R
<1>2. \A r \in R : /\ answers[r] \in 0..1 /\ (r \in ids => answers[r] = 0)
                   /\ answers'[r] = (IF r \in ids THEN 1 ELSE answers[r])
  BY <1>1 DEF Told
<1>3. answers' \in [R -> 0..1]
  BY <1>1, <1>2
<1> QED BY <1>2, <1>3 DEF Told

LEMMA AskedIsSent ==
  ASSUME ChannelTypes, PlaceInv
  PROVE  /\ Len(asked) \in Nat /\ 1..Len(asked) \subseteq R /\ 1..Len(asked) = Channel!Sent
         /\ \A r \in 1..Len(asked) : asked[r] \in AskedTypes
         /\ \A r \in R : Held(r) => r \in 1..Len(asked)
<1>1. Len(asked) \in Nat /\ MaxRequests \in Nat
  BY ConnectedConstants, LenProperties DEF ChannelTypes, Channel!AutomationBounds
<1> QED BY <1>1 DEF ChannelTypes, PlaceInv, Channel!Sent, R

LEMMA StepShape ==
  ASSUME NEW s \in Seq(StepTypes)
  PROVE  /\ Len(s) \in Nat /\ DOMAIN s = 1..Len(s)
         /\ \A i \in 1..Len(s) : s[i] \in StepTypes /\ s[i].id \in R /\ s[i].remaining \in 1..MaxFrames
         /\ \A r : r \in Channel!Owed(Channel!Range(s)) <=> \E i \in 1..Len(s) : s[i].id = r
<1>1. Len(s) \in Nat /\ DOMAIN s = 1..Len(s) /\ \A i \in 1..Len(s) : s[i] \in StepTypes
  BY LenProperties, ElementOfSeq
<1>2. \A i \in 1..Len(s) : s[i].id \in R /\ s[i].remaining \in 1..MaxFrames
  BY <1>1 DEF StepTypes
<1> QED BY <1>1, <1>2 DEF Channel!Owed, Channel!Range

LEMMA StepsAre ==
  ASSUME ChannelTypes
  PROVE  /\ Len(steps) \in Nat /\ DOMAIN steps = 1..Len(steps)
         /\ \A i \in 1..Len(steps) : /\ steps[i] \in StepTypes /\ steps[i].id \in R
                                     /\ steps[i].remaining \in 1..MaxFrames
         /\ \A r : Stepping(r) <=> \E i \in 1..Len(steps) : steps[i].id = r
BY StepShape DEF ChannelTypes, Stepping

\* Nothing that was sent changes its kind, and the clock does not run.
LEMMA KeepsBooks ==
  ASSUME ChannelInv, UNCHANGED <<asked, frames, manual, steps>>,
         \A r \in R : Waiting(r)' => Waiting(r) \/ asked[r].kind = "wait",
         \A r \in R : Acting(r)' => Acting(r) \/ asked[r].kind = "act",
         \A r \in R : Told(r) => Told(r)',
         \A r \in R : Told(r)' => Told(r) \/ ~manual \/ (~Stepping(r) /\ asked[r].kind # "step")
  PROVE  KindInv' /\ FrameInv'
<1>1. \A r \in R : Stepping(r)' <=> Stepping(r)
  BY DEF Stepping
<1>2. KindInv'
  BY <1>1 DEF ChannelInv, KindInv
<1>3. 1..Len(asked) \subseteq R
  BY AskedIsSent DEF ChannelInv
<1>4. FrameInv'
  <2> SUFFICES ASSUME manual PROVE FrameInv'
    BY DEF FrameInv
  <2>1. \A r \in 1..Len(asked) : asked[r].kind = "step" /\ Told(r)' => Told(r)
    BY <1>3
  <2> QED BY <1>1, <1>3, <2>1 DEF ChannelInv, FrameInv
<1> QED BY <1>2, <1>4

-----------------------------------------------------------------------------
\* The harness and the reader.

LEMMA AskAct ==
  ASSUME ChannelInv, NEW kind \in Channel!Kinds, NEW n \in 1..MaxFrames, Channel!Ask(kind, n)
  PROVE  ChannelInv'
<1>0. PICK l : l = Len(asked) + 1
  OBVIOUS
<1> DEFINE req == [kind |-> kind, frames |-> n]
<1>1. /\ asked' = Append(asked, req) /\ stream' = Append(stream, l)
      /\ present /\ Len(asked) < MaxRequests
      /\ UNCHANGED <<tcp, manual, channelQueue, eof, pc, batch, sawEof, waits, steps, tasks, quit_,
                     answers, swallowed, frames, present>>
  BY <1>0 DEF Channel!Ask, Channel!host
<1>2. /\ Len(asked) \in Nat /\ l \in R /\ l \in 1..(MaxRequests + 1) /\ 1..Len(asked) \subseteq R
      /\ req \in AskedTypes /\ asked \in Seq(AskedTypes) /\ ~Held(l)
      /\ \A r \in R : Held(r) => r \in 1..Len(asked)
  <2>1. /\ Len(asked) \in Nat /\ 1..Len(asked) \subseteq R /\ MaxRequests \in Nat
        /\ \A r \in R : Held(r) => r \in 1..Len(asked)
    BY AskedIsSent, ConnectedConstants DEF ChannelInv, Channel!AutomationBounds
  <2>2. l \in R /\ l \in 1..(MaxRequests + 1) /\ l \notin 1..Len(asked)
    BY <1>0, <1>1, <2>1 DEF R
  <2>3. req \in AskedTypes /\ asked \in Seq(AskedTypes)
    BY DEF AskedTypes, ChannelInv, ChannelTypes
  <2> QED BY <2>1, <2>2, <2>3
<1>3. /\ asked' \in Seq(AskedTypes) /\ Len(asked') = l
      /\ \A r \in 1..Len(asked) : asked'[r] = asked[r]
  BY <1>0, <1>1, <1>2
<1>4. 1..Len(asked') = 1..Len(asked) \union {l}
  BY <1>0, <1>2, <1>3
<1>13. l <= MaxRequests
  BY <1>2, ConnectedConstants DEF R, Channel!AutomationBounds
<1> HIDE DEF req
<1>5. /\ stream' \in Seq(1..(MaxRequests + 1)) /\ Once(stream')
      /\ \A r \in R : Wire(r)' <=> Wire(r) \/ r = l
  <2>1. l \notin Channel!Range(stream)
    BY <1>2 DEF Held, Wire
  <2>2. stream \in Seq(1..(MaxRequests + 1)) /\ Once(stream)
    BY DEF ChannelInv, ChannelTypes, PlaceInv
  <2>3. Adding(1..(MaxRequests + 1), stream, l, stream')
    BY <1>1, <1>2, <2>1, <2>2, AddLast
  <2> QED BY <2>3 DEF Adding, Wire
<1>6. \A r \in R : /\ (Queued(r)' <=> Queued(r)) /\ (Taken(r)' <=> Taken(r))
                   /\ (Waiting(r)' <=> Waiting(r)) /\ (Stepping(r)' <=> Stepping(r))
                   /\ (Acting(r)' <=> Acting(r)) /\ (Swallowed(r)' <=> Swallowed(r))
                   /\ (Told(r)' <=> Told(r))
  BY <1>1 DEF Queued, Taken, Waiting, Stepping, Acting, Swallowed, Told
<1>7. ChannelTypes'
  BY <1>1, <1>3, <1>5, <1>13 DEF ChannelInv, ChannelTypes
<1>8. PlaceInv'
  <2>1. \A r \in R : (Held(r)' <=> r \in 1..Len(asked')) /\ AtMostOne(r)'
    BY <1>2, <1>4, <1>5, <1>6 DEF ChannelInv, PlaceInv, Held, AtMostOne
  <2> QED BY <1>1, <1>5, <2>1 DEF ChannelInv, PlaceInv
<1>9. EndInv'
  BY <1>1, <1>3, <1>4 DEF ChannelInv, EndInv
<1>10. KindInv'
  BY <1>2, <1>3, <1>6 DEF ChannelInv, KindInv, Held
<1>11. FrameInv'
  <2> SUFFICES ASSUME manual PROVE FrameInv'
    BY <1>1 DEF FrameInv
  <2>1. \A i \in 1..Len(steps) : steps[i].id \in 1..Len(asked)
    <3>1. \A i \in 1..Len(steps) : steps[i].id \in R /\ Stepping(steps[i].id)
      BY StepsAre DEF ChannelInv
    <3> QED BY <1>2, <3>1 DEF Held
  <2>2. ~Told(l)'
    <3>1. ~Told(l) /\ l \in R
      BY <1>2 DEF Held
    <3> QED BY <1>6, <3>1
  <2>3. FrameInv
    BY DEF ChannelInv
  <2>4. \A i \in 1..Len(steps) :
          frames[steps[i].id] = asked'[steps[i].id].frames - steps[i].remaining
    BY <1>3, <2>1, <2>3 DEF FrameInv
  <2>5. \A r \in 1..Len(asked') : asked'[r].kind = "step" /\ Told(r)' => frames[r] = asked'[r].frames
    <3>1. ASSUME NEW r \in 1..Len(asked), asked'[r].kind = "step", Told(r)'
          PROVE  frames[r] = asked'[r].frames
      BY <1>2, <1>3, <1>6, <2>3, <3>1 DEF FrameInv
    <3> QED BY <1>4, <2>2, <3>1
  <2>6. \A r \in R : ~Stepping(r)' /\ ~Told(r)' => frames[r] = 0
    BY <1>6, <2>3 DEF FrameInv
  <2> QED BY <1>1, <2>3, <2>4, <2>5, <2>6 DEF FrameInv
<1> QED BY <1>7, <1>8, <1>9, <1>10, <1>11 DEF ChannelInv

LEMMA HalfIsNone ==
  ASSUME NEW h, h = MaxRequests + 1
  PROVE  h \in 1..(MaxRequests + 1) /\ h \notin R /\ 0 \notin R /\ \A x \in 1..(MaxRequests + 1) : x # h => x \in R
BY ConnectedConstants DEF R, Channel!AutomationBounds

\* What the requests' places have to do with: nothing else of the channel.
LEMMA SamePlaces ==
  ASSUME UNCHANGED <<channelQueue, batch, waits, steps, tasks, swallowed, answers>>
  PROVE  \A r \in R : /\ (Queued(r)' <=> Queued(r)) /\ (Taken(r)' <=> Taken(r))
                      /\ (Waiting(r)' <=> Waiting(r)) /\ (Stepping(r)' <=> Stepping(r))
                      /\ (Acting(r)' <=> Acting(r)) /\ (Swallowed(r)' <=> Swallowed(r))
                      /\ (Told(r)' <=> Told(r))
BY DEF Queued, Taken, Waiting, Stepping, Acting, Swallowed, Told

LEMMA LeaveAct ==
  ASSUME ChannelInv, Channel!Leave
  PROVE  ChannelInv'
<1>0. PICK h : h = MaxRequests + 1
  OBVIOUS
<1>1. /\ present /\ ~present' /\ (stream' = stream \/ stream' = Append(stream, h))
      /\ UNCHANGED <<tcp, manual, asked, channelQueue, eof, pc, batch, sawEof, waits, steps, tasks,
                     quit_, answers, swallowed, frames>>
  BY <1>0 DEF Channel!Leave, Channel!host, Channel!Half
<1>2. /\ stream' \in Seq(1..(MaxRequests + 1)) /\ Once(stream')
      /\ \A r \in R : Wire(r)' <=> Wire(r)
  <2>1. stream \in Seq(1..(MaxRequests + 1)) /\ Once(stream)
    BY DEF ChannelInv, ChannelTypes, PlaceInv
  <2>2. CASE stream' = stream
    BY <2>1, <2>2 DEF Wire
  <2>3. CASE stream' = Append(stream, h)
    <3>1. Adding(1..(MaxRequests + 1), stream, h, stream')
      BY <1>0, <2>1, <2>3, HalfIsNone, AddLast
    <3> QED BY <1>0, <3>1, HalfIsNone DEF Adding, Wire
  <2> QED BY <1>1, <2>2, <2>3
<1>3. \A r \in R : /\ (Queued(r)' <=> Queued(r)) /\ (Taken(r)' <=> Taken(r))
                   /\ (Waiting(r)' <=> Waiting(r)) /\ (Stepping(r)' <=> Stepping(r))
                   /\ (Acting(r)' <=> Acting(r)) /\ (Swallowed(r)' <=> Swallowed(r))
                   /\ (Told(r)' <=> Told(r))
  BY <1>1, SamePlaces
<1>4. ChannelTypes'
  BY <1>1, <1>2 DEF ChannelInv, ChannelTypes
<1>5. PlaceInv'
  <2>1. \A r \in R : (Held(r)' <=> r \in 1..Len(asked')) /\ AtMostOne(r)'
    BY <1>1, <1>2, <1>3 DEF ChannelInv, PlaceInv, Held, AtMostOne
  <2> QED BY <1>1, <1>2, <2>1 DEF ChannelInv, PlaceInv
<1>6. EndInv'
  BY <1>1 DEF ChannelInv, EndInv
<1>7. KindInv' /\ FrameInv'
  BY <1>1, <1>3, KeepsBooks
<1> QED BY <1>4, <1>5, <1>6, <1>7 DEF ChannelInv

LEMMA AcceptAct ==
  ASSUME ChannelInv, Channel!Accept
  PROVE  ChannelInv'
<1>1. /\ tcp /\ present'
      /\ UNCHANGED <<stream, tcp, manual, asked, channelQueue, eof, pc, batch, sawEof, waits, steps, tasks,
                     quit_, answers, swallowed, frames>>
  BY DEF Channel!Accept, Channel!host, Channel!reader
<1>2. \A r \in R : (Wire(r)' <=> Wire(r))
  BY <1>1 DEF Wire
<1>3. \A r \in R : /\ (Queued(r)' <=> Queued(r)) /\ (Taken(r)' <=> Taken(r))
                   /\ (Waiting(r)' <=> Waiting(r)) /\ (Stepping(r)' <=> Stepping(r))
                   /\ (Acting(r)' <=> Acting(r)) /\ (Swallowed(r)' <=> Swallowed(r))
                   /\ (Told(r)' <=> Told(r))
  BY <1>1, SamePlaces
<1>4. ChannelTypes'
  BY <1>1 DEF ChannelInv, ChannelTypes
<1>5. PlaceInv'
  <2>1. \A r \in R : (Held(r)' <=> r \in 1..Len(asked')) /\ AtMostOne(r)'
    BY <1>1, <1>2, <1>3 DEF ChannelInv, PlaceInv, Held, AtMostOne
  <2> QED BY <1>1, <2>1 DEF ChannelInv, PlaceInv
<1>6. EndInv'
  BY <1>1 DEF ChannelInv, EndInv
<1>7. KindInv' /\ FrameInv'
  BY <1>1, <1>3, KeepsBooks
<1> QED BY <1>4, <1>5, <1>6, <1>7 DEF ChannelInv

\* Whatever becomes of a line, its request is taken from the wire and is in one place again.
LEMMA ReadAct ==
  ASSUME ChannelInv, Channel!Read
  PROVE  ChannelInv'
<1>0. PICK h : h = MaxRequests + 1
  OBVIOUS
<1>a. PICK l : l = Head(stream)
  OBVIOUS
<1>1. /\ stream # <<>> /\ stream' = Tail(stream)
      /\ \/ l = h /\ channelQueue' = channelQueue /\ swallowed' = swallowed
         \/ channelQueue' = Append(channelQueue, 0) /\ swallowed' = swallowed \union ({l} \ {h})
         \/ l # h /\ channelQueue' = Append(channelQueue, l) /\ swallowed' = swallowed
      /\ UNCHANGED <<present, tcp, manual, asked, eof, pc, batch, sawEof, waits, steps, tasks,
                     quit_, answers, frames>>
  BY <1>0, <1>a DEF Channel!Read, Channel!host, Channel!harness, Channel!Half
<1>2. /\ stream \in Seq(1..(MaxRequests + 1)) /\ Once(stream)
      /\ channelQueue \in Seq(0..MaxRequests) /\ Once(channelQueue)
      /\ ~eof /\ ~sawEof
  BY <1>1 DEF ChannelInv, ChannelTypes, PlaceInv, EndInv
<1>3. /\ stream' \in Seq(1..(MaxRequests + 1)) /\ Once(stream')
      /\ l \in 1..(MaxRequests + 1) /\ (l = h \/ l \in R) /\ (l \in R => l # h /\ Wire(l))
      /\ \A r \in R : Wire(r)' <=> Wire(r) /\ r # l
  <2>1. Taking(1..(MaxRequests + 1), stream, Head(stream), stream')
    BY <1>1, <1>2, TakeFirst
  <2> QED BY <1>0, <1>a, <2>1, HalfIsNone DEF Taking, Wire
<1>4. /\ channelQueue' \in Seq(0..MaxRequests) /\ Once(channelQueue') /\ swallowed' \subseteq R
      /\ \/ l = h /\ \A r \in R : (Queued(r)' <=> Queued(r)) /\ (Swallowed(r)' <=> Swallowed(r))
         \/ \A r \in R : (Queued(r)' <=> Queued(r)) /\ (Swallowed(r)' <=> Swallowed(r) \/ r = l)
         \/ \A r \in R : (Queued(r)' <=> Queued(r) \/ r = l) /\ (Swallowed(r)' <=> Swallowed(r))
  <2>0. swallowed \subseteq R
    BY DEF ChannelInv, ChannelTypes
  <2>1. CASE l = h /\ channelQueue' = channelQueue /\ swallowed' = swallowed
    BY <1>2, <2>0, <2>1 DEF Queued, Swallowed
  <2>2. CASE channelQueue' = Append(channelQueue, 0) /\ swallowed' = swallowed \union ({l} \ {h})
    <3>1. 0 \in 0..MaxRequests /\ 0 \notin R
      BY ConnectedConstants DEF R, Channel!AutomationBounds
    <3>2. Adding(0..MaxRequests, channelQueue, 0, channelQueue')
      BY <1>2, <2>2, <3>1, AddLast
    <3>3. \A r \in R : (Queued(r)' <=> Queued(r))
      BY <3>1, <3>2 DEF Adding, Queued
    <3>4. \A r \in R : (Swallowed(r)' <=> Swallowed(r) \/ r = l)
      BY <1>3, <2>2 DEF Swallowed
    <3> QED BY <1>3, <2>0, <2>2, <3>2, <3>3, <3>4 DEF Adding
  <2>3. CASE l # h /\ channelQueue' = Append(channelQueue, l) /\ swallowed' = swallowed
    <3>1. l \in R /\ l \in 0..MaxRequests
      BY <1>3, <2>3 DEF R
    <3>2. l \notin Channel!Range(channelQueue)
      BY <1>3, <3>1 DEF ChannelInv, PlaceInv, AtMostOne, Queued
    <3>3. Adding(0..MaxRequests, channelQueue, l, channelQueue')
      BY <1>2, <2>3, <3>1, <3>2, AddLast
    <3> QED BY <2>0, <2>3, <3>3 DEF Adding, Queued, Swallowed
  <2> QED BY <1>1, <2>1, <2>2, <2>3
<1>5. \A r \in R : /\ (Taken(r)' <=> Taken(r))
                   /\ (Waiting(r)' <=> Waiting(r)) /\ (Stepping(r)' <=> Stepping(r))
                   /\ (Acting(r)' <=> Acting(r)) /\ (Told(r)' <=> Told(r))
  BY <1>1 DEF Taken, Waiting, Stepping, Acting, Told
<1>6. ChannelTypes'
  BY <1>1, <1>3, <1>4 DEF ChannelInv, ChannelTypes
<1>7. PlaceInv'
  <2>1. ASSUME NEW r \in R
        PROVE  (Held(r)' <=> r \in 1..Len(asked')) /\ AtMostOne(r)'
    <3>1. (Held(r) <=> r \in 1..Len(asked)) /\ AtMostOne(r)
      BY DEF ChannelInv, PlaceInv
    <3>2. CASE r = l
      BY <1>1, <1>3, <1>4, <1>5, <3>1, <3>2 DEF Held, AtMostOne
    <3>3. CASE r # l
      BY <1>1, <1>3, <1>4, <1>5, <3>1, <3>3 DEF Held, AtMostOne
    <3> QED BY <3>2, <3>3
  <2> QED BY <1>1, <1>3, <1>4, <2>1 DEF ChannelInv, PlaceInv
<1>8. EndInv'
  BY <1>1, <1>2 DEF ChannelInv, EndInv
<1>9. KindInv' /\ FrameInv'
  BY <1>1, <1>5, KeepsBooks
<1> QED BY <1>6, <1>7, <1>8, <1>9 DEF ChannelInv

LEMMA EndOfInputAct ==
  ASSUME ChannelInv, Channel!EndOfInput
  PROVE  ChannelInv'
<1>1. /\ ~tcp /\ ~present /\ stream = <<>> /\ ~eof
      /\ UNCHANGED <<present, stream, tcp, manual, asked, channelQueue, pc, batch, sawEof, waits, steps,
                     tasks, quit_, answers, swallowed, frames>>
  BY DEF Channel!EndOfInput, Channel!host, Channel!harness
<1>2. \A r \in R : (Wire(r)' <=> Wire(r))
  BY <1>1 DEF Wire
<1>3. \A r \in R : /\ (Queued(r)' <=> Queued(r)) /\ (Taken(r)' <=> Taken(r))
                   /\ (Waiting(r)' <=> Waiting(r)) /\ (Stepping(r)' <=> Stepping(r))
                   /\ (Acting(r)' <=> Acting(r)) /\ (Swallowed(r)' <=> Swallowed(r))
                   /\ (Told(r)' <=> Told(r))
  BY <1>1, SamePlaces
<1>4. ChannelTypes'
  BY <1>1 DEF ChannelInv, ChannelTypes
<1>5. PlaceInv'
  <2>1. \A r \in R : (Held(r)' <=> r \in 1..Len(asked')) /\ AtMostOne(r)'
    BY <1>1, <1>2, <1>3 DEF ChannelInv, PlaceInv, Held, AtMostOne
  <2> QED BY <1>1, <2>1 DEF ChannelInv, PlaceInv
<1>6. EndInv'
  BY <1>1 DEF ChannelInv, EndInv
<1>7. KindInv' /\ FrameInv'
  BY <1>1, <1>3, KeepsBooks
<1> QED BY <1>4, <1>5, <1>6, <1>7 DEF ChannelInv

-----------------------------------------------------------------------------
\* The loop of the channel.

LEMMA ExpireAct ==
  ASSUME ChannelInv, Channel!Expire
  PROVE  ChannelInv'
<1>1. UNCHANGED <<present, stream, tcp, manual, asked, channelQueue, eof, pc, batch, sawEof, steps, tasks,
                  quit_, answers, swallowed, frames>>
  BY DEF Channel!Expire, Channel!reader, Channel!harness
<1>2. PICK w \in waits : waits' = (waits \ {w}) \union {[w EXCEPT !.late = TRUE]}
  BY DEF Channel!Expire
<1>3. waits \subseteq [id : R, late : BOOLEAN]
  BY DEF ChannelInv, ChannelTypes
<1>4. waits' \subseteq [id : R, late : BOOLEAN] /\ [w EXCEPT !.late = TRUE].id = w.id
  BY <1>2, <1>3
<1>5. \A r \in R : (Waiting(r)' <=> Waiting(r))
  BY <1>2, <1>4 DEF Waiting, Channel!Owed
<1>6. \A r \in R : /\ (Wire(r)' <=> Wire(r)) /\ (Queued(r)' <=> Queued(r)) /\ (Taken(r)' <=> Taken(r))
                   /\ (Stepping(r)' <=> Stepping(r)) /\ (Acting(r)' <=> Acting(r))
                   /\ (Swallowed(r)' <=> Swallowed(r)) /\ (Told(r)' <=> Told(r))
  BY <1>1 DEF Wire, Queued, Taken, Stepping, Acting, Swallowed, Told
<1>7. ChannelTypes'
  BY <1>1, <1>4 DEF ChannelInv, ChannelTypes
<1>8. PlaceInv'
  <2>1. \A r \in R : (Held(r)' <=> r \in 1..Len(asked')) /\ AtMostOne(r)'
    BY <1>1, <1>5, <1>6 DEF ChannelInv, PlaceInv, Held, AtMostOne
  <2> QED BY <1>1, <2>1 DEF ChannelInv, PlaceInv
<1>9. EndInv'
  BY <1>1 DEF ChannelInv, EndInv
<1>10. KindInv' /\ FrameInv'
  BY <1>1, <1>5, <1>6, KeepsBooks
<1> QED BY <1>7, <1>8, <1>9, <1>10 DEF ChannelInv

LEMMA PumpAct ==
  ASSUME ChannelInv, Channel!Pump
  PROVE  ChannelInv'
<1>1. /\ pc # "dispatch" /\ pc' = "dispatch" /\ batch' = channelQueue /\ channelQueue' = <<>> /\ sawEof' = eof
      /\ UNCHANGED <<present, stream, tcp, manual, asked, eof, waits, steps, tasks,
                     quit_, answers, swallowed, frames>>
  BY DEF Channel!Pump, Channel!harness
<1>2. batch = <<>> /\ Channel!Range(batch) = {} /\ Channel!Range(channelQueue') = {} /\ Once(channelQueue')
  BY <1>1, EmptyOnce DEF ChannelInv, EndInv
<1>3. \A r \in R : ~Taken(r) /\ (Taken(r)' <=> Queued(r)) /\ ~Queued(r)'
  BY <1>1, <1>2 DEF Taken, Queued
<1>4. \A r \in R : /\ (Wire(r)' <=> Wire(r))
                   /\ (Waiting(r)' <=> Waiting(r)) /\ (Stepping(r)' <=> Stepping(r))
                   /\ (Acting(r)' <=> Acting(r)) /\ (Swallowed(r)' <=> Swallowed(r))
                   /\ (Told(r)' <=> Told(r))
  BY <1>1 DEF Wire, Waiting, Stepping, Acting, Swallowed, Told
<1>5. ChannelTypes'
  BY <1>1 DEF ChannelInv, ChannelTypes
<1>6. PlaceInv'
  <2>1. \A r \in R : (Held(r)' <=> r \in 1..Len(asked')) /\ AtMostOne(r)'
    BY <1>1, <1>3, <1>4 DEF ChannelInv, PlaceInv, Held, AtMostOne
  <2>2. Once(stream') /\ Once(batch') /\ \A i, j \in 1..Len(steps') : i < j => steps'[i].id # steps'[j].id
    BY <1>1 DEF ChannelInv, PlaceInv
  <2> QED BY <1>2, <2>1, <2>2 DEF PlaceInv
<1>7. EndInv'
  BY <1>1 DEF ChannelInv, EndInv
<1>8. KindInv' /\ FrameInv'
  BY <1>1, <1>4, KeepsBooks
<1> QED BY <1>5, <1>6, <1>7, <1>8 DEF ChannelInv

\* A step that is added last.
AddingStep(s, e, t) ==
  /\ t \in Seq(StepTypes) /\ Len(t) = Len(s) + 1 /\ t[Len(s) + 1] = e
  /\ \A i \in 1..Len(s) : t[i] = s[i]
  /\ \A i, j \in 1..Len(t) : i < j => t[i].id # t[j].id
  /\ \A r : r \in Channel!Owed(Channel!Range(t)) <=> r \in Channel!Owed(Channel!Range(s)) \/ r = e.id

LEMMA AddStep ==
  ASSUME NEW s \in Seq(StepTypes), NEW e \in StepTypes, NEW t, t = Append(s, e),
         \A i, j \in 1..Len(s) : i < j => s[i].id # s[j].id,
         e.id \notin Channel!Owed(Channel!Range(s))
  PROVE  AddingStep(s, e, t)
<1>1. /\ t \in Seq(StepTypes) /\ Len(t) = Len(s) + 1 /\ Len(s) \in Nat /\ t[Len(s) + 1] = e
      /\ \A i \in 1..Len(s) : t[i] = s[i]
  BY LenProperties
<1>2. \A i \in 1..Len(t) : i \in 1..Len(s) \/ i = Len(s) + 1
  BY <1>1
<1>3. \A i \in 1..Len(s) : s[i].id # e.id
  BY StepShape
<1>4. \A i, j \in 1..Len(t) : i < j => t[i].id # t[j].id
  BY <1>1, <1>2, <1>3
<1>5. Len(s) + 1 \in 1..Len(t) /\ 1..Len(s) \subseteq 1..Len(t)
  BY <1>1
<1>6. \A r : (\E i \in 1..Len(t) : t[i].id = r) <=> (\E i \in 1..Len(s) : s[i].id = r) \/ r = e.id
  BY <1>1, <1>2, <1>5
<1>7. \A r : r \in Channel!Owed(Channel!Range(t)) <=> r \in Channel!Owed(Channel!Range(s)) \/ r = e.id
  <2>1. \A r : r \in Channel!Owed(Channel!Range(t)) <=> \E i \in 1..Len(t) : t[i].id = r
    BY <1>1, StepShape
  <2>2. \A r : r \in Channel!Owed(Channel!Range(s)) <=> \E i \in 1..Len(s) : s[i].id = r
    BY StepShape
  <2> QED BY <1>6, <2>1, <2>2
<1> QED BY <1>1, <1>4, <1>7 DEF AddingStep

\* What dispatch makes of one line.
AnsweredNow(id) ==
  /\ Channel!Answer({id}) /\ UNCHANGED <<waits, steps, tasks>>
  /\ asked[id].kind = "step" => ~manual
  /\ quit_' = quit_ \/ (quit_' /\ asked[id].kind = "quit")
AWaitMore(id) ==
  /\ asked[id].kind = "wait" /\ \E late \in BOOLEAN : waits' = waits \union {[id |-> id, late |-> late]}
  /\ UNCHANGED <<answers, quit_, steps, tasks>>
AStepMore(id) ==
  /\ asked[id].kind = "step" /\ steps' = Append(steps, [id |-> id, remaining |-> asked[id].frames])
  /\ UNCHANGED <<answers, quit_, waits, tasks>>
ATaskMore(id) ==
  /\ asked[id].kind = "act" /\ tasks' = tasks \union {[id |-> id, left |-> asked[id].frames]}
  /\ UNCHANGED <<answers, quit_, waits, steps>>

LEMMA DispatchShape ==
  ASSUME Channel!Dispatch, NEW id, id = Head(batch)
  PROVE  /\ pc = "dispatch" /\ batch # <<>> /\ batch' = Tail(batch)
         /\ UNCHANGED <<present, stream, tcp, manual, asked, channelQueue, eof, pc, sawEof, swallowed, frames>>
         /\ \/ id = 0 /\ UNCHANGED <<waits, steps, tasks, quit_, answers>>
            \/ id # 0 /\ (AnsweredNow(id) \/ AWaitMore(id) \/ AStepMore(id) \/ ATaskMore(id))
<1>1. /\ pc = "dispatch" /\ batch # <<>> /\ batch' = Tail(batch)
      /\ UNCHANGED <<present, stream, tcp, manual, asked, channelQueue, eof, pc, sawEof, swallowed, frames>>
  BY DEF Channel!Dispatch, Channel!reader, Channel!harness
<1>2. \/ id = 0 /\ UNCHANGED <<waits, steps, tasks, quit_, answers>>
      \/ id # 0 /\ (AnsweredNow(id) \/ AWaitMore(id) \/ AStepMore(id) \/ ATaskMore(id))
  BY DEF Channel!Dispatch, AnsweredNow, AWaitMore, AStepMore, ATaskMore
<1> QED BY <1>1, <1>2

LEMMA DispatchAct ==
  ASSUME ChannelInv, Channel!Dispatch
  PROVE  ChannelInv'
<1>a. PICK id : id = Head(batch)
  OBVIOUS
<1>1. /\ pc = "dispatch" /\ batch # <<>> /\ batch' = Tail(batch)
      /\ UNCHANGED <<present, stream, tcp, manual, asked, channelQueue, eof, pc, sawEof, swallowed, frames>>
      /\ \/ id = 0 /\ UNCHANGED <<waits, steps, tasks, quit_, answers>>
         \/ id # 0 /\ (AnsweredNow(id) \/ AWaitMore(id) \/ AStepMore(id) \/ ATaskMore(id))
  BY <1>a, DispatchShape
<1>2. /\ batch' \in Seq(0..MaxRequests) /\ Once(batch')
      /\ id \in 0..MaxRequests /\ (id # 0 => id \in R /\ Taken(id)) /\ 0 \notin R
      /\ \A r \in R : Taken(r)' <=> Taken(r) /\ r # id
  <2>1. batch \in Seq(0..MaxRequests) /\ Once(batch)
    BY DEF ChannelInv, ChannelTypes, PlaceInv
  <2>2. Taking(0..MaxRequests, batch, Head(batch), batch')
    BY <1>1, <2>1, TakeFirst
  <2>3. \A x \in 0..MaxRequests : x # 0 => x \in R
    BY ConnectedConstants DEF R, Channel!AutomationBounds
  <2> QED BY <1>a, <2>2, <2>3 DEF Taking, Taken, R
<1>3. \A r \in R : /\ (Wire(r)' <=> Wire(r)) /\ (Queued(r)' <=> Queued(r)) /\ (Swallowed(r)' <=> Swallowed(r))
  BY <1>1 DEF Wire, Queued, Swallowed
<1>4. id # 0 => /\ id \in R /\ id \in 1..Len(asked) /\ asked[id] \in AskedTypes /\ Taken(id)
                /\ ~Told(id) /\ ~Stepping(id)
                /\ asked[id].frames \in 1..MaxFrames
  <2>1. ASSUME id # 0
        PROVE  /\ id \in R /\ id \in 1..Len(asked) /\ Taken(id) /\ ~Told(id) /\ ~Stepping(id)
    BY <1>2, <2>1 DEF ChannelInv, PlaceInv, Held, AtMostOne
  <2> QED BY <2>1, AskedIsSent DEF ChannelInv, AskedTypes
\* One place gains it.
<1> DEFINE Moved(newW, newS, newA, newT) ==
             /\ ChannelTypes'
             /\ \A i, j \in 1..Len(steps') : i < j => steps'[i].id # steps'[j].id
             /\ \A r \in R : /\ (Waiting(r)' <=> Waiting(r) \/ (newW /\ r = id))
                             /\ (Stepping(r)' <=> Stepping(r) \/ (newS /\ r = id))
                             /\ (Acting(r)' <=> Acting(r) \/ (newA /\ r = id))
                             /\ (Told(r)' <=> Told(r) \/ (newT /\ r = id))
<1>5. ASSUME NEW newW \in BOOLEAN, NEW newS \in BOOLEAN, NEW newA \in BOOLEAN, NEW newT \in BOOLEAN,
             Moved(newW, newS, newA, newT),
             id # 0 => \/ newW /\ ~newS /\ ~newA /\ ~newT
                       \/ ~newW /\ newS /\ ~newA /\ ~newT
                       \/ ~newW /\ ~newS /\ newA /\ ~newT
                       \/ ~newW /\ ~newS /\ ~newA /\ newT
      PROVE  PlaceInv'
  <2>1. ASSUME NEW r \in R
        PROVE  (Held(r)' <=> r \in 1..Len(asked')) /\ AtMostOne(r)'
    <3>1. (Held(r) <=> r \in 1..Len(asked)) /\ AtMostOne(r)
      BY DEF ChannelInv, PlaceInv
    <3>2. CASE r # id
      BY <1>1, <1>2, <1>3, <1>5, <3>1, <3>2 DEF Held, AtMostOne
    <3>3. CASE r = id
      <4>1. id # 0 /\ Taken(r) /\ ~Taken(r)'
        BY <1>2, <3>3
      <4> QED BY <1>1, <1>3, <1>5, <3>1, <3>3, <4>1 DEF Held, AtMostOne
    <3> QED BY <3>2, <3>3
  <2>2. Once(stream') /\ Once(channelQueue')
    BY <1>1 DEF ChannelInv, PlaceInv
  <2> QED BY <1>2, <1>5, <2>1, <2>2 DEF PlaceInv
<1>6. CASE id = 0
  <2>1. UNCHANGED <<waits, steps, tasks, quit_, answers>>
    BY <1>1, <1>4, <1>6
  <2>2. ChannelTypes'
    BY <1>1, <1>2, <2>1 DEF ChannelInv, ChannelTypes
  <2>3. \A r \in R : /\ (Waiting(r)' <=> Waiting(r)) /\ (Stepping(r)' <=> Stepping(r))
                     /\ (Acting(r)' <=> Acting(r)) /\ (Told(r)' <=> Told(r))
    BY <2>1 DEF Waiting, Stepping, Acting, Told
  <2>4. Moved(FALSE, FALSE, FALSE, FALSE)
    BY <2>1, <2>2, <2>3 DEF ChannelInv, PlaceInv
  <2>5. PlaceInv'
    BY <1>5, <1>6, <2>4
  <2>6. EndInv'
    BY <1>1, <2>1 DEF ChannelInv, EndInv
  <2>7. KindInv' /\ FrameInv'
    BY <1>1, <2>1, <2>3, KeepsBooks
  <2> QED BY <2>2, <2>5, <2>6, <2>7 DEF ChannelInv
<1>7. CASE id # 0 /\ AnsweredNow(id)
  <2>1. /\ answers' \in [R -> 0..1] /\ \A r \in R : (Told(r)' <=> Told(r) \/ r = id)
    <3>1. answers \in [R -> 0..1]
      BY DEF ChannelInv, ChannelTypes
    <3>2. Channel!Answer({id}) /\ \A r \in R : r \in {id} => ~Told(r)
      BY <1>4, <1>7 DEF AnsweredNow
    <3>3. \A r \in R : Told(r)' <=> Told(r) \/ r \in {id}
      BY <3>1, <3>2, AnswersOnce
    <3>4. answers' \in [R -> 0..1]
      BY <3>1, <3>2, AnswersOnce
    <3> QED BY <3>3, <3>4
  <2>2. UNCHANGED <<waits, steps, tasks>> /\ (asked[id].kind = "step" => ~manual)
        /\ (quit_' = quit_ \/ (quit_' /\ asked[id].kind = "quit"))
    BY <1>7 DEF AnsweredNow
  <2>3. ChannelTypes'
    BY <1>1, <1>2, <2>1, <2>2 DEF ChannelInv, ChannelTypes
  <2>4. \A r \in R : /\ (Waiting(r)' <=> Waiting(r)) /\ (Stepping(r)' <=> Stepping(r))
                     /\ (Acting(r)' <=> Acting(r))
    BY <2>2 DEF Waiting, Stepping, Acting
  <2>5. Moved(FALSE, FALSE, FALSE, TRUE)
    BY <2>1, <2>2, <2>3, <2>4 DEF ChannelInv, PlaceInv
  <2>6. PlaceInv'
    BY <1>5, <2>5
  <2>7. EndInv'
    <3>1. \A r \in 1..Len(asked) : answers[r] = 1 => answers'[r] = 1
      <4>1. 1..Len(asked) \subseteq R
        BY AskedIsSent DEF ChannelInv
      <4> QED BY <2>1, <4>1 DEF Told
    <3>2. answers'[id] = 1
      BY <1>4, <1>7, <2>1 DEF Told
    <3> QED BY <1>1, <1>4, <1>7, <2>2, <3>1, <3>2 DEF ChannelInv, EndInv
  <2>8. KindInv' /\ FrameInv'
    <3>1. \A r \in R : Told(r)' => Told(r) \/ ~manual \/ (~Stepping(r) /\ asked[r].kind # "step")
      BY <1>4, <1>7, <2>1, <2>2
    <3> QED BY <1>1, <2>1, <2>2, <2>4, <3>1, KeepsBooks
  <2> QED BY <2>3, <2>6, <2>7, <2>8 DEF ChannelInv
<1>8. CASE id # 0 /\ AWaitMore(id)
  <2>1. PICK late \in BOOLEAN : waits' = waits \union {[id |-> id, late |-> late]}
    BY <1>8 DEF AWaitMore
  <2>2. UNCHANGED <<answers, quit_, steps, tasks>> /\ asked[id].kind = "wait"
    BY <1>8 DEF AWaitMore
  <2>3. waits' \subseteq [id : R, late : BOOLEAN] /\ \A r \in R : (Waiting(r)' <=> Waiting(r) \/ r = id)
    <3>1. PICK w : w = [id |-> id, late |-> late]
      OBVIOUS
    <3>2. w \in [id : R, late : BOOLEAN] /\ w.id = id /\ waits' = waits \union {w}
      BY <1>4, <1>8, <2>1, <3>1
    <3> QED BY <3>2 DEF ChannelInv, ChannelTypes, Waiting, Channel!Owed
  <2>4. ChannelTypes'
    BY <1>1, <1>2, <2>2, <2>3 DEF ChannelInv, ChannelTypes
  <2>5. \A r \in R : /\ (Stepping(r)' <=> Stepping(r)) /\ (Acting(r)' <=> Acting(r)) /\ (Told(r)' <=> Told(r))
    BY <2>2 DEF Stepping, Acting, Told
  <2>6. Moved(TRUE, FALSE, FALSE, FALSE)
    BY <2>2, <2>3, <2>4, <2>5 DEF ChannelInv, PlaceInv
  <2>7. PlaceInv'
    BY <1>5, <2>6
  <2>8. EndInv'
    BY <1>1, <2>2 DEF ChannelInv, EndInv
  <2>9. KindInv' /\ FrameInv'
    BY <1>1, <2>2, <2>3, <2>5, KeepsBooks
  <2> QED BY <2>4, <2>7, <2>8, <2>9 DEF ChannelInv
<1>9. CASE id # 0 /\ AStepMore(id)
  <2>0. PICK e : e = [id |-> id, remaining |-> asked[id].frames]
    OBVIOUS
  <2>1. /\ asked[id].kind = "step" /\ steps' = Append(steps, e)
        /\ UNCHANGED <<answers, quit_, waits, tasks>>
    BY <1>9, <2>0 DEF AStepMore
  <2>2. e \in StepTypes /\ e.id = id /\ e.remaining = asked[id].frames
    BY <1>4, <1>9, <2>0 DEF StepTypes
  <2>3. AddingStep(steps, e, steps')
    <3>1. steps \in Seq(StepTypes) /\ \A i, j \in 1..Len(steps) : i < j => steps[i].id # steps[j].id
      BY DEF ChannelInv, ChannelTypes, PlaceInv
    <3>2. e.id \notin Channel!Owed(Channel!Range(steps))
      BY <1>4, <1>9, <2>2 DEF Stepping
    <3> QED BY <2>1, <2>2, <3>1, <3>2, AddStep
  <2>4. ChannelTypes'
    BY <1>1, <1>2, <2>1, <2>3 DEF ChannelInv, ChannelTypes, AddingStep
  <2>5. \A r \in R : /\ (Waiting(r)' <=> Waiting(r)) /\ (Stepping(r)' <=> Stepping(r) \/ r = id)
                     /\ (Acting(r)' <=> Acting(r)) /\ (Told(r)' <=> Told(r))
    BY <2>1, <2>2, <2>3 DEF Waiting, Stepping, Acting, Told, AddingStep
  <2>6. Moved(FALSE, TRUE, FALSE, FALSE)
    BY <2>3, <2>4, <2>5 DEF AddingStep
  <2>7. PlaceInv'
    BY <1>5, <2>6
  <2>8. EndInv'
    BY <1>1, <2>1 DEF ChannelInv, EndInv
  <2>9. KindInv'
    BY <1>1, <2>1, <2>5 DEF ChannelInv, KindInv
  <2>10. FrameInv'
    <3> SUFFICES ASSUME manual PROVE FrameInv'
      BY <1>1 DEF FrameInv
    <3>1. FrameInv
      BY DEF ChannelInv
    <3>2. Len(steps) \in Nat /\ Len(steps') = Len(steps) + 1 /\ steps'[Len(steps) + 1] = e
          /\ \A i \in 1..Len(steps) : steps'[i] = steps[i]
      BY <2>3, StepsAre DEF ChannelInv, AddingStep
    <3>3. \A i \in 1..Len(steps') : i \in 1..Len(steps) \/ i = Len(steps) + 1
      BY <3>2
    <3>4. frames[id] = asked[id].frames - e.remaining
      BY <1>4, <1>9, <2>2, <3>1 DEF FrameInv
    <3>5. \A i \in 1..Len(steps') :
            frames'[steps'[i].id] = asked'[steps'[i].id].frames - steps'[i].remaining
      BY <1>1, <2>2, <3>1, <3>2, <3>3, <3>4 DEF FrameInv
    <3>6. \A r \in 1..Len(asked) : (Told(r)' <=> Told(r))
      BY <2>1 DEF Told
    <3>7. \A r \in R : ~Stepping(r)' /\ ~Told(r)' => frames[r] = 0
      BY <2>5, <3>1 DEF FrameInv
    <3> QED BY <1>1, <3>1, <3>5, <3>6, <3>7 DEF FrameInv
  <2> QED BY <2>4, <2>7, <2>8, <2>9, <2>10 DEF ChannelInv
<1>10. CASE id # 0 /\ ATaskMore(id)
  <2>1. /\ asked[id].kind = "act" /\ tasks' = tasks \union {[id |-> id, left |-> asked[id].frames]}
        /\ UNCHANGED <<answers, quit_, waits, steps>>
    BY <1>10 DEF ATaskMore
  <2>2. tasks' \subseteq [id : R, left : 1..MaxFrames] /\ \A r \in R : (Acting(r)' <=> Acting(r) \/ r = id)
    <3>1. PICK a : a = [id |-> id, left |-> asked[id].frames]
      OBVIOUS
    <3>2. a \in [id : R, left : 1..MaxFrames] /\ a.id = id /\ tasks' = tasks \union {a}
      BY <1>4, <1>10, <2>1, <3>1
    <3> QED BY <3>2 DEF ChannelInv, ChannelTypes, Acting, Channel!Owed
  <2>3. ChannelTypes'
    BY <1>1, <1>2, <2>1, <2>2 DEF ChannelInv, ChannelTypes
  <2>4. \A r \in R : /\ (Waiting(r)' <=> Waiting(r)) /\ (Stepping(r)' <=> Stepping(r)) /\ (Told(r)' <=> Told(r))
    BY <2>1 DEF Waiting, Stepping, Told
  <2>5. Moved(FALSE, FALSE, TRUE, FALSE)
    BY <2>1, <2>2, <2>3, <2>4 DEF ChannelInv, PlaceInv
  <2>6. PlaceInv'
    BY <1>5, <2>5
  <2>7. EndInv'
    BY <1>1, <2>1 DEF ChannelInv, EndInv
  <2>8. KindInv' /\ FrameInv'
    BY <1>1, <2>1, <2>2, <2>4, KeepsBooks
  <2> QED BY <2>3, <2>6, <2>7, <2>8 DEF ChannelInv
<1> QED BY <1>1, <1>6, <1>7, <1>8, <1>9, <1>10

LEMMA EvaluateWaitsAct ==
  ASSUME ChannelInv, Channel!EvaluateWaits
  PROVE  ChannelInv'
<1>1. /\ batch = <<>> /\ (quit_' <=> quit_ \/ (sawEof /\ idle))
      /\ UNCHANGED <<present, stream, tcp, manual, asked, channelQueue, eof, batch, sawEof, steps, tasks,
                     swallowed, frames>>
  BY DEF Channel!EvaluateWaits, Channel!Ended, Channel!reader, Channel!harness
<1>2. PICK done : /\ done \subseteq Channel!Owed(waits) /\ Channel!Answer(done)
                  /\ waits' = {w \in waits : w.id \notin done}
  BY DEF Channel!EvaluateWaits
<1>3. \A r \in R : r \in done => Waiting(r) /\ ~Told(r) /\ ~Stepping(r) /\ asked[r].kind = "wait"
  BY <1>2 DEF ChannelInv, PlaceInv, AtMostOne, Waiting, KindInv
<1>4. answers' \in [R -> 0..1] /\ \A r \in R : (Told(r)' <=> Told(r) \/ r \in done)
  <2>1. answers \in [R -> 0..1] /\ \A r \in R : r \in done => ~Told(r)
    BY <1>3 DEF ChannelInv, ChannelTypes
  <2> QED BY <1>2, <2>1, AnswersOnce
<1>5. waits' \subseteq [id : R, late : BOOLEAN] /\ \A r \in R : (Waiting(r)' <=> Waiting(r) /\ r \notin done)
  BY <1>2 DEF ChannelInv, ChannelTypes, Waiting, Channel!Owed
<1>6. \A r \in R : /\ (Wire(r)' <=> Wire(r)) /\ (Queued(r)' <=> Queued(r)) /\ (Taken(r)' <=> Taken(r))
                   /\ (Stepping(r)' <=> Stepping(r)) /\ (Acting(r)' <=> Acting(r))
                   /\ (Swallowed(r)' <=> Swallowed(r))
  BY <1>1 DEF Wire, Queued, Taken, Stepping, Acting, Swallowed
<1>7. ChannelTypes'
  BY <1>1, <1>4, <1>5 DEF ChannelInv, ChannelTypes
<1>8. PlaceInv'
  <2>1. ASSUME NEW r \in R
        PROVE  (Held(r)' <=> r \in 1..Len(asked')) /\ AtMostOne(r)'
    <3>1. (Held(r) <=> r \in 1..Len(asked)) /\ AtMostOne(r)
      BY DEF ChannelInv, PlaceInv
    <3> QED BY <1>1, <1>3, <1>4, <1>5, <1>6, <3>1 DEF Held, AtMostOne
  <2> QED BY <1>1, <2>1 DEF ChannelInv, PlaceInv
<1>9. EndInv'
  <2>1. \A r \in 1..Len(asked) : answers[r] = 1 => answers'[r] = 1
    <3>1. 1..Len(asked) \subseteq R
      BY AskedIsSent DEF ChannelInv
    <3> QED BY <1>4, <3>1 DEF Told
  <2> QED BY <1>1, <2>1 DEF ChannelInv, EndInv
<1>10. KindInv' /\ FrameInv'
  <2>1. \A r \in R : Told(r)' => Told(r) \/ ~manual \/ (~Stepping(r) /\ asked[r].kind # "step")
    BY <1>3, <1>4
  <2> QED BY <1>1, <1>4, <1>5, <1>6, <2>1, KeepsBooks
<1> QED BY <1>7, <1>8, <1>9, <1>10 DEF ChannelInv

LEMMA NoFrameAct ==
  ASSUME ChannelInv, Channel!NoFrame
  PROVE  ChannelInv'
<1>1. /\ pc = "frame" /\ pc' = "pump"
      /\ UNCHANGED <<present, stream, tcp, manual, asked, channelQueue, eof, batch, sawEof, waits, steps,
                     tasks, quit_, answers, swallowed, frames>>
  BY DEF Channel!NoFrame, Channel!reader, Channel!harness
<1>2. \A r \in R : (Wire(r)' <=> Wire(r))
  BY <1>1 DEF Wire
<1>3. \A r \in R : /\ (Queued(r)' <=> Queued(r)) /\ (Taken(r)' <=> Taken(r))
                   /\ (Waiting(r)' <=> Waiting(r)) /\ (Stepping(r)' <=> Stepping(r))
                   /\ (Acting(r)' <=> Acting(r)) /\ (Swallowed(r)' <=> Swallowed(r))
                   /\ (Told(r)' <=> Told(r))
  BY <1>1, SamePlaces
<1>4. ChannelTypes'
  BY <1>1 DEF ChannelInv, ChannelTypes
<1>5. PlaceInv'
  <2>1. \A r \in R : (Held(r)' <=> r \in 1..Len(asked')) /\ AtMostOne(r)'
    BY <1>1, <1>2, <1>3 DEF ChannelInv, PlaceInv, Held, AtMostOne
  <2> QED BY <1>1, <2>1 DEF ChannelInv, PlaceInv
<1>6. EndInv'
  BY <1>1 DEF ChannelInv, EndInv
<1>7. KindInv' /\ FrameInv'
  BY <1>1, <1>3, KeepsBooks
<1> QED BY <1>4, <1>5, <1>6, <1>7 DEF ChannelInv

\* The first step, of which a frame was run, and the others when it is done.
StepRun(s, t) ==
  /\ t \in Seq(StepTypes) /\ Len(t) = Len(s)
  /\ t[1].id = s[1].id /\ t[1].remaining = s[1].remaining - 1
  /\ \A i \in 2..Len(s) : t[i] = s[i]
StepOver(s, t) ==
  /\ t \in Seq(StepTypes) /\ Len(t) = Len(s) - 1
  /\ \A i \in 1..Len(t) : t[i] = s[i + 1]

LEMMA StepsSpent ==
  ASSUME NEW s \in Seq(StepTypes), s # <<>>, NEW l, l = Channel!Spent(s),
         NEW t, t = (IF Channel!Done(l) THEN Tail(l) ELSE l)
  PROVE  /\ Channel!Done(l) <=> s[1].remaining = 1
         /\ Channel!Done(l) => StepOver(s, t)
         /\ ~Channel!Done(l) => StepRun(s, t)
<1>1. /\ Len(s) \in Nat /\ Len(s) > 0 /\ 1 \in DOMAIN s /\ DOMAIN s = 1..Len(s)
      /\ \A i \in 1..Len(s) : s[i] \in StepTypes
  BY LenProperties, ElementOfSeq, EmptySeq
<1>2. PICK e : e = [s[1] EXCEPT !.remaining = @ - 1]
  OBVIOUS
<1>3. /\ s[1].id \in R /\ s[1].remaining \in 1..MaxFrames
      /\ e.id = s[1].id /\ e.remaining = s[1].remaining - 1
      /\ e.remaining # 0 => e \in StepTypes
      /\ e \in [id : R, remaining : Int]
  <2>1. s[1] \in [id : R, remaining : 1..MaxFrames]
    BY <1>1 DEF StepTypes
  <2>2. MaxFrames \in Nat
    BY ConnectedConstants DEF Channel!AutomationBounds
  <2> QED BY <1>2, <2>1, <2>2 DEF StepTypes
<1>4. l = [s EXCEPT ![1] = e]
  BY <1>2 DEF Channel!Spent
<1>5. /\ DOMAIN l = 1..Len(s) /\ l[1] = e /\ \A i \in 2..Len(s) : l[i] = s[i]
  BY <1>1, <1>4
<1>6. l \in Seq([id : R, remaining : Int]) /\ Len(l) = Len(s) /\ l # <<>>
  <2>1. \A i \in 1..Len(s) : l[i] \in [id : R, remaining : Int]
    <3>1. \A i \in 1..Len(s) : s[i] \in [id : R, remaining : Int]
      <4>1. \A x \in StepTypes : x \in [id : R, remaining : Int]
        BY DEF StepTypes
      <4> QED BY <1>1, <4>1
    <3>2. \A i \in 1..Len(s) : i = 1 \/ i \in 2..Len(s)
      BY <1>1
    <3> QED BY <1>3, <1>5, <3>1, <3>2
  <2>2. l = [i \in 1..Len(s) |-> l[i]]
    BY <1>1, <1>4
  <2>3. l \in Seq([id : R, remaining : Int]) /\ Len(l) = Len(s)
    BY <1>1, <2>1, <2>2
  <2> QED BY <1>1, <2>3
<1>7. Head(l) = e
  BY <1>5, <1>6, HeadTailProperties
<1>8. Channel!Done(l) <=> s[1].remaining = 1
  BY <1>3, <1>6, <1>7 DEF Channel!Done
<1>9. ASSUME Channel!Done(l) PROVE StepOver(s, t)
  <2>1. t = Tail(l)
    BY <1>9
  <2>2. Len(t) = Len(s) - 1 /\ \A i \in 1..Len(t) : t[i] = l[i + 1]
    BY <1>6, <2>1, HeadTailProperties
  <2>3. \A i \in 1..Len(t) : i + 1 \in 2..Len(s) /\ i + 1 \in 1..Len(s)
    <3>1. Len(t) = Len(s) - 1 /\ Len(s) \in Nat
      BY <1>1, <2>2
    <3> QED BY <3>1
  <2>4. \A i \in 1..Len(t) : t[i] = s[i + 1] /\ t[i] \in StepTypes
    BY <1>1, <1>5, <2>2, <2>3, ZenonT(60)
  <2>5. t \in Seq([id : R, remaining : Int])
    BY <1>6, <2>1, HeadTailProperties
  <2>6. t \in Seq(StepTypes)
    <3>1. PICK n \in Nat : n = Len(t)
      BY <2>5, LenProperties
    <3>2. t = [i \in 1..n |-> t[i]]
      BY <2>5, <3>1, LenProperties
    <3>3. \A i \in 1..n : t[i] \in StepTypes
      BY <2>4, <3>1
    <3>4. t \in [1..n -> StepTypes]
      BY <3>2, <3>3
    <3> QED BY <3>4, SeqDef
  <2> QED BY <2>2, <2>4, <2>6 DEF StepOver
<1>10. ASSUME ~Channel!Done(l) PROVE StepRun(s, t)
  <2>1. t = l
    BY <1>10
  <2>2. e \in StepTypes
    BY <1>3, <1>8, <1>10
  <2>3. \A i \in 1..Len(s) : l[i] \in StepTypes
    <3>1. \A i \in 1..Len(s) : i = 1 \/ i \in 2..Len(s)
      BY <1>1
    <3> QED BY <1>1, <1>5, <2>2, <3>1
  <2>4. t \in Seq(StepTypes)
    <3>1. t = [i \in 1..Len(t) |-> t[i]] /\ Len(t) \in Nat
      BY <1>6, <2>1, LenProperties
    <3> QED BY <1>6, <2>1, <2>3, <3>1
  <2> QED BY <1>3, <1>5, <1>6, <2>1, <2>4 DEF StepRun
<1> QED BY <1>8, <1>9, <1>10

LEMMA StepOverIs ==
  ASSUME NEW s \in Seq(StepTypes), s # <<>>, NEW t, StepOver(s, t),
         \A i, j \in 1..Len(s) : i < j => s[i].id # s[j].id
  PROVE  /\ \A i, j \in 1..Len(t) : i < j => t[i].id # t[j].id
         /\ \A i \in 1..Len(t) : i + 1 \in 1..Len(s) /\ t[i] = s[i + 1] /\ s[i + 1].id # s[1].id
         /\ \A r : r \in Channel!Owed(Channel!Range(t)) <=> r \in Channel!Owed(Channel!Range(s)) /\ r # s[1].id
<1>1. /\ t \in Seq(StepTypes) /\ Len(t) = Len(s) - 1 /\ Len(s) \in Nat /\ Len(s) > 0
      /\ \A i \in 1..Len(t) : t[i] = s[i + 1]
  BY LenProperties, EmptySeq DEF StepOver
<1>2. 1 \in 1..Len(s) /\ \A i \in 1..Len(t) : i + 1 \in 1..Len(s) /\ 1 < i + 1
  BY <1>1
<1>3. \A i \in 1..Len(t) : t[i] = s[i + 1] /\ s[i + 1].id # s[1].id
  BY <1>1, <1>2
<1>4. \A i, j \in 1..Len(t) : i < j => t[i].id # t[j].id
  BY <1>1, <1>2
<1>5. \A i \in 1..Len(s) : i = 1 \/ (i - 1 \in 1..Len(t) /\ s[i] = t[i - 1])
  BY <1>1
<1>6. \A r : (\E i \in 1..Len(t) : t[i].id = r) <=> (\E i \in 1..Len(s) : s[i].id = r) /\ r # s[1].id
  <2>1. ASSUME NEW r, NEW i \in 1..Len(t), t[i].id = r
        PROVE  (\E k \in 1..Len(s) : s[k].id = r) /\ r # s[1].id
    BY <1>2, <1>3, <2>1
  <2>2. ASSUME NEW r, NEW i \in 1..Len(s), s[i].id = r, r # s[1].id
        PROVE  \E k \in 1..Len(t) : t[k].id = r
    BY <1>5, <2>2
  <2> QED BY <2>1, <2>2
<1>7. \A r : r \in Channel!Owed(Channel!Range(t)) <=> \E i \in 1..Len(t) : t[i].id = r
  BY <1>1, StepShape
<1>8. \A r : r \in Channel!Owed(Channel!Range(s)) <=> \E i \in 1..Len(s) : s[i].id = r
  BY StepShape
<1>9. \A r : r \in Channel!Owed(Channel!Range(t)) <=> r \in Channel!Owed(Channel!Range(s)) /\ r # s[1].id
  BY <1>6, <1>7, <1>8
<1> QED BY <1>2, <1>3, <1>4, <1>9

LEMMA StepRunIs ==
  ASSUME NEW s \in Seq(StepTypes), s # <<>>, NEW t, StepRun(s, t),
         \A i, j \in 1..Len(s) : i < j => s[i].id # s[j].id
  PROVE  /\ \A i, j \in 1..Len(t) : i < j => t[i].id # t[j].id
         /\ \A i \in 1..Len(t) : i \in 1..Len(s) /\ (i # 1 => t[i] = s[i] /\ s[i].id # s[1].id)
         /\ \A r : r \in Channel!Owed(Channel!Range(t)) <=> r \in Channel!Owed(Channel!Range(s))
<1>1. /\ t \in Seq(StepTypes) /\ Len(t) = Len(s) /\ Len(s) \in Nat /\ Len(s) > 0
      /\ t[1].id = s[1].id /\ \A i \in 2..Len(s) : t[i] = s[i]
  BY LenProperties, EmptySeq DEF StepRun
<1>2. 1 \in 1..Len(s) /\ \A i \in 1..Len(t) : i \in 1..Len(s) /\ (i = 1 \/ (i \in 2..Len(s) /\ 1 < i))
  BY <1>1
<1>3. \A i \in 1..Len(t) : t[i].id = s[i].id /\ (i # 1 => t[i] = s[i] /\ s[i].id # s[1].id)
  BY <1>1, <1>2
<1>4. \A i, j \in 1..Len(t) : i < j => t[i].id # t[j].id
  BY <1>1, <1>3
<1>5. \A r : (\E i \in 1..Len(t) : t[i].id = r) <=> (\E i \in 1..Len(s) : s[i].id = r)
  BY <1>1, <1>3
<1>6. \A r : r \in Channel!Owed(Channel!Range(t)) <=> \E i \in 1..Len(t) : t[i].id = r
  BY <1>1, StepShape
<1>7. \A r : r \in Channel!Owed(Channel!Range(s)) <=> \E i \in 1..Len(s) : s[i].id = r
  BY StepShape
<1>8. \A r : r \in Channel!Owed(Channel!Range(t)) <=> r \in Channel!Owed(Channel!Range(s))
  BY <1>5, <1>6, <1>7
<1> QED BY <1>2, <1>3, <1>4, <1>8

\* The three ways a frame ends: nobody counts it, the first step does, or is over by it.
FrameUncounted(ended) ==
  /\ Channel!Answer(ended) /\ UNCHANGED <<steps, frames>>
FrameCounted(ended, f) ==
  /\ steps # <<>> /\ StepRun(steps, steps') /\ Channel!Answer(ended)
  /\ frames' = (IF manual THEN [frames EXCEPT ![f] = @ + 1] ELSE frames)
FrameOver(ended, f) ==
  /\ steps # <<>> /\ StepOver(steps, steps') /\ Channel!Answer(ended \union {f})
  /\ steps[1].remaining = 1
  /\ frames' = (IF manual THEN [frames EXCEPT ![f] = @ + 1] ELSE frames)

LEMMA FrameShape ==
  ASSUME ChannelInv, Channel!Frame
  PROVE  /\ pc = "frame" /\ pc' # "dispatch"
         /\ UNCHANGED <<present, stream, tcp, manual, asked, channelQueue, eof, batch, sawEof, waits, quit_,
                        swallowed>>
         /\ \E ended \in SUBSET Channel!Owed(tasks) :
              /\ \A a \in tasks : a.left = 1 => a.id \in ended
              /\ tasks' = {[a EXCEPT !.left = @ - 1] : a \in {b \in tasks : b.id \notin ended}}
              /\ FrameUncounted(ended) \/ FrameCounted(ended, steps[1].id) \/ FrameOver(ended, steps[1].id)
<1>1. /\ pc = "frame" /\ pc' # "dispatch" /\ (manual => steps # <<>>)
      /\ UNCHANGED <<present, stream, tcp, manual, asked, channelQueue, eof, batch, sawEof, waits, quit_,
                     swallowed>>
  BY DEF Channel!Frame, Channel!FrameAllowed, Channel!reader, Channel!harness
<1>2. PICK ended \in SUBSET Channel!Owed(tasks) :
        /\ Channel!Owed({a \in tasks : a.left = 1 \/ ~playing'}) \subseteq ended
        /\ tasks' = {[a EXCEPT !.left = @ - 1] : a \in {b \in tasks : b.id \notin ended}}
        /\ \/ /\ pc' = "pump"
              /\ LET list == Channel!Spent(steps)
                 IN /\ Channel!Answer(ended \union (IF Channel!Done(list) THEN {Channel!First} ELSE {}))
                    /\ steps' = IF Channel!Done(list) THEN Tail(list) ELSE list
              /\ frames' = IF manual THEN [frames EXCEPT ![Channel!First] = @ + 1] ELSE frames
           \/ Channel!Answer(ended) /\ UNCHANGED <<steps, frames>>
  BY DEF Channel!Frame
<1>3. \A a \in tasks : a.left = 1 => a.id \in ended
  BY <1>2 DEF Channel!Owed
<1>4. CASE Channel!Answer(ended) /\ UNCHANGED <<steps, frames>>
  BY <1>1, <1>2, <1>3, <1>4 DEF FrameUncounted
<1>5. CASE /\ pc' = "pump"
           /\ LET list == Channel!Spent(steps)
              IN /\ Channel!Answer(ended \union (IF Channel!Done(list) THEN {Channel!First} ELSE {}))
                 /\ steps' = IF Channel!Done(list) THEN Tail(list) ELSE list
           /\ frames' = IF manual THEN [frames EXCEPT ![Channel!First] = @ + 1] ELSE frames
  <2>1. PICK l : l = Channel!Spent(steps)
    OBVIOUS
  <2>2. /\ Channel!Answer(ended \union (IF Channel!Done(l) THEN {Channel!First} ELSE {}))
        /\ steps' = IF Channel!Done(l) THEN Tail(l) ELSE l
    BY <1>5, <2>1
  <2>3. CASE steps = <<>>
    <3>1. l = steps /\ ~Channel!Done(l) /\ ~manual
      BY <1>1, <2>1, <2>3 DEF Channel!Spent, Channel!Done
    <3>2. ended \union {} = ended
      OBVIOUS
    <3>3. Channel!Answer(ended \union {}) /\ UNCHANGED <<steps, frames>>
      BY <1>5, <2>2, <3>1
    <3>4. Channel!Answer(ended) /\ UNCHANGED <<steps, frames>>
      BY <3>2, <3>3
    <3> QED BY <1>4, <3>4
  <2>4. CASE steps # <<>>
    <3>1. steps \in Seq(StepTypes)
      BY DEF ChannelInv, ChannelTypes
    <3>2. Channel!First = steps[1].id
      BY <2>4, <3>1, HeadTailProperties DEF Channel!First
    <3>3. /\ Channel!Done(l) <=> steps[1].remaining = 1
          /\ Channel!Done(l) => StepOver(steps, steps')
          /\ ~Channel!Done(l) => StepRun(steps, steps')
      BY <2>1, <2>2, <2>4, <3>1, StepsSpent
    <3>4. CASE Channel!Done(l)
      <4>1. Channel!Answer(ended \union {steps[1].id})
        BY <2>2, <3>2, <3>4
      <4>2. FrameOver(ended, steps[1].id)
        BY <1>5, <2>4, <3>2, <3>3, <3>4, <4>1 DEF FrameOver
      <4> QED BY <1>1, <1>2, <1>3, <4>2
    <3>5. CASE ~Channel!Done(l)
      <4>1. ended \union {} = ended
        OBVIOUS
      <4>2. Channel!Answer(ended \union {})
        BY <2>2, <3>5
      <4>3. Channel!Answer(ended)
        BY <4>1, <4>2
      <4>4. FrameCounted(ended, steps[1].id)
        BY <1>5, <2>4, <3>2, <3>3, <3>5, <4>3 DEF FrameCounted
      <4> QED BY <1>1, <1>2, <1>3, <4>4
    <3> QED BY <3>4, <3>5
  <2> QED BY <2>3, <2>4
<1> QED BY <1>2, <1>4, <1>5

LEMMA FrameAct ==
  ASSUME ChannelInv, Channel!Frame
  PROVE  ChannelInv'
<1>1. /\ pc = "frame" /\ pc' # "dispatch"
      /\ UNCHANGED <<present, stream, tcp, manual, asked, channelQueue, eof, batch, sawEof, waits, quit_,
                     swallowed>>
  BY FrameShape
<1>2. PICK ended \in SUBSET Channel!Owed(tasks) :
        /\ \A a \in tasks : a.left = 1 => a.id \in ended
        /\ tasks' = {[a EXCEPT !.left = @ - 1] : a \in {b \in tasks : b.id \notin ended}}
        /\ FrameUncounted(ended) \/ FrameCounted(ended, steps[1].id) \/ FrameOver(ended, steps[1].id)
  BY FrameShape
<1>3. PICK f : f = steps[1].id
  OBVIOUS
<1>4. /\ tasks' \subseteq [id : R, left : 1..MaxFrames]
      /\ \A r \in R : Acting(r)' <=> Acting(r) /\ r \notin ended
  <2>1. tasks \subseteq [id : R, left : 1..MaxFrames] /\ MaxFrames \in Nat
    BY ConnectedConstants DEF ChannelInv, ChannelTypes, Channel!AutomationBounds
  <2>2. ASSUME NEW a \in tasks, a.id \notin ended
        PROVE  [a EXCEPT !.left = @ - 1] \in [id : R, left : 1..MaxFrames] /\ [a EXCEPT !.left = @ - 1].id = a.id
    <3>1. a \in [id : R, left : 1..MaxFrames] /\ a.left # 1
      BY <1>2, <2>1, <2>2
    <3>2. a.left - 1 \in 1..MaxFrames
      BY <2>1, <3>1
    <3> QED BY <3>1, <3>2
  <2>3. tasks' \subseteq [id : R, left : 1..MaxFrames]
    BY <1>2, <2>2
  <2>4. \A r : r \in Channel!Owed(tasks') <=> \E a \in tasks : a.id \notin ended /\ a.id = r
    <3>1. ASSUME NEW r, r \in Channel!Owed(tasks')
          PROVE  \E a \in tasks : a.id \notin ended /\ a.id = r
      <4>1. PICK b \in tasks' : b.id = r
        BY <3>1 DEF Channel!Owed
      <4>2. PICK a \in tasks : a.id \notin ended /\ b = [a EXCEPT !.left = @ - 1]
        BY <1>2, <4>1
      <4> QED BY <2>2, <4>1, <4>2
    <3>2. ASSUME NEW r, NEW a \in tasks, a.id \notin ended, a.id = r
          PROVE  r \in Channel!Owed(tasks')
      <4>1. PICK b : b = [a EXCEPT !.left = @ - 1]
        OBVIOUS
      <4>2. b \in tasks' /\ b.id = r
        BY <1>2, <2>2, <3>2, <4>1
      <4> QED BY <4>2 DEF Channel!Owed
    <3> QED BY <3>1, <3>2
  <2>5. \A r : Acting(r)' <=> Acting(r) /\ r \notin ended
    BY <2>4 DEF Acting, Channel!Owed
  <2> QED BY <2>3, <2>5
<1>5. \A r \in R : r \in ended => Acting(r) /\ ~Told(r) /\ ~Stepping(r) /\ asked[r].kind = "act"
  BY <1>2 DEF ChannelInv, PlaceInv, AtMostOne, Acting, KindInv
<1>6. /\ steps \in Seq(StepTypes) /\ answers \in [R -> 0..1] /\ frames \in [R \union {0} -> Nat]
      /\ \A i, j \in 1..Len(steps) : i < j => steps[i].id # steps[j].id
  BY DEF ChannelInv, ChannelTypes, PlaceInv
<1>7. steps # <<>> => /\ f \in R /\ Stepping(f) /\ ~Told(f) /\ 1 \in 1..Len(steps)
                      /\ steps[1].remaining \in 1..MaxFrames
                      /\ asked[f].kind = "step" /\ asked[f].frames \in Int /\ f \notin ended
  <2> SUFFICES ASSUME steps # <<>>
               PROVE  /\ f \in R /\ Stepping(f) /\ ~Told(f) /\ 1 \in 1..Len(steps)
                      /\ steps[1].remaining \in 1..MaxFrames
                      /\ asked[f].kind = "step" /\ asked[f].frames \in Int /\ f \notin ended
    OBVIOUS
  <2>1. 1 \in 1..Len(steps)
    BY <1>6, LenProperties, EmptySeq
  <2>2. f \in R /\ Stepping(f) /\ steps[1].remaining \in 1..MaxFrames
    BY <1>3, <2>1, StepsAre DEF ChannelInv
  <2>3. f \in 1..Len(asked)
    BY <2>2 DEF ChannelInv, PlaceInv, Held
  <2>4. asked[f] \in AskedTypes
    BY <2>3, AskedIsSent DEF ChannelInv
  <2>5. asked[f].frames \in Int
    BY <2>4 DEF AskedTypes
  <2>6. ~Told(f) /\ asked[f].kind = "step"
    BY <2>2 DEF ChannelInv, PlaceInv, AtMostOne, KindInv
  <2> QED BY <1>5, <2>1, <2>2, <2>5, <2>6
\* The books of answers and steps, and those of the clock.
<1>8. \E gone \in BOOLEAN :
        /\ gone => steps # <<>>
        /\ answers' \in [R -> 0..1] /\ \A r \in R : (Told(r)' <=> Told(r) \/ r \in ended \/ (gone /\ r = f))
        /\ steps' \in Seq(StepTypes) /\ \A r \in R : (Stepping(r)' <=> Stepping(r) /\ ~(gone /\ r = f))
        /\ \A i, j \in 1..Len(steps') : i < j => steps'[i].id # steps'[j].id
        /\ frames' \in [R \union {0} -> Nat]
        /\ FrameInv'
  <2>0. MaxFrames \in Nat /\ FrameInv /\ 0 \notin R /\ 1..Len(asked) \subseteq R
    BY ConnectedConstants, AskedIsSent DEF ChannelInv, Channel!AutomationBounds, R
  <2>1. CASE FrameUncounted(ended)
    <3>1. Channel!Answer(ended) /\ UNCHANGED <<steps, frames>>
      BY <2>1 DEF FrameUncounted
    <3>2. answers' \in [R -> 0..1] /\ \A r \in R : (Told(r)' <=> Told(r) \/ r \in ended)
      BY <1>5, <1>6, <3>1, AnswersOnce
    <3>3. \A r \in R : (Stepping(r)' <=> Stepping(r))
      BY <3>1 DEF Stepping
    <3>4. \A r \in 1..Len(asked) : asked[r].kind = "step" /\ Told(r)' => Told(r)
      BY <1>5, <2>0, <3>2
    <3>5. FrameInv'
      BY <1>1, <2>0, <3>1, <3>2, <3>3, <3>4 DEF FrameInv
    <3> QED BY <1>6, <3>1, <3>2, <3>3, <3>5
  <2>2. CASE FrameCounted(ended, f)
    <3>1. /\ steps # <<>> /\ StepRun(steps, steps') /\ Channel!Answer(ended)
          /\ frames' = (IF manual THEN [frames EXCEPT ![f] = @ + 1] ELSE frames)
      BY <2>2 DEF FrameCounted
    <3>2. answers' \in [R -> 0..1] /\ \A r \in R : (Told(r)' <=> Told(r) \/ r \in ended)
      BY <1>5, <1>6, <3>1, AnswersOnce
    <3>3. /\ \A i, j \in 1..Len(steps') : i < j => steps'[i].id # steps'[j].id
          /\ \A i \in 1..Len(steps') : /\ i \in 1..Len(steps)
                                       /\ (i # 1 => steps'[i] = steps[i] /\ steps[i].id # f)
          /\ \A r \in R : (Stepping(r)' <=> Stepping(r))
      <4>1. /\ \A i, j \in 1..Len(steps') : i < j => steps'[i].id # steps'[j].id
            /\ \A i \in 1..Len(steps') : /\ i \in 1..Len(steps)
                                         /\ (i # 1 => steps'[i] = steps[i] /\ steps[i].id # steps[1].id)
            /\ \A r : r \in Channel!Owed(Channel!Range(steps'))
                      <=> r \in Channel!Owed(Channel!Range(steps))
        BY <1>3, <1>6, <3>1, StepRunIs
      <4>2. \A r \in R : (Stepping(r)' <=> Stepping(r))
        BY <4>1, Zenon DEF Stepping
      <4> QED BY <1>3, <3>1, <4>1, <4>2
    <3>4. /\ steps' \in Seq(StepTypes) /\ steps'[1].id = f /\ steps'[1].remaining = steps[1].remaining - 1
      BY <1>3, <3>1 DEF StepRun
    <3>5. frames' \in [R \union {0} -> Nat]
      BY <1>6, <1>7, <3>1
    <3>6. FrameInv'
      <4> SUFFICES ASSUME manual PROVE FrameInv'
        BY <1>1 DEF FrameInv
      <4>1. /\ frames'[f] = frames[f] + 1 /\ frames'[0] = frames[0]
            /\ \A r \in R : r # f => frames'[r] = frames[r]
        BY <1>6, <1>7, <2>0, <3>1
      <4>2. frames[f] = asked[f].frames - steps[1].remaining
        BY <1>3, <1>7, <2>0, <3>1 DEF FrameInv
      <4>3. frames'[f] = asked[f].frames - steps'[1].remaining
        BY <1>6, <1>7, <2>0, <3>1, <3>4, <4>1, <4>2
      <4>4. \A i \in 1..Len(steps') :
              frames'[steps'[i].id] = asked'[steps'[i].id].frames - steps'[i].remaining
        <5>1. ASSUME NEW i \in 1..Len(steps'), i # 1
              PROVE  frames'[steps'[i].id] = asked[steps'[i].id].frames - steps'[i].remaining
          <6>1. i \in 1..Len(steps) /\ steps'[i] = steps[i] /\ steps[i].id # f /\ steps[i].id \in R
            BY <3>3, <5>1, StepsAre DEF ChannelInv
          <6> QED BY <2>0, <4>1, <6>1 DEF FrameInv
        <5> QED BY <1>1, <3>4, <4>3, <5>1
      <4>5. ASSUME NEW r \in 1..Len(asked), asked[r].kind = "step", Told(r)'
            PROVE  frames'[r] = asked[r].frames
        <5>1. r \in R /\ Told(r) /\ r # f
          BY <1>5, <1>7, <2>0, <3>1, <3>2, <4>5
        <5> QED BY <2>0, <4>1, <4>5, <5>1 DEF FrameInv
      <4>6. ASSUME NEW r \in R, ~Stepping(r)', ~Told(r)'
            PROVE  frames'[r] = 0
        <5>1. ~Told(r) /\ ~Stepping(r) /\ r # f
          BY <1>7, <3>1, <3>2, <3>3, <4>6
        <5> QED BY <2>0, <4>1, <5>1 DEF FrameInv
      <4> QED BY <1>1, <2>0, <4>1, <4>4, <4>5, <4>6 DEF FrameInv
    <3> QED BY <3>2, <3>3, <3>4, <3>5, <3>6
  <2>3. CASE FrameOver(ended, f)
    <3>1. /\ steps # <<>> /\ StepOver(steps, steps') /\ Channel!Answer(ended \union {f})
          /\ steps[1].remaining = 1
          /\ frames' = (IF manual THEN [frames EXCEPT ![f] = @ + 1] ELSE frames)
      BY <2>3 DEF FrameOver
    <3>2. answers' \in [R -> 0..1] /\ \A r \in R : (Told(r)' <=> Told(r) \/ r \in ended \/ r = f)
      <4>1. \A r \in R : r \in ended \union {f} => ~Told(r)
        BY <1>5, <1>7, <3>1
      <4>2. answers' \in [R -> 0..1] /\ \A r \in R : (Told(r)' <=> Told(r) \/ r \in ended \union {f})
        BY <1>6, <3>1, <4>1, AnswersOnce
      <4> QED BY <4>2
    <3>3. /\ \A i, j \in 1..Len(steps') : i < j => steps'[i].id # steps'[j].id
          /\ \A i \in 1..Len(steps') : i + 1 \in 1..Len(steps) /\ steps'[i] = steps[i + 1] /\ steps[i + 1].id # f
          /\ \A r \in R : (Stepping(r)' <=> Stepping(r) /\ r # f)
      BY <1>3, <1>6, <3>1, StepOverIs DEF Stepping
    <3>4. steps' \in Seq(StepTypes)
      BY <3>1 DEF StepOver
    <3>5. frames' \in [R \union {0} -> Nat]
      BY <1>6, <1>7, <3>1
    <3>6. FrameInv'
      <4> SUFFICES ASSUME manual PROVE FrameInv'
        BY <1>1 DEF FrameInv
      <4>1. /\ frames'[f] = frames[f] + 1 /\ frames'[0] = frames[0]
            /\ \A r \in R : r # f => frames'[r] = frames[r]
        BY <1>6, <1>7, <2>0, <3>1
      <4>2. frames[f] = asked[f].frames - 1
        BY <1>3, <1>7, <2>0, <3>1 DEF FrameInv
      <4>3. frames'[f] = asked[f].frames
        BY <1>7, <3>1, <4>1, <4>2
      <4>4. \A i \in 1..Len(steps') :
              frames'[steps'[i].id] = asked'[steps'[i].id].frames - steps'[i].remaining
        <5>1. ASSUME NEW i \in 1..Len(steps')
              PROVE  frames'[steps'[i].id] = asked[steps'[i].id].frames - steps'[i].remaining
          <6>1. PICK k \in 1..Len(steps) : k = i + 1
            BY <3>3
          <6>2. steps'[i] = steps[k] /\ steps[k].id # f /\ steps[k].id \in R
            BY <3>3, <6>1, StepsAre DEF ChannelInv
          <6> QED BY <2>0, <4>1, <6>2 DEF FrameInv
        <5> QED BY <1>1, <5>1
      <4>5. ASSUME NEW r \in 1..Len(asked), asked[r].kind = "step", Told(r)'
            PROVE  frames'[r] = asked[r].frames
        <5>1. r \in R /\ (r = f \/ Told(r))
          BY <1>5, <2>0, <3>2, <4>5
        <5>2. CASE r # f
          BY <2>0, <4>1, <4>5, <5>1, <5>2 DEF FrameInv
        <5> QED BY <4>3, <5>2
      <4>6. ASSUME NEW r \in R, ~Stepping(r)', ~Told(r)'
            PROVE  frames'[r] = 0
        <5>1. ~Told(r) /\ ~Stepping(r) /\ r # f
          BY <3>2, <3>3, <4>6
        <5> QED BY <2>0, <4>1, <5>1 DEF FrameInv
      <4> QED BY <1>1, <2>0, <4>1, <4>4, <4>5, <4>6 DEF FrameInv
    <3> QED BY <3>1, <3>2, <3>3, <3>4, <3>5, <3>6
  <2> QED BY <1>2, <1>3, <2>1, <2>2, <2>3
<1>9. PICK gone \in BOOLEAN :
        /\ gone => steps # <<>>
        /\ answers' \in [R -> 0..1] /\ \A r \in R : (Told(r)' <=> Told(r) \/ r \in ended \/ (gone /\ r = f))
        /\ steps' \in Seq(StepTypes) /\ \A r \in R : (Stepping(r)' <=> Stepping(r) /\ ~(gone /\ r = f))
        /\ \A i, j \in 1..Len(steps') : i < j => steps'[i].id # steps'[j].id
        /\ frames' \in [R \union {0} -> Nat]
        /\ FrameInv'
  BY <1>8
<1>10. \A r \in R : /\ (Wire(r)' <=> Wire(r)) /\ (Queued(r)' <=> Queued(r)) /\ (Taken(r)' <=> Taken(r))
                    /\ (Waiting(r)' <=> Waiting(r)) /\ (Swallowed(r)' <=> Swallowed(r))
  BY <1>1 DEF Wire, Queued, Taken, Waiting, Swallowed
<1>11. ChannelTypes'
  BY <1>1, <1>4, <1>9 DEF ChannelInv, ChannelTypes
<1>12. PlaceInv'
  <2>1. ASSUME NEW r \in R
        PROVE  (Held(r)' <=> r \in 1..Len(asked')) /\ AtMostOne(r)'
    <3>1. (Held(r) <=> r \in 1..Len(asked)) /\ AtMostOne(r)
      BY DEF ChannelInv, PlaceInv
    <3>2. gone /\ r = f => Stepping(r)
      BY <1>7, <1>9
    <3> QED BY <1>1, <1>4, <1>5, <1>9, <1>10, <3>1, <3>2 DEF Held, AtMostOne
  <2>2. Once(stream') /\ Once(channelQueue') /\ Once(batch')
    BY <1>1 DEF ChannelInv, PlaceInv
  <2> QED BY <1>9, <2>1, <2>2 DEF PlaceInv
<1>13. EndInv'
  <2>1. \A r \in 1..Len(asked) : answers[r] = 1 => answers'[r] = 1
    <3>1. 1..Len(asked) \subseteq R
      BY AskedIsSent DEF ChannelInv
    <3> QED BY <1>9, <3>1 DEF Told
  <2> QED BY <1>1, <2>1 DEF ChannelInv, EndInv
<1>14. KindInv'
  BY <1>1, <1>4, <1>9, <1>10 DEF ChannelInv, KindInv
<1> QED BY <1>9, <1>11, <1>12, <1>13, <1>14 DEF ChannelInv

-----------------------------------------------------------------------------
\* All of it.

LEMMA ChannelInit ==
  ASSUME Channel!Init
  PROVE  ChannelInv
<1>1. /\ stream = <<>> /\ channelQueue = <<>> /\ batch = <<>> /\ steps = <<>> /\ asked = <<>>
      /\ waits = {} /\ tasks = {} /\ swallowed = {} /\ ~eof /\ ~sawEof /\ ~quit_ /\ pc = "pump"
      /\ answers = [r \in R |-> 0] /\ frames = [r \in R \union {0} |-> 0]
  BY DEF Channel!Init, Channel!Requests, R
<1>2. /\ Len(steps) = 0 /\ Len(asked) = 0 /\ Len(stream) = 0 /\ Len(channelQueue) = 0 /\ Len(batch) = 0
      /\ Channel!Range(stream) = {} /\ Channel!Range(channelQueue) = {} /\ Channel!Range(batch) = {}
      /\ Channel!Range(steps) = {}
  BY <1>1, EmptyOnce
<1>3. \A r \in R : ~Wire(r) /\ ~Queued(r) /\ ~Taken(r) /\ ~Waiting(r) /\ ~Stepping(r) /\ ~Acting(r)
                   /\ ~Swallowed(r) /\ ~Told(r)
  BY <1>1, <1>2 DEF Wire, Queued, Taken, Waiting, Stepping, Acting, Swallowed, Told, Channel!Owed
<1>4. ChannelTypes
  <2>1. MaxRequests \in Nat
    BY ConnectedConstants DEF Channel!AutomationBounds
  <2>2. /\ stream \in Seq(1..(MaxRequests + 1)) /\ channelQueue \in Seq(0..MaxRequests)
        /\ batch \in Seq(0..MaxRequests) /\ asked \in Seq(AskedTypes) /\ steps \in Seq(StepTypes)
    BY <1>1
  <2>3. answers \in [R -> 0..1] /\ frames \in [R \union {0} -> Nat]
    BY <1>1
  <2> QED BY <1>1, <1>2, <2>1, <2>2, <2>3 DEF ChannelTypes
<1>5. PlaceInv
  <2>1. \A r \in R : (Held(r) <=> r \in 1..Len(asked)) /\ AtMostOne(r)
    BY <1>2, <1>3 DEF Held, AtMostOne
  <2>2. Once(stream) /\ Once(channelQueue) /\ Once(batch)
    BY <1>1, EmptyOnce
  <2> QED BY <1>2, <2>1, <2>2 DEF PlaceInv
<1>6. EndInv
  BY <1>1 DEF EndInv
<1>7. KindInv
  BY <1>3 DEF KindInv
<1>8. FrameInv
  BY <1>1, <1>2 DEF FrameInv
<1> QED BY <1>4, <1>5, <1>6, <1>7, <1>8 DEF ChannelInv

LEMMA ChannelKeeps ==
  ASSUME ChannelInv, UNCHANGED channelVars
  PROVE  ChannelInv'
<1>1. UNCHANGED <<present, stream, tcp, manual, asked, channelQueue, eof, pc, batch, sawEof, waits, steps,
                  tasks, quit_, answers, swallowed, frames>>
  BY DEF channelVars
<1>2. \A r \in R : (Wire(r)' <=> Wire(r))
  BY <1>1 DEF Wire
<1>3. \A r \in R : /\ (Queued(r)' <=> Queued(r)) /\ (Taken(r)' <=> Taken(r))
                   /\ (Waiting(r)' <=> Waiting(r)) /\ (Stepping(r)' <=> Stepping(r))
                   /\ (Acting(r)' <=> Acting(r)) /\ (Swallowed(r)' <=> Swallowed(r))
                   /\ (Told(r)' <=> Told(r))
  BY <1>1, SamePlaces
<1>4. ChannelTypes'
  BY <1>1 DEF ChannelInv, ChannelTypes
<1>5. PlaceInv'
  <2>1. \A r \in R : (Held(r)' <=> r \in 1..Len(asked')) /\ AtMostOne(r)'
    BY <1>1, <1>2, <1>3 DEF ChannelInv, PlaceInv, Held, AtMostOne
  <2> QED BY <1>1, <2>1 DEF ChannelInv, PlaceInv
<1>6. EndInv'
  BY <1>1 DEF ChannelInv, EndInv
<1>7. KindInv' /\ FrameInv'
  BY <1>1, <1>3, KeepsBooks
<1> QED BY <1>4, <1>5, <1>6, <1>7 DEF ChannelInv

LEMMA ChannelStep ==
  ASSUME ChannelInv, Channel!Next
  PROVE  ChannelInv'
<1>1. CASE \E kind \in Channel!Kinds, n \in 1..MaxFrames : Channel!Ask(kind, n)
  BY <1>1, AskAct
<1>2. CASE Channel!Leave
  BY <1>2, LeaveAct
<1>3. CASE Channel!Accept
  BY <1>3, AcceptAct
<1>4. CASE Channel!Read
  BY <1>4, ReadAct
<1>5. CASE Channel!EndOfInput
  BY <1>5, EndOfInputAct
<1>6. CASE Channel!Expire
  BY <1>6, ExpireAct
<1>7. CASE Channel!Loop
  <2>1. CASE Channel!Pump
    BY <2>1, PumpAct
  <2>2. CASE Channel!Dispatch
    BY <2>2, DispatchAct
  <2>3. CASE Channel!EvaluateWaits
    BY <2>3, EvaluateWaitsAct
  <2>4. CASE Channel!NoFrame
    BY <2>4, NoFrameAct
  <2>5. CASE Channel!Frame
    BY <2>5, FrameAct
  <2> QED BY <1>7, <2>1, <2>2, <2>3, <2>4, <2>5 DEF Channel!Loop
<1> QED BY <1>1, <1>2, <1>3, <1>4, <1>5, <1>6, <1>7 DEF Channel!Next

\* The invariant's places are those that NoRequestLost names.
LEMMA PlacesOnce ==
  ASSUME ChannelTypes, PlaceInv, NEW r \in Channel!Sent
  PROVE  \E p \in DOMAIN Channel!Where : \A q \in DOMAIN Channel!Where : r \in Channel!Where[q] <=> p = q
<1>1. r \in R /\ r \in 1..Len(asked)
  BY AskedIsSent
<1>2. Held(r) /\ AtMostOne(r)
  BY <1>1 DEF PlaceInv
<1>3. DOMAIN Channel!Where = {"wire", "queue", "batch", "wait", "step", "act", "swallowed", "answered"}
  BY DEF Channel!Where
<1>4. /\ (r \in Channel!Where["wire"] <=> Wire(r)) /\ (r \in Channel!Where["queue"] <=> Queued(r))
      /\ (r \in Channel!Where["batch"] <=> Taken(r)) /\ (r \in Channel!Where["wait"] <=> Waiting(r))
      /\ (r \in Channel!Where["step"] <=> Stepping(r)) /\ (r \in Channel!Where["act"] <=> Acting(r))
      /\ (r \in Channel!Where["swallowed"] <=> Swallowed(r)) /\ (r \in Channel!Where["answered"] <=> Told(r))
  <2>1. /\ Channel!Where["wire"] = Channel!Range(stream) /\ Channel!Where["queue"] = Channel!Range(channelQueue)
        /\ Channel!Where["batch"] = Channel!Range(batch) /\ Channel!Where["wait"] = Channel!Owed(waits)
        /\ Channel!Where["step"] = Channel!Owed(Channel!Range(steps)) /\ Channel!Where["act"] = Channel!Owed(tasks)
        /\ Channel!Where["swallowed"] = swallowed
        /\ Channel!Where["answered"] = {a \in Channel!Sent : answers[a] = 1}
    BY DEF Channel!Where
  <2> QED BY <2>1 DEF Wire, Queued, Taken, Waiting, Stepping, Acting, Swallowed, Told
<1> HIDE DEF Channel!Where
<1>5. ASSUME NEW p \in DOMAIN Channel!Where, r \in Channel!Where[p]
      PROVE  \A q \in DOMAIN Channel!Where : r \in Channel!Where[q] <=> p = q
  BY <1>2, <1>3, <1>4, <1>5 DEF AtMostOne
<1>6. \E p \in DOMAIN Channel!Where : r \in Channel!Where[p]
  BY <1>2, <1>3, <1>4 DEF Held
<1> QED BY <1>5, <1>6

LEMMA ChannelIsExact ==
  ASSUME ChannelInv
  PROVE  Channel!NoRequestLost /\ Channel!StepsAreExact
<1>1. \A r \in Channel!Sent :
        \E p \in DOMAIN Channel!Where : \A q \in DOMAIN Channel!Where : r \in Channel!Where[q] <=> p = q
  BY PlacesOnce DEF ChannelInv
<1>2. 1..Len(asked) = Channel!Sent /\ 1..Len(asked) \subseteq R
  BY AskedIsSent DEF ChannelInv
<1>3. Channel!NoRequestLost
  BY <1>1, <1>2 DEF ChannelInv, EndInv, Channel!NoRequestLost
<1>4. Channel!StepsAreExact
  <2>1. DOMAIN steps = 1..Len(steps)
    BY StepsAre DEF ChannelInv
  <2> QED BY <1>2, <2>1 DEF ChannelInv, FrameInv, Told, Channel!StepsAreExact
<1> QED BY <1>3, <1>4

\* Every request of a harness is at every moment in exactly one place, until it is answered once,
\* and a manual clock runs just the frames that were asked for (Host::pump, Host::frame_done):
\* for any number of harnesses, requests and frames.
THEOREM RequestsStayExact == RunSpec => []RequestsAreExact
<1>1. RunInit => ChannelInv
  BY ChannelInit DEF RunInit
<1>2. ChannelInv /\ [RunNext]_allVars => ChannelInv'
  <2> SUFFICES ASSUME ChannelInv, [RunNext]_allVars PROVE ChannelInv'
    OBVIOUS
  <2>1. Channel!Next \/ UNCHANGED channelVars
    BY DEF RunNext, Only, allVars
  <2> QED BY <2>1, ChannelStep, ChannelKeeps
<1>3. ChannelInv => RequestsAreExact
  BY ChannelIsExact DEF RequestsAreExact
<1> HIDE DEF ChannelInv
<1> QED BY <1>1, <1>2, <1>3, PTL DEF RunSpec

-----------------------------------------------------------------------------
(* The transports: what an endpoint is handed. *)

Con == [kind |-> "connected", stream |-> "none", number |-> 0]
Dis == [kind |-> "disconnected", stream |-> "none", number |-> 0]
Msg(s, n) == [kind |-> "message", stream |-> s, number |-> n]
Lanes == {"bulk", "feedback", "datagrams"}
Events == [kind : {"connected", "disconnected", "message"}, stream : Lanes \cup {"none"},
           number : Int]

Arrived(w, s, n) ==
  \E i \in DOMAIN w : w[i].kind = "message" /\ w[i].stream = s /\ w[i].number = n
Begun(w) == w # <<>> /\ w[1].kind = "connected"
HasEnd(w) == \E i \in DOMAIN w : w[i].kind = "disconnected"

HasStart(w) == \E i \in DOMAIN w : w[i].kind = "connected"

\* Fits of both transports, which differ in their streams and in whether they are prompt.
FitsIn(prompt, rel, lanes, w, most) ==
  /\ \A i \in DOMAIN w :
       /\ w[i].kind = "connected" => \A j \in 1 .. i - 1 : w[j].kind = "message"
       /\ w[i].kind = "disconnected" => i = Len(w)
       /\ prompt /\ w[i].kind = "message" => w[1].kind = "connected"
       /\ \A s \in lanes : w[i].kind = "message" /\ w[i].stream = s => w[i].number \in 1 .. most[s]
  /\ \A s \in rel : \A i \in DOMAIN w : w[i].kind = "message" /\ w[i].stream = s =>
       /\ \A n \in 1 .. w[i].number - 1 :
            \E j \in 1 .. i - 1 : w[j].kind = "message" /\ w[j].stream = s /\ w[j].number = n
       /\ \A j \in 1 .. i - 1 : w[j].kind = "message" /\ w[j].stream = s
                                  => w[j].number < w[i].number

-----------------------------------------------------------------------------
(* GnsTransport *)

GH == Gns!Handles
GS == Gns!L!Streams
Tellings == {<<>>, <<Con>>, <<Dis>>, <<Con, Dis>>}
States == {"none", "connecting", "connected", "closedByPeer", "problem", "gone"}
Calls(h, state) == [of |-> h, state |-> state] \in callbacks

GnsTypes ==
  /\ alive \subseteq Gns!Ends /\ gnsListening \in BOOLEAN
  /\ owned \in [Gns!Ends -> SUBSET GH] /\ owner \in [GH -> Gns!Ends \cup {None}]
  /\ gnsPending \in [GH -> Tellings]
  /\ polling \subseteq alive
  /\ lib \in [GH -> States]
  /\ wire \in [GH -> [GS -> SUBSET Nat]]
  /\ gnsSent \in [GH -> [GS -> Nat]] /\ gnsGot \in [GH -> Seq(Events)]

Registered ==
  /\ \A e \in Gns!Ends : \A h \in owned[e] : Gns!EndOf(h) = e
  /\ \A h \in GH : owner[h] \in {None, Gns!EndOf(h)}
  /\ \A h \in GH : (owner[h] # None) <=> (h \in owned[Gns!EndOf(h)])
  /\ \A e \in Gns!Ends : e \notin alive => owned[e] = {}
  /\ gnsListening => Server \in alive

\* What waits for a poll goes with what was handed out before.
PendingFits ==
  \A h \in GH :
    /\ HasStart(gnsPending[h]) => ~HasStart(gnsGot[h])
    /\ gnsPending[h] # <<>> => ~HasEnd(gnsGot[h])
    /\ owner[h] # None => ~HasEnd(gnsGot[h]) /\ ~HasEnd(gnsPending[h])

\* The library's states, and the callbacks that wait.
LibFits ==
  \A h \in GH :
    /\ lib[h] \in {"none", "connecting"} =>
         /\ gnsGot[h] = <<>> /\ gnsPending[h] = <<>>
         /\ ~Calls(h, "connected") /\ ~Calls(h, "closedByPeer") /\ ~Calls(h, "problem")
    /\ Calls(h, "connecting") => lib[h] = "connecting" /\ h[2] = "server" /\ owner[h] = None
    /\ owner[h] # None =>
         /\ lib[h] \notin {"none", "gone"}
         /\ Calls(h, "connected") => ~HasStart(gnsGot[h]) /\ ~HasStart(gnsPending[h])

\* What was sent has arrived or is on its way, on a reliable stream what is later after it.
Travels ==
  \A h \in GH : \A s \in GS :
    /\ wire[h][s] \subseteq 1 .. gnsSent[Gns!Peer(h)][s]
    /\ s \in Gns!Reliable =>
         /\ \A n \in 1 .. gnsSent[Gns!Peer(h)][s] : n \in wire[h][s] \/ Arrived(gnsGot[h], s, n)
         /\ \A n \in wire[h][s] : \A m \in Nat : Arrived(gnsGot[h], s, m) => m < n

GnsFits == \A h \in GH : FitsIn(FALSE, Gns!Reliable, GS, gnsGot[h], gnsSent[Gns!Peer(h)])

GnsInv == GnsTypes /\ Registered /\ PendingFits /\ LibFits /\ Travels /\ GnsFits

-----------------------------------------------------------------------------
(* Loopback *)

LH == Loop!Handles
LS == Loop!L!Streams
Queue(h) == IF h[2] = "server" THEN toServer[h[1]] ELSE toClient[h[1]]
Whole(h) == got[h] \o Queue(h)

LoopTypes ==
  /\ links \subseteq Guests /\ closed \subseteq links
  /\ toServer \in [Guests -> Seq(Events)] /\ toClient \in [Guests -> Seq(Events)]
  /\ sent \in [LH -> [LS -> Nat]] /\ got \in [LH -> Seq(Events)]

\* What an end was handed and will be.
LoopFitsAt(h) ==
  /\ FitsIn(TRUE, LS, LS, Whole(h), sent[Loop!Peer(h)])
  /\ h[1] \notin links => Whole(h) = <<>> /\ \A s \in LS : sent[h][s] = 0
  /\ h[1] \in links => Begun(Whole(h))
  /\ h[1] \notin closed => ~HasEnd(Whole(h))
  /\ \A s \in LS : \A n \in 1 .. sent[Loop!Peer(h)][s] : Arrived(Whole(h), s, n)
LoopFits == \A h \in LH : LoopFitsAt(h)

LoopInv == LoopTypes /\ LoopFits

-----------------------------------------------------------------------------
(* Sequences of events. *)

LEMMA EventKinds ==
  /\ Con \in Events /\ Dis \in Events
  /\ Con.kind = "connected" /\ Dis.kind = "disconnected"
  /\ \A s \in Lanes, n \in Nat : /\ Msg(s, n) \in Events
                                 /\ Msg(s, n).kind = "message"
                                 /\ Msg(s, n).stream = s /\ Msg(s, n).number = n
<1>1. Con \in Events
  BY DEF Con, Events
<1>2. Dis \in Events
  BY DEF Dis, Events
<1>3. ASSUME NEW s \in Lanes, NEW n \in Nat PROVE Msg(s, n) \in Events
  BY DEF Msg, Events
<1> QED BY <1>1, <1>2, <1>3 DEF Con, Dis, Msg

LEMMA OneMore ==
  ASSUME NEW w \in Seq(Events), NEW e \in Events, NEW t, t = Append(w, e)
  PROVE  /\ t \in Seq(Events) /\ t # <<>>
         /\ Len(w) \in Nat /\ Len(t) = Len(w) + 1
         /\ DOMAIN w = 1 .. Len(w) /\ DOMAIN t = 1 .. Len(w) + 1
         /\ \A i \in 1 .. Len(w) : t[i] = w[i]
         /\ t[Len(w) + 1] = e
         /\ \A i \in 1 .. Len(w) + 1 : i \in 1 .. Len(w) \/ i = Len(w) + 1
         /\ (Len(w) = 0 <=> w = <<>>)
<1>1. /\ t \in Seq(Events) /\ Len(w) \in Nat /\ Len(t) = Len(w) + 1
      /\ \A i \in 1 .. Len(w) : t[i] = w[i]
      /\ t[Len(w) + 1] = e
  BY AppendProperties
<1>2. DOMAIN w = 1 .. Len(w) /\ DOMAIN t = 1 .. Len(w) + 1
  BY <1>1, LenProperties
<1>3. t # <<>> /\ (Len(w) = 0 <=> w = <<>>)
  BY <1>1, EmptySeq
<1> QED BY <1>1, <1>2, <1>3

\* What one more event does to the questions that the invariants ask.
LEMMA OneMoreIs ==
  ASSUME NEW w \in Seq(Events), NEW e \in Events, NEW t, t = Append(w, e)
  PROVE  /\ \A s, n : Arrived(t, s, n) <=> \/ Arrived(w, s, n)
                                           \/ e.kind = "message" /\ e.stream = s /\ e.number = n
         /\ HasEnd(t) <=> HasEnd(w) \/ e.kind = "disconnected"
         /\ HasStart(t) <=> HasStart(w) \/ e.kind = "connected"
         /\ w # <<>> => (Begun(t) <=> Begun(w))
         /\ w = <<>> => (Begun(t) <=> e.kind = "connected")
         /\ Gns!L!Continues(t, w)
<1>1. /\ Len(w) \in Nat /\ DOMAIN w = 1 .. Len(w) /\ DOMAIN t = 1 .. Len(w) + 1 /\ t # <<>>
      /\ \A i \in 1 .. Len(w) : t[i] = w[i]
      /\ t[Len(w) + 1] = e
      /\ \A i \in 1 .. Len(w) + 1 : i \in 1 .. Len(w) \/ i = Len(w) + 1
      /\ (Len(w) = 0 <=> w = <<>>)
  BY OneMore
<1>2. Len(w) + 1 \in 1 .. Len(w) + 1 /\ \A i \in 1 .. Len(w) : i \in 1 .. Len(w) + 1
  BY <1>1
<1>3. \A s, n : Arrived(t, s, n) <=> \/ Arrived(w, s, n)
                                     \/ e.kind = "message" /\ e.stream = s /\ e.number = n
  BY <1>1, <1>2 DEF Arrived
<1>4. /\ HasEnd(t) <=> HasEnd(w) \/ e.kind = "disconnected"
      /\ HasStart(t) <=> HasStart(w) \/ e.kind = "connected"
  BY <1>1, <1>2 DEF HasEnd, HasStart
<1>5. /\ w # <<>> => (Begun(t) <=> Begun(w))
      /\ w = <<>> => (Begun(t) <=> e.kind = "connected")
  <2>1. w # <<>> => 1 \in 1 .. Len(w)
    BY <1>1
  <2>2. w = <<>> => t[1] = e
    BY <1>1
  <2> QED BY <1>1, <2>1, <2>2 DEF Begun
<1>6. Gns!L!Continues(t, w)
  BY <1>1, <1>2 DEF Gns!L!Continues
<1> QED BY <1>3, <1>4, <1>5, <1>6

\* More may be sent.
LEMMA FitsLater ==
  ASSUME NEW prompt, NEW rel, NEW lanes, NEW w, NEW most \in [lanes -> Nat], NEW more \in [lanes -> Nat],
         FitsIn(prompt, rel, lanes, w, most), \A s \in lanes : most[s] <= more[s]
  PROVE  FitsIn(prompt, rel, lanes, w, more)
<1>1. \A s \in lanes : \A n \in 1 .. most[s] : n \in 1 .. more[s]
  OBVIOUS
<1> QED BY <1>1 DEF FitsIn

LEMMA FitsNothing ==
  ASSUME NEW prompt, NEW rel, NEW lanes, NEW most
  PROVE  FitsIn(prompt, rel, lanes, <<>>, most) /\ ~HasEnd(<<>>) /\ ~HasStart(<<>>) /\ ~Begun(<<>>)
         /\ \A s, n : ~Arrived(<<>>, s, n)
<1>1. DOMAIN <<>> = {}
  OBVIOUS
<1> QED BY <1>1 DEF FitsIn, HasEnd, HasStart, Begun, Arrived

LEMMA FitsConnected ==
  ASSUME NEW prompt, NEW rel, NEW lanes, NEW most, NEW t, t = <<Con>>
  PROVE  /\ FitsIn(prompt, rel, lanes, t, most) /\ ~HasEnd(t) /\ Begun(t) /\ t \in Seq(Events)
         /\ \A s, n : ~Arrived(t, s, n)
<1>1. DOMAIN t = {1} /\ Len(t) = 1 /\ t[1] = Con /\ t # <<>> /\ 1 .. 1 - 1 = {}
  OBVIOUS
<1>2. t \in Seq(Events)
  BY EventKinds
<1> QED BY <1>1, <1>2, EventKinds DEF FitsIn, HasEnd, Begun, Arrived

\* The connection is there; its messages may have come before.
LEMMA FitsStart ==
  ASSUME NEW rel, NEW lanes, NEW w \in Seq(Events), NEW most, FitsIn(FALSE, rel, lanes, w, most),
         ~HasStart(w), ~HasEnd(w), NEW t, t = Append(w, Con)
  PROVE  FitsIn(FALSE, rel, lanes, t, most) /\ t \in Seq(Events) /\ ~HasEnd(t)
<1>1. /\ t \in Seq(Events) /\ t # <<>>
      /\ Len(w) \in Nat /\ Len(t) = Len(w) + 1
      /\ DOMAIN w = 1 .. Len(w) /\ DOMAIN t = 1 .. Len(w) + 1
      /\ \A i \in 1 .. Len(w) : t[i] = w[i]
      /\ t[Len(w) + 1] = Con
      /\ \A i \in 1 .. Len(w) + 1 : i \in 1 .. Len(w) \/ i = Len(w) + 1
  BY OneMore, EventKinds
<1>2. \A i \in 1 .. Len(w) : w[i].kind = "message"
  <2>1. \A i \in 1 .. Len(w) : w[i] \in Events
    BY <1>1, ElementOfSeq
  <2> QED BY <1>1, <2>1 DEF HasStart, HasEnd, Events
<1>3. ~HasEnd(t)
  BY <1>1, <1>2, EventKinds DEF HasEnd
<1>4. \A i \in 1 .. Len(w) + 1 :
        /\ t[i].kind = "connected" => \A j \in 1 .. i - 1 : t[j].kind = "message"
        /\ t[i].kind = "disconnected" => i = Len(t)
        /\ \A s \in lanes : t[i].kind = "message" /\ t[i].stream = s => t[i].number \in 1 .. most[s]
  <2>1. \A i \in 1 .. Len(w) + 1 : \A j \in 1 .. i - 1 : j \in 1 .. Len(w)
    BY <1>1
  <2>2. \A i \in 1 .. Len(w) + 1 : \A j \in 1 .. i - 1 : t[j].kind = "message"
    BY <1>1, <1>2, <2>1
  <2> QED BY <1>1, <1>3, <2>2, EventKinds DEF FitsIn, HasEnd
<1>5. ASSUME NEW s \in rel, NEW i \in 1 .. Len(w) + 1, t[i].kind = "message" /\ t[i].stream = s
      PROVE  /\ \A n \in 1 .. t[i].number - 1 :
                  \E j \in 1 .. i - 1 : t[j].kind = "message" /\ t[j].stream = s /\ t[j].number = n
             /\ \A j \in 1 .. i - 1 : t[j].kind = "message" /\ t[j].stream = s
                                        => t[j].number < t[i].number
  <2>1. i \in 1 .. Len(w) /\ t[i] = w[i]
    BY <1>1, <1>5, EventKinds
  <2>2. \A j \in 1 .. i - 1 : j \in 1 .. Len(w) /\ t[j] = w[j]
    BY <1>1, <2>1
  <2>3. /\ \A n \in 1 .. w[i].number - 1 :
             \E j \in 1 .. i - 1 : w[j].kind = "message" /\ w[j].stream = s /\ w[j].number = n
        /\ \A j \in 1 .. i - 1 : w[j].kind = "message" /\ w[j].stream = s
                                   => w[j].number < w[i].number
    BY SMTT(30), <1>1, <1>5, <2>1 DEF FitsIn
  <2> QED BY <2>1, <2>2, <2>3
<1> QED BY <1>1, <1>3, <1>4, <1>5 DEF FitsIn

\* The end comes after all that came before.
LEMMA FitsEnd ==
  ASSUME NEW prompt, NEW rel, NEW lanes, NEW w \in Seq(Events), NEW most, FitsIn(prompt, rel, lanes, w, most),
         ~HasEnd(w), NEW t, t = Append(w, Dis)
  PROVE  FitsIn(prompt, rel, lanes, t, most) /\ t \in Seq(Events) /\ HasEnd(t) /\ (Begun(t) <=> Begun(w))
         /\ \A s, n : Arrived(t, s, n) <=> Arrived(w, s, n)
<1>1. /\ t \in Seq(Events) /\ t # <<>>
      /\ Len(w) \in Nat /\ Len(t) = Len(w) + 1
      /\ DOMAIN w = 1 .. Len(w) /\ DOMAIN t = 1 .. Len(w) + 1
      /\ \A i \in 1 .. Len(w) : t[i] = w[i]
      /\ t[Len(w) + 1] = Dis
      /\ \A i \in 1 .. Len(w) + 1 : i \in 1 .. Len(w) \/ i = Len(w) + 1
  BY OneMore, EventKinds
<1>2. /\ HasEnd(t) /\ (Begun(t) <=> Begun(w))
      /\ \A s, n : Arrived(t, s, n) <=> Arrived(w, s, n)
  <2>1. w = <<>> => ~Begun(w)
    BY DEF Begun
  <2> QED BY <2>1, OneMoreIs, EventKinds
<1>3. \A i \in 1 .. Len(w) : w[i].kind # "disconnected" /\ 1 \in 1 .. Len(w)
  BY <1>1 DEF HasEnd
<1>4. \A i \in 1 .. Len(w) + 1 :
        /\ t[i].kind = "connected" => \A j \in 1 .. i - 1 : t[j].kind = "message"
        /\ t[i].kind = "disconnected" => i = Len(t)
        /\ prompt /\ t[i].kind = "message" => t[1].kind = "connected"
        /\ \A s \in lanes : t[i].kind = "message" /\ t[i].stream = s => t[i].number \in 1 .. most[s]
  <2>1. \A i \in 1 .. Len(w) : \A j \in 1 .. i - 1 : j \in 1 .. Len(w) /\ t[j] = w[j]
    BY <1>1
  <2>2. ASSUME NEW i \in 1 .. Len(w) + 1, t[i].kind = "connected", NEW j \in 1 .. i - 1
        PROVE  t[j].kind = "message"
    <3>1. i \in 1 .. Len(w) /\ t[i] = w[i]
      BY <1>1, <2>2, EventKinds
    <3> QED BY <1>1, <2>1, <2>2, <3>1 DEF FitsIn
  <2>3. \A i \in 1 .. Len(w) + 1 :
          /\ t[i].kind = "disconnected" => i = Len(t)
          /\ prompt /\ t[i].kind = "message" => t[1].kind = "connected"
          /\ \A s \in lanes : t[i].kind = "message" /\ t[i].stream = s => t[i].number \in 1 .. most[s]
    BY <1>1, <1>3, EventKinds DEF FitsIn
  <2> QED BY <2>2, <2>3
<1>5. ASSUME NEW s \in rel, NEW i \in 1 .. Len(w) + 1, t[i].kind = "message" /\ t[i].stream = s
      PROVE  /\ \A n \in 1 .. t[i].number - 1 :
                  \E j \in 1 .. i - 1 : t[j].kind = "message" /\ t[j].stream = s /\ t[j].number = n
             /\ \A j \in 1 .. i - 1 : t[j].kind = "message" /\ t[j].stream = s
                                        => t[j].number < t[i].number
  <2>1. i \in 1 .. Len(w) /\ t[i] = w[i]
    BY <1>1, <1>5, EventKinds
  <2>2. \A j \in 1 .. i - 1 : j \in 1 .. Len(w) /\ t[j] = w[j]
    BY <1>1, <2>1
  <2>3. /\ \A n \in 1 .. w[i].number - 1 :
             \E j \in 1 .. i - 1 : w[j].kind = "message" /\ w[j].stream = s /\ w[j].number = n
        /\ \A j \in 1 .. i - 1 : w[j].kind = "message" /\ w[j].stream = s
                                   => w[j].number < w[i].number
    BY <1>1, <1>5, <2>1 DEF FitsIn
  <2> QED BY SMTT(30), <2>1, <2>2, <2>3
<1>6. FitsIn(prompt, rel, lanes, t, most)
  BY <1>1, <1>4, <1>5 DEF FitsIn
<1> QED BY <1>1, <1>2, <1>6

\* A message comes before the connection ends, and where the transport is prompt once it is there;
\* on a reliable stream, after all that were sent before it.
LEMMA FitsMessage ==
  ASSUME NEW prompt, NEW rel, NEW lanes, NEW w \in Seq(Events), NEW most, FitsIn(prompt, rel, lanes, w, most),
         prompt => Begun(w), ~HasEnd(w), NEW s \in lanes, lanes \subseteq Lanes,
         NEW n \in Nat, n \in 1 .. most[s],
         s \in rel => /\ \A m \in 1 .. n - 1 : Arrived(w, s, m)
                      /\ \A m \in Int : Arrived(w, s, m) => m < n,
         NEW t, t = Append(w, Msg(s, n))
  PROVE  FitsIn(prompt, rel, lanes, t, most)
<1> DEFINE e == Msg(s, n)
<1>0. s \in Lanes /\ e \in Events /\ e.kind = "message" /\ e.stream = s /\ e.number = n
  BY EventKinds
<1> HIDE DEF e
<1>1. /\ t \in Seq(Events) /\ t # <<>>
      /\ Len(w) \in Nat /\ Len(t) = Len(w) + 1
      /\ DOMAIN w = 1 .. Len(w) /\ DOMAIN t = 1 .. Len(w) + 1
      /\ \A i \in 1 .. Len(w) : t[i] = w[i]
      /\ t[Len(w) + 1] = e
      /\ \A i \in 1 .. Len(w) + 1 : i \in 1 .. Len(w) \/ i = Len(w) + 1
      /\ (Len(w) = 0 <=> w = <<>>)
  BY <1>0, OneMore DEF e
<1>3. /\ \A i \in 1 .. Len(w) : w[i].kind # "disconnected"
      /\ prompt => 1 \in 1 .. Len(w) /\ w[1].kind = "connected"
      /\ \A i \in 1 .. Len(w) : 1 \in 1 .. Len(w) /\ \A j \in 1 .. i - 1 : j \in 1 .. Len(w) /\ t[j] = w[j]
  BY <1>1 DEF HasEnd, Begun
<1>4. ASSUME NEW i \in 1 .. Len(w) + 1
      PROVE  /\ t[i].kind = "connected" => \A j \in 1 .. i - 1 : t[j].kind = "message"
             /\ t[i].kind = "disconnected" => i = Len(t)
             /\ prompt /\ t[i].kind = "message" => t[1].kind = "connected"
             /\ \A r \in lanes : t[i].kind = "message" /\ t[i].stream = r => t[i].number \in 1 .. most[r]
  <2>1. CASE i \in 1 .. Len(w)
    BY SMTT(30), <1>1, <1>3, <2>1 DEF FitsIn
  <2>2. CASE i = Len(w) + 1
    BY <1>0, <1>1, <1>3, <2>2
  <2> QED BY <1>1, <2>1, <2>2
<1>5. ASSUME NEW r \in rel, NEW i \in 1 .. Len(w) + 1, t[i].kind = "message" /\ t[i].stream = r
      PROVE  /\ \A m \in 1 .. t[i].number - 1 :
                  \E j \in 1 .. i - 1 : t[j].kind = "message" /\ t[j].stream = r /\ t[j].number = m
             /\ \A j \in 1 .. i - 1 : t[j].kind = "message" /\ t[j].stream = r
                                        => t[j].number < t[i].number
  <2>1. CASE i \in 1 .. Len(w)
    <3>1. t[i] = w[i] /\ \A j \in 1 .. i - 1 : j \in 1 .. Len(w) /\ t[j] = w[j]
      BY <1>1, <2>1
    <3>2. /\ \A m \in 1 .. w[i].number - 1 :
               \E j \in 1 .. i - 1 : w[j].kind = "message" /\ w[j].stream = r /\ w[j].number = m
          /\ \A j \in 1 .. i - 1 : w[j].kind = "message" /\ w[j].stream = r
                                     => w[j].number < w[i].number
      BY <1>1, <1>5, <2>1, <3>1 DEF FitsIn
    <3> QED BY <3>1, <3>2
  <2>2. CASE i = Len(w) + 1
    <3>1. r = s /\ t[i].number = n /\ i - 1 = Len(w)
      BY <1>0, <1>1, <1>5, <2>2
    <3>2. \A m \in 1 .. n - 1 :
            \E j \in 1 .. Len(w) : w[j].kind = "message" /\ w[j].stream = s /\ w[j].number = m
      BY <1>1, <3>1 DEF Arrived
    <3>3. ASSUME NEW j \in 1 .. Len(w), w[j].kind = "message" /\ w[j].stream = s
          PROVE  w[j].number < n
      <4>1. w[j].number \in Int
        <5>1. w[j] \in Events
          BY <1>1, ElementOfSeq
        <5> QED BY <5>1 DEF Events
      <4> QED BY <1>1, <3>1, <3>3, <4>1 DEF Arrived
    <3>4. /\ 1 .. i - 1 = 1 .. Len(w) /\ 1 .. t[i].number - 1 = 1 .. n - 1
          /\ \A j \in 1 .. Len(w) : t[j] = w[j]
      BY <1>1, <3>1
    <3>5. \A m \in 1 .. n - 1 :
            \E j \in 1 .. Len(w) : t[j].kind = "message" /\ t[j].stream = r /\ t[j].number = m
      BY <3>1, <3>2, <3>4
    <3>6. \A j \in 1 .. Len(w) : t[j].kind = "message" /\ t[j].stream = r
                                  => t[j].number < t[i].number
      BY <3>1, <3>3, <3>4
    <3> QED BY <3>4, <3>5, <3>6, Zenon
  <2> QED BY <1>1, <2>1, <2>2
<1>6. FitsIn(prompt, rel, lanes, t, most)
  BY <1>1, <1>4, <1>5 DEF FitsIn
<1> QED BY <1>1, <1>6

\* What of it has been handed out so far.
LEMMA FitsBefore ==
  ASSUME NEW prompt, NEW rel, NEW lanes, NEW a \in Seq(Events), NEW t \in Seq(Events), NEW most,
         Len(a) <= Len(t), \A i \in 1 .. Len(a) : t[i] = a[i], FitsIn(prompt, rel, lanes, t, most)
  PROVE  FitsIn(prompt, rel, lanes, a, most)
<1>1. /\ Len(a) \in Nat /\ DOMAIN a = 1 .. Len(a) /\ Len(t) \in Nat /\ DOMAIN t = 1 .. Len(t)
  BY LenProperties
<1>2. \A i \in 1 .. Len(a) : i \in 1 .. Len(t) /\ 1 \in 1 .. Len(a) /\ t[1] = a[1]
  BY <1>1
<1>3. ASSUME NEW i \in 1 .. Len(a)
      PROVE  /\ a[i].kind = "connected" => \A j \in 1 .. i - 1 : a[j].kind = "message"
             /\ a[i].kind = "disconnected" => i = Len(a)
             /\ prompt /\ a[i].kind = "message" => a[1].kind = "connected"
             /\ \A s \in lanes : a[i].kind = "message" /\ a[i].stream = s => a[i].number \in 1 .. most[s]
  <2>1. /\ t[i].kind = "connected" => \A j \in 1 .. i - 1 : t[j].kind = "message"
        /\ t[i].kind = "disconnected" => i = Len(t)
        /\ prompt /\ t[i].kind = "message" => t[1].kind = "connected"
        /\ \A s \in lanes : t[i].kind = "message" /\ t[i].stream = s => t[i].number \in 1 .. most[s]
    BY <1>1, <1>2 DEF FitsIn
  <2>2. t[i] = a[i] /\ t[1] = a[1]
    BY <1>2
  <2>3. i = Len(t) => i = Len(a)
    <3>1. \A k, m, n : k \in 1 .. m /\ m \in Nat /\ n \in Nat /\ m <= n /\ k = n => k = m
      OBVIOUS
    <3> QED BY <1>1, <3>1, Zenon
  <2> QED BY <2>1, <2>2, <2>3
<1>4. ASSUME NEW s \in rel, NEW i \in 1 .. Len(a), a[i].kind = "message" /\ a[i].stream = s
      PROVE  /\ \A n \in 1 .. a[i].number - 1 :
                  \E j \in 1 .. i - 1 : a[j].kind = "message" /\ a[j].stream = s /\ a[j].number = n
             /\ \A j \in 1 .. i - 1 : a[j].kind = "message" /\ a[j].stream = s
                                        => a[j].number < a[i].number
  <2>1. \A j \in 1 .. i - 1 : t[j] = a[j]
    BY <1>1
  <2>2. /\ \A n \in 1 .. t[i].number - 1 :
             \E j \in 1 .. i - 1 : t[j].kind = "message" /\ t[j].stream = s /\ t[j].number = n
        /\ \A j \in 1 .. i - 1 : t[j].kind = "message" /\ t[j].stream = s
                                   => t[j].number < t[i].number
    BY <1>1, <1>2, <1>4 DEF FitsIn
  <2>3. t[i] = a[i]
    OBVIOUS
  <2> QED BY <2>1, <2>2, <2>3
<1>5. \A i \in DOMAIN a :
        /\ a[i].kind = "connected" => \A j \in 1 .. i - 1 : a[j].kind = "message"
        /\ a[i].kind = "disconnected" => i = Len(a)
        /\ prompt /\ a[i].kind = "message" => a[1].kind = "connected"
        /\ \A s \in lanes : a[i].kind = "message" /\ a[i].stream = s => a[i].number \in 1 .. most[s]
  BY <1>1, <1>3
<1>6. \A s \in rel : \A i \in DOMAIN a : a[i].kind = "message" /\ a[i].stream = s =>
        /\ \A n \in 1 .. a[i].number - 1 :
             \E j \in 1 .. i - 1 : a[j].kind = "message" /\ a[j].stream = s /\ a[j].number = n
        /\ \A j \in 1 .. i - 1 : a[j].kind = "message" /\ a[j].stream = s
                                   => a[j].number < a[i].number
  BY <1>1, <1>4
<1> QED BY <1>5, <1>6 DEF FitsIn

LEMMA FitsSoFar ==
  ASSUME NEW prompt, NEW rel, NEW lanes, NEW a \in Seq(Events), NEW b \in Seq(Events), NEW most,
         NEW t, t = a \o b, FitsIn(prompt, rel, lanes, t, most)
  PROVE  FitsIn(prompt, rel, lanes, a, most)
<1>1. /\ Len(a) \in Nat /\ t \in Seq(Events) /\ Len(a) <= Len(t)
      /\ \A i \in 1 .. Len(a) : t[i] = a[i]
  BY ConcatProperties, LenProperties
<1> QED BY <1>1, FitsBefore

\* Concatenation.
LEMMA ConcatIs ==
  ASSUME NEW a \in Seq(Events), NEW b \in Seq(Events)
  PROVE  /\ a \o b \in Seq(Events)
         /\ a \o <<>> = a /\ <<>> \o b = b
         /\ (a \o b = <<>> => a = <<>> /\ b = <<>>)
<1>1. a \o b \in Seq(Events) /\ a \o <<>> = a /\ <<>> \o b = b
  BY ConcatProperties, ConcatEmptySeq
<1>2. ASSUME a \o b = <<>> PROVE a = <<>> /\ b = <<>>
  <2>1. Len(a) + Len(b) = 0 /\ Len(a) \in Nat /\ Len(b) \in Nat
    BY <1>2, ConcatProperties, LenProperties
  <2> QED BY <2>1, EmptySeq
<1> QED BY <1>1, <1>2

LEMMA Both ==
  ASSUME NEW a, NEW b
  PROVE  <<a>> \o <<b>> = <<a, b>>
<1>1. PICK p, q, u : p = <<a>> /\ q = <<b>> /\ u = <<a, b>>
  OBVIOUS
<1>2. /\ p \in Seq({a, b}) /\ q \in Seq({a, b}) /\ u \in Seq({a, b})
      /\ Len(p) = 1 /\ Len(q) = 1 /\ Len(u) = 2
      /\ p[1] = a /\ q[1] = b /\ u[1] = a /\ u[2] = b
  BY <1>1
<1>3. PICK t : t = p \o q
  OBVIOUS
<1>4. t \in Seq({a, b}) /\ Len(t) = 2 /\ t[1] = a /\ t[2] = b
  BY <1>2, <1>3, ConcatProperties
<1>5. t = u
  BY <1>2, <1>4, SeqEqual
<1> QED BY <1>1, <1>3, <1>5

LEMMA ConcatAppend ==
  ASSUME NEW a, NEW b, NEW e, a \in Seq(Events), b \in Seq(Events), e \in Events
  PROVE  a \o Append(b, e) = Append(a \o b, e)
OBVIOUS

-----------------------------------------------------------------------------
(* Loopback *)

LEMMA LoopEnds ==
  /\ LS = {"bulk", "datagrams"} /\ LS \subseteq Lanes /\ Loop!Reliable = LS
  /\ \A h \in LH : /\ h[1] \in Guests /\ h[2] \in {"client", "server"}
                   /\ Loop!Peer(h) \in LH /\ Loop!Peer(h)[1] = h[1] /\ Loop!Peer(Loop!Peer(h)) = h
                   /\ Loop!Peer(h) # h /\ (Loop!Peer(h)[2] = "server" <=> h[2] # "server")
                   /\ \A k \in LH : k[1] = h[1] => k = h \/ k = Loop!Peer(h)
  /\ \A c \in Guests : <<c, "client">> \in LH /\ <<c, "server">> \in LH
<1>1. LS = {"bulk", "datagrams"} /\ LS \subseteq Lanes /\ Loop!Reliable = LS
  BY DEF LS, Loop!L!Streams, Loop!Reliable, Loop!Unreliable, Lanes
<1>2. ASSUME NEW h \in LH
      PROVE  /\ h[1] \in Guests /\ h[2] \in {"client", "server"}
             /\ Loop!Peer(h) \in LH /\ Loop!Peer(h)[1] = h[1] /\ Loop!Peer(Loop!Peer(h)) = h
             /\ Loop!Peer(h) # h /\ (Loop!Peer(h)[2] = "server" <=> h[2] # "server")
             /\ \A k \in LH : k[1] = h[1] => k = h \/ k = Loop!Peer(h)
  BY DEF LH, Loop!Handles, Loop!Peer
<1>3. ASSUME NEW c \in Guests PROVE <<c, "client">> \in LH /\ <<c, "server">> \in LH
  BY DEF LH, Loop!Handles
<1> QED BY <1>1, <1>2, <1>3

LEMMA LoopParts ==
  ASSUME LoopTypes, NEW h \in LH
  PROVE  /\ got[h] \in Seq(Events) /\ Queue(h) \in Seq(Events) /\ Whole(h) \in Seq(Events)
         /\ sent[h] \in [LS -> Nat] /\ sent[Loop!Peer(h)] \in [LS -> Nat]
         /\ toServer[h[1]] \in Seq(Events) /\ toClient[h[1]] \in Seq(Events)
<1>1. got[h] \in Seq(Events) /\ Queue(h) \in Seq(Events)
  BY LoopEnds DEF LoopTypes, Queue
<1>2. Whole(h) \in Seq(Events)
  BY <1>1, ConcatIs DEF Whole
<1> QED BY <1>1, <1>2, LoopEnds DEF LoopTypes

\* Whatever changes elsewhere.
LEMMA LoopSame ==
  ASSUME NEW h \in LH, LoopFitsAt(h), Whole(h)' = Whole(h), sent'[h] = sent[h],
         sent'[Loop!Peer(h)] = sent[Loop!Peer(h)],
         h[1] \in links' <=> h[1] \in links, h[1] \in closed' <=> h[1] \in closed
  PROVE  LoopFitsAt(h)'
BY DEF LoopFitsAt

LEMMA LoopInitFits ==
  ASSUME Loop!Init
  PROVE  LoopInv
<1>1. LoopTypes
  BY DEF Loop!Init, Loop!L!LinkInit, LoopTypes, LH, LS
<1>2. ASSUME NEW h \in LH PROVE LoopFitsAt(h)
  <2>1. got[h] = <<>> /\ Queue(h) = <<>> /\ links = {} /\ closed = {}
    BY LoopEnds DEF Loop!Init, Loop!L!LinkInit, LH, Queue
  <2>2. Whole(h) = <<>>
    BY <2>1 DEF Whole
  <2>3. \A s \in LS : sent[h][s] = 0 /\ sent[Loop!Peer(h)][s] = 0
    BY LoopEnds DEF Loop!Init, Loop!L!LinkInit, LH, LS
  <2>4. \A s \in LS : 1 .. sent[Loop!Peer(h)][s] = {}
    BY <2>3
  <2> QED BY <2>1, <2>2, <2>3, <2>4, FitsNothing DEF LoopFitsAt
<1> QED BY <1>1, <1>2 DEF LoopInv, LoopFits

LEMMA LoopConnect ==
  ASSUME LoopInv, NEW c \in Guests, Loop!Connect(c)
  PROVE  LoopInv'
<1>1. /\ c \notin links /\ links' = links \cup {c} /\ UNCHANGED <<closed, sent, got>>
      /\ toClient' = [toClient EXCEPT ![c] = <<Con>>] /\ toServer' = [toServer EXCEPT ![c] = <<Con>>]
  BY DEF Loop!Connect, Loop!L!Event, Con
<1>2. LoopTypes'
  BY <1>1, EventKinds DEF LoopInv, LoopTypes
<1>3. ASSUME NEW h \in LH, h[1] # c PROVE LoopFitsAt(h)'
  <2>1. Queue(h)' = Queue(h)
    BY <1>1, <1>3, LoopEnds DEF Queue, LoopInv, LoopTypes
  <2>2. Whole(h)' = Whole(h)
    BY <1>1, <2>1 DEF Whole
  <2> QED BY <1>1, <1>3, <2>2, LoopSame DEF LoopInv, LoopFits
<1>4. ASSUME NEW h \in LH, h[1] = c PROVE LoopFitsAt(h)'
  <2>1. Whole(h) = <<>> /\ \A s \in LS : sent[Loop!Peer(h)][s] = 0
    BY <1>1, <1>4, LoopEnds DEF LoopInv, LoopFits, LoopFitsAt
  <2>2. got[h] = <<>>
    BY <2>1, LoopParts, ConcatIs DEF LoopInv, Whole
  <2>3. Queue(h)' = <<Con>>
    BY <1>1, <1>4 DEF Queue, LoopInv, LoopTypes
  <2>4. Whole(h)' = <<Con>>
    BY <1>1, <2>2, <2>3 DEF Whole
  <2>5. \A s \in LS : 1 .. sent'[Loop!Peer(h)][s] = {}
    BY <1>1, <2>1
  <2> QED BY <1>1, <1>4, <2>4, <2>5, FitsConnected DEF LoopFitsAt, LoopInv, LoopTypes
<1> QED BY <1>2, <1>3, <1>4 DEF LoopInv, LoopFits

LEMMA LoopSend ==
  ASSUME LoopInv, NEW h \in LH, NEW s \in LS, Loop!Send(h, s)
  PROVE  LoopInv' /\ Loop!L!Say
<1> DEFINE k == Loop!Peer(h)
           n == sent[h][s] + 1
<1>0. k \in LH /\ Loop!Peer(k) = h /\ k # h /\ k[1] = h[1] /\ h[1] \in Guests
      /\ (k[2] = "server" <=> h[2] # "server")
  BY LoopEnds
<1>1. /\ h[1] \in links /\ h[1] \notin closed
      /\ sent' = [sent EXCEPT ![h][s] = @ + 1] /\ UNCHANGED <<links, closed, got>>
      /\ h[2] = "server" => /\ toClient' = [toClient EXCEPT ![h[1]] = Append(@, Msg(s, n))]
                            /\ UNCHANGED toServer
      /\ h[2] # "server" => /\ toServer' = [toServer EXCEPT ![h[1]] = Append(@, Msg(s, n))]
                            /\ UNCHANGED toClient
  BY DEF Loop!Send, Loop!Open, Loop!L!Message, Msg
<1>2. /\ n \in Nat /\ sent[h][s] \in Nat /\ s \in Lanes /\ Msg(s, n) \in Events
      /\ Msg(s, n).kind = "message" /\ Msg(s, n).stream = s /\ Msg(s, n).number = n
  <2>1. sent[h] \in [LS -> Nat] /\ s \in Lanes
    BY LoopParts, LoopEnds DEF LoopInv
  <2>2. sent[h][s] \in Nat /\ n \in Nat
    BY <2>1
  <2> QED BY <2>1, <2>2, EventKinds
<1>3. /\ sent'[h] \in [LS -> Nat] /\ sent'[h][s] = n /\ \A r \in LS : r # s => sent'[h][r] = sent[h][r]
      /\ \A j \in LH : j # h => sent'[j] = sent[j]
      /\ sent' \in [LH -> [LS -> Nat]]
  BY <1>1, <1>2 DEF LoopInv, LoopTypes
<1> HIDE DEF n, k
<1>4. LoopTypes'
  <2>1. \A c \in Guests : /\ Append(toClient[c], Msg(s, n)) \in Seq(Events)
                          /\ Append(toServer[c], Msg(s, n)) \in Seq(Events)
    BY <1>2, AppendProperties DEF LoopInv, LoopTypes
  <2>2. toServer' \in [Guests -> Seq(Events)] /\ toClient' \in [Guests -> Seq(Events)]
    BY <1>0, <1>1, <2>1 DEF LoopInv, LoopTypes
  <2> QED BY <1>1, <1>3, <2>2 DEF LoopInv, LoopTypes
<1>5. ASSUME NEW j \in LH, j # k, j # h PROVE LoopFitsAt(j)'
  <2>1. j[1] # h[1]
    BY <1>5, LoopEnds DEF k
  <2>2. Queue(j)' = Queue(j)
    BY <1>1, <2>1, LoopEnds DEF Queue, LoopInv, LoopTypes
  <2>3. Whole(j)' = Whole(j) /\ Loop!Peer(j) # h
    BY <1>1, <2>1, <2>2, LoopEnds DEF Whole
  <2> QED BY <1>1, <1>3, <1>5, <2>3, LoopEnds, LoopSame DEF LoopInv, LoopFits
<1>6. LoopFitsAt(h)'
  <2>1. Queue(h)' = Queue(h)
    BY <1>0, <1>1 DEF Queue, LoopInv, LoopTypes
  <2>2. Whole(h)' = Whole(h)
    BY <1>1, <2>1 DEF Whole
  <2>3. sent'[Loop!Peer(h)] = sent[Loop!Peer(h)]
    BY <1>0, <1>3 DEF k
  <2>4. LoopFitsAt(h) /\ h[1] \in links' /\ h[1] \in links /\ (h[1] \in closed' <=> h[1] \in closed)
    BY <1>1 DEF LoopInv, LoopFits
  <2> QED BY <2>2, <2>3, <2>4, Zenon DEF LoopFitsAt
<1>7. LoopFitsAt(k)'
  <2>1. /\ FitsIn(TRUE, LS, LS, Whole(k), sent[h]) /\ Begun(Whole(k)) /\ ~HasEnd(Whole(k))
        /\ \A r \in LS : \A m \in 1 .. sent[h][r] : Arrived(Whole(k), r, m)
        /\ sent[h] \in [LS -> Nat] /\ Whole(k) \in Seq(Events) /\ got[k] \in Seq(Events)
        /\ Queue(k) \in Seq(Events)
    BY <1>0, <1>1, LoopParts DEF LoopInv, LoopFits, LoopFitsAt
  <2>2. Queue(k)' = Append(Queue(k), Msg(s, n))
    BY <1>0, <1>1 DEF Queue, LoopInv, LoopTypes
  <2>3. Whole(k)' = Append(Whole(k), Msg(s, n))
    <3>1. PICK a, b, e : a = got[k] /\ b = Queue(k) /\ e = Msg(s, n)
      OBVIOUS
    <3>2. a \o Append(b, e) = Append(a \o b, e)
      <4>1. a \in Seq(Events) /\ b \in Seq(Events) /\ e \in Events
        BY <1>2, <2>1, <3>1
      <4> QED BY <4>1, ConcatAppend
    <3> QED BY <1>1, <2>2, <3>1, <3>2 DEF Whole
  <2>4. PICK t : t = Append(Whole(k), Msg(s, n))
    OBVIOUS
  <2>5. FitsIn(TRUE, LS, LS, Whole(k), sent'[h])
    <3>1. \A r \in LS : sent[h][r] <= sent'[h][r]
      <4>1. \A r \in LS : sent[h][r] \in Nat
        BY <2>1
      <4>2. sent[h][s] <= n
        BY <1>2 DEF n
      <4> QED BY <1>3, <4>1, <4>2
    <3>2. PICK most, more : most = sent[h] /\ more = sent'[h]
      OBVIOUS
    <3> QED BY <1>3, <2>1, <3>1, <3>2, FitsLater
  <2>6. \A m \in Int : Arrived(Whole(k), s, m) => m < n
    <3>1. \A i \in DOMAIN Whole(k) : Whole(k)[i].kind = "message" /\ Whole(k)[i].stream = s
             => Whole(k)[i].number \in 1 .. sent[h][s]
      BY <2>1 DEF FitsIn
    <3> QED BY <1>2, <3>1 DEF Arrived, n
  <2>7. \A m \in 1 .. n - 1 : Arrived(Whole(k), s, m)
    BY <1>2, <2>1 DEF n
  <2>8. n \in 1 .. sent'[h][s]
    BY <1>2, <1>3 DEF n
  <2>9. FitsIn(TRUE, LS, LS, t, sent'[h])
    BY <1>2, <2>1, <2>4, <2>5, <2>6, <2>7, <2>8, FitsMessage, LoopEnds
  <2>10. /\ ~HasEnd(t) /\ Begun(t)
         /\ \A r \in LS : \A m \in 1 .. sent'[h][r] : Arrived(t, r, m)
    <3>1. /\ \A r, m : Arrived(t, r, m) <=> (Arrived(Whole(k), r, m) \/ (r = s /\ m = n))
          /\ (HasEnd(t) <=> HasEnd(Whole(k)))
          /\ Whole(k) # <<>> => (Begun(t) <=> Begun(Whole(k)))
      <4>1. PICK e \in Events : e = Msg(s, n)
        BY <1>2
      <4>2. PICK w \in Seq(Events) : w = Whole(k)
        BY <2>1
      <4>3. /\ \A r, m : Arrived(t, r, m) <=> (Arrived(w, r, m) \/ (e.kind = "message" /\ e.stream = r /\ e.number = m))
            /\ (HasEnd(t) <=> (HasEnd(w) \/ e.kind = "disconnected"))
            /\ (w # <<>> => (Begun(t) <=> Begun(w)))
        <5>1. t = Append(w, e)
          BY <2>4, <4>1, <4>2
        <5> QED BY <5>1, OneMoreIs
      <4>4. e.kind = "message" /\ e.stream = s /\ e.number = n
        BY <1>2, <4>1
      <4> QED BY <4>2, <4>3, <4>4
    <3>2. Whole(k) # <<>>
      BY <2>1 DEF Begun
    <3>3. \A m \in 1 .. sent'[h][s] : m \in 1 .. sent[h][s] \/ m = n
      BY <1>2, <1>3 DEF n
    <3> QED BY <1>3, <2>1, <3>1, <3>2, <3>3
  <2>11. Whole(k)' = t
    BY <2>3, <2>4
  <2>12. sent'[Loop!Peer(k)] = sent'[h]
    BY <1>0
  <2> QED BY <1>0, <1>1, <2>9, <2>10, <2>11, <2>12 DEF LoopFitsAt
<1>8. Loop!L!Say
  BY <1>1 DEF Loop!L!Say, LH, LS
<1> QED BY <1>4, <1>5, <1>6, <1>7, <1>8 DEF LoopInv, LoopFits

LEMMA LoopClose ==
  ASSUME LoopInv, NEW c \in Guests, Loop!Close(c)
  PROVE  LoopInv'
<1>1. /\ c \in links /\ c \notin closed /\ closed' = closed \cup {c} /\ UNCHANGED <<links, sent, got>>
      /\ toServer' = [toServer EXCEPT ![c] = Append(@, Dis)]
      /\ toClient' = [toClient EXCEPT ![c] = Append(@, Dis)]
  BY DEF Loop!Close, Loop!Open, Loop!L!Event, Dis
<1>2. LoopTypes'
  BY <1>1, EventKinds DEF LoopInv, LoopTypes
<1>3. ASSUME NEW h \in LH, h[1] # c PROVE LoopFitsAt(h)'
  <2>1. Queue(h)' = Queue(h)
    BY <1>1, <1>3, LoopEnds DEF Queue, LoopInv, LoopTypes
  <2>2. Whole(h)' = Whole(h)
    BY <1>1, <2>1 DEF Whole
  <2> QED BY <1>1, <1>3, <2>2, LoopSame DEF LoopInv, LoopFits
<1>4. ASSUME NEW h \in LH, h[1] = c PROVE LoopFitsAt(h)'
  <2>1. /\ FitsIn(TRUE, LS, LS, Whole(h), sent[Loop!Peer(h)]) /\ ~HasEnd(Whole(h)) /\ Begun(Whole(h))
        /\ \A s \in LS : \A n \in 1 .. sent[Loop!Peer(h)][s] : Arrived(Whole(h), s, n)
        /\ Whole(h) \in Seq(Events) /\ got[h] \in Seq(Events) /\ Queue(h) \in Seq(Events)
    BY <1>1, <1>4, LoopParts DEF LoopInv, LoopFits, LoopFitsAt
  <2>2. Queue(h)' = Append(Queue(h), Dis)
    BY <1>1, <1>4 DEF Queue, LoopInv, LoopTypes
  <2>3. Whole(h)' = Append(Whole(h), Dis)
    <3>1. PICK a, b : a = got[h] /\ b = Queue(h)
      OBVIOUS
    <3>2. a \o Append(b, Dis) = Append(a \o b, Dis)
      <4>1. a \in Seq(Events) /\ b \in Seq(Events)
        BY <2>1, <3>1
      <4> QED BY <4>1, ConcatAppend, EventKinds
    <3> QED BY <1>1, <2>2, <3>1, <3>2 DEF Whole
  <2>4. PICK t : t = Append(Whole(h), Dis)
    OBVIOUS
  <2>5. /\ FitsIn(TRUE, LS, LS, t, sent[Loop!Peer(h)]) /\ Begun(t)
        /\ \A r, n : Arrived(t, r, n) <=> Arrived(Whole(h), r, n)
    BY <2>1, <2>4, FitsEnd
  <2>6. Whole(h)' = t
    BY <2>3, <2>4
  <2> QED BY <1>1, <1>4, <2>1, <2>5, <2>6 DEF LoopFitsAt
<1> QED BY <1>2, <1>3, <1>4 DEF LoopInv, LoopFits

\* What was in a queue has been handed out.
LEMMA LoopHand ==
  ASSUME LoopInv, UNCHANGED <<links, closed, sent>>, LoopTypes',
         \A h \in LH : Whole(h)' = Whole(h) /\ (got'[h] = got[h] \/ got'[h] = Whole(h))
  PROVE  LoopInv' /\ Loop!L!Hand
<1>1. \A h \in LH : LoopFitsAt(h)'
  BY LoopEnds, LoopSame DEF LoopInv, LoopFits
<1>2. ASSUME NEW h \in LH PROVE Loop!L!Continues(got'[h], got[h])
  <2>1. got[h] \in Seq(Events) /\ Queue(h) \in Seq(Events) /\ Whole(h) = got[h] \o Queue(h)
    BY LoopParts DEF LoopInv, Whole
  <2>2. PICK a, b : a = got[h] /\ b = Queue(h)
    OBVIOUS
  <2>3. PICK t : t = a \o b
    OBVIOUS
  <2>4. /\ Len(a) \in Nat /\ DOMAIN a = 1 .. Len(a) /\ Len(b) \in Nat
        /\ t \in Seq(Events) /\ Len(t) = Len(a) + Len(b) /\ DOMAIN t = 1 .. Len(t)
        /\ \A i \in 1 .. Len(a) : t[i] = a[i]
    BY <2>1, <2>2, <2>3, ConcatProperties, LenProperties
  <2>5. Loop!L!Continues(t, a) /\ Loop!L!Continues(a, a)
    BY <2>4 DEF Loop!L!Continues
  <2> QED BY <2>1, <2>2, <2>3, <2>5
<1>3. ASSUME NEW h \in LH PROVE Loop!L!Fits(got'[h], sent[Loop!Peer(h)])
  <2>1. /\ got[h] \in Seq(Events) /\ Queue(h) \in Seq(Events) /\ Whole(h) = got[h] \o Queue(h)
        /\ FitsIn(TRUE, LS, LS, Whole(h), sent[Loop!Peer(h)])
    BY LoopParts DEF LoopInv, LoopFits, LoopFitsAt, Whole
  <2>2. FitsIn(TRUE, LS, LS, got'[h], sent[Loop!Peer(h)])
    BY <2>1, FitsSoFar
  <2> QED BY <2>2, LoopEnds DEF FitsIn, Loop!L!Fits, Loop!L!InOrder, Loop!L!Of, LS
<1> QED BY <1>1, <1>2, <1>3 DEF LoopInv, LoopFits, Loop!L!Hand, LH

LEMMA LoopPollServer ==
  ASSUME LoopInv, Loop!PollServer
  PROVE  LoopInv' /\ Loop!L!Hand
<1>1. /\ got' = [h \in LH |-> IF h[2] = "server" THEN got[h] \o toServer[h[1]] ELSE got[h]]
      /\ toServer' = [c \in Guests |-> <<>>]
      /\ UNCHANGED <<links, toClient, closed, sent>>
  BY DEF Loop!PollServer, LH
<1>2. ASSUME NEW h \in LH
      PROVE  /\ Whole(h)' = Whole(h) /\ (got'[h] = got[h] \/ got'[h] = Whole(h))
             /\ got'[h] \in Seq(Events)
  <2>1. got[h] \in Seq(Events) /\ Queue(h) \in Seq(Events) /\ Whole(h) \in Seq(Events)
        /\ h[1] \in Guests
    BY LoopParts, LoopEnds DEF LoopInv
  <2>2. CASE h[2] = "server"
    <3>1. got'[h] = Whole(h) /\ Queue(h)' = <<>>
      BY <1>1, <2>1, <2>2 DEF Whole, Queue
    <3>2. Whole(h)' = Whole(h)
      BY <2>1, <3>1, ConcatIs DEF Whole
    <3> QED BY <2>1, <3>1, <3>2
  <2>3. CASE h[2] # "server"
    <3>1. got'[h] = got[h] /\ Queue(h)' = Queue(h)
      BY <1>1, <2>3 DEF Queue
    <3> QED BY <2>1, <3>1 DEF Whole
  <2> QED BY <2>2, <2>3
<1>3. LoopTypes'
  <2>1. got' \in [LH -> Seq(Events)]
    BY <1>1, <1>2
  <2> QED BY <1>1, <2>1 DEF LoopInv, LoopTypes
<1> QED BY <1>1, <1>2, <1>3, LoopHand

LEMMA LoopPollClient ==
  ASSUME LoopInv, NEW c \in Guests, Loop!PollClient(c)
  PROVE  LoopInv' /\ Loop!L!Hand
<1>0. PICK k \in LH : k = <<c, "client">> /\ k[1] = c /\ k[2] = "client"
  BY LoopEnds
<1>1. /\ got' = [got EXCEPT ![k] = @ \o toClient[c]]
      /\ toClient' = [toClient EXCEPT ![c] = <<>>]
      /\ UNCHANGED <<links, toServer, closed, sent>>
  BY <1>0 DEF Loop!PollClient
<1>2. ASSUME NEW h \in LH
      PROVE  /\ Whole(h)' = Whole(h) /\ (got'[h] = got[h] \/ got'[h] = Whole(h))
             /\ got'[h] \in Seq(Events)
  <2>1. got[h] \in Seq(Events) /\ Queue(h) \in Seq(Events) /\ Whole(h) \in Seq(Events)
        /\ h[1] \in Guests
    BY LoopParts, LoopEnds DEF LoopInv
  <2>2. CASE h = k
    <3>1. got'[h] = Whole(h) /\ Queue(h)' = <<>>
      BY <1>0, <1>1, <2>1, <2>2 DEF Whole, Queue, LoopInv, LoopTypes
    <3>2. Whole(h)' = Whole(h)
      BY <2>1, <3>1, ConcatIs DEF Whole
    <3> QED BY <2>1, <3>1, <3>2
  <2>3. CASE h # k
    <3>1. h[2] # "server" => h[1] # c
      BY <1>0, <2>3, LoopEnds
    <3>2. got'[h] = got[h] /\ Queue(h)' = Queue(h)
      BY <1>0, <1>1, <2>1, <2>3, <3>1 DEF Queue, LoopInv, LoopTypes
    <3> QED BY <2>1, <3>2 DEF Whole
  <2> QED BY <2>2, <2>3
<1>3. LoopTypes'
  <2>1. got' \in [LH -> Seq(Events)]
    BY <1>1, <1>2 DEF LoopInv, LoopTypes
  <2> QED BY <1>1, <2>1 DEF LoopInv, LoopTypes
<1> QED BY <1>1, <1>2, <1>3, LoopHand

LEMMA LoopKeeps ==
  ASSUME LoopInv, UNCHANGED <<links, toServer, toClient, closed, sent, got>>
  PROVE  LoopInv'
<1>1. LoopTypes'
  BY DEF LoopInv, LoopTypes
<1>2. \A h \in LH : LoopFitsAt(h)'
  BY DEF LoopInv, LoopFits, LoopFitsAt, Whole, Queue
<1> QED BY <1>1, <1>2 DEF LoopInv, LoopFits

LEMMA LoopStep ==
  ASSUME LoopInv, Loop!Next
  PROVE  LoopInv' /\ [Loop!L!Say \/ Loop!L!Hand]_<<sent, got>>
<1>1. CASE Loop!Listen
  <2>1. UNCHANGED <<links, toServer, toClient, closed, sent, got>>
    BY <1>1 DEF Loop!Listen
  <2> QED BY <2>1, LoopKeeps
<1>2. CASE Loop!PollServer
  BY <1>2, LoopPollServer
<1>3. ASSUME NEW c \in Guests, Loop!Connect(c) \/ Loop!Close(c) \/ Loop!PollClient(c)
      PROVE  LoopInv' /\ [Loop!L!Say \/ Loop!L!Hand]_<<sent, got>>
  <2>1. CASE Loop!Connect(c)
    BY <2>1, LoopConnect DEF Loop!Connect
  <2>2. CASE Loop!Close(c)
    BY <2>2, LoopClose DEF Loop!Close
  <2>3. CASE Loop!PollClient(c)
    BY <2>3, LoopPollClient
  <2> QED BY <1>3, <2>1, <2>2, <2>3
<1>4. ASSUME NEW h \in LH, NEW s \in LS, Loop!Send(h, s)
      PROVE  LoopInv' /\ [Loop!L!Say \/ Loop!L!Hand]_<<sent, got>>
  BY <1>4, LoopSend
<1> QED BY <1>1, <1>2, <1>3, <1>4 DEF Loop!Next, LH, LS

-----------------------------------------------------------------------------
(* GnsTransport *)

LEMMA GnsEnds ==
  /\ GS = Lanes /\ Gns!Reliable \subseteq GS /\ Server \in Gns!Ends /\ None \notin Gns!Ends
  /\ \A h \in GH : /\ h[2] \in {"client", "server"} /\ Gns!EndOf(h) \in Gns!Ends
                   /\ Gns!EndOf(h) # None /\ (h[2] = "server" <=> Gns!EndOf(h) = Server)
                   /\ Gns!Peer(h) \in GH /\ Gns!Peer(Gns!Peer(h)) = h /\ Gns!Peer(h) # h
                   /\ (Gns!Peer(h)[2] = "server" <=> h[2] # "server")
  /\ \A c \in Players : <<c, "client">> \in GH /\ Gns!EndOf(<<c, "client">>) = c /\ c \in Gns!Ends
<1>1. GS = Lanes /\ Gns!Reliable \subseteq GS
  BY DEF GS, Gns!L!Streams, Gns!Reliable, Gns!Unreliable, Lanes
<1>2. Server \in Gns!Ends /\ None \notin Gns!Ends /\ Server \notin Players
  BY ConnectedConstants DEF Gns!Ends
<1>3. ASSUME NEW h \in GH
      PROVE  /\ h[2] \in {"client", "server"} /\ Gns!EndOf(h) \in Gns!Ends
             /\ (h[2] = "server" <=> Gns!EndOf(h) = Server)
             /\ Gns!Peer(h) \in GH /\ Gns!Peer(Gns!Peer(h)) = h /\ Gns!Peer(h) # h
             /\ (Gns!Peer(h)[2] = "server" <=> h[2] # "server")
  <2>1. h \in Players \X {"client", "server"}
    BY DEF GH, Gns!Handles
  <2>2. h[1] \in Players /\ h[2] \in {"client", "server"} /\ h = <<h[1], h[2]>>
    BY <2>1
  <2>3. Gns!EndOf(h) \in Gns!Ends /\ (h[2] = "server" <=> Gns!EndOf(h) = Server)
    BY <1>2, <2>2 DEF Gns!EndOf, Gns!Ends
  <2> QED BY <2>2, <2>3 DEF GH, Gns!Handles, Gns!Peer
<1>4. ASSUME NEW c \in Players
      PROVE  <<c, "client">> \in GH /\ Gns!EndOf(<<c, "client">>) = c /\ c \in Gns!Ends
  BY DEF GH, Gns!Handles, Gns!EndOf, Gns!Ends
<1>5. \A h \in GH : Gns!EndOf(h) # None
  BY <1>2, <1>3
<1> QED BY <1>1, <1>2, <1>3, <1>4, <1>5

\* What may wait for a poll.
LEMMA TellingIs ==
  ASSUME NEW p \in Tellings
  PROVE  /\ HasStart(p) <=> p = <<Con>> \/ p = <<Con, Dis>>
         /\ HasEnd(p) <=> p = <<Dis>> \/ p = <<Con, Dis>>
         /\ p \in Seq(Events) /\ \A s, n : ~Arrived(p, s, n)
<1>1. Con.kind = "connected" /\ Dis.kind = "disconnected" /\ Con \in Events /\ Dis \in Events
  BY EventKinds
<1>2. CASE p = <<>>
  <2>1. p # <<Con>> /\ p # <<Dis>> /\ p # <<Con, Dis>>
    BY <1>2
  <2> QED BY <1>2, <2>1, FitsNothing
<1>3. CASE p = <<Con>>
  <2>1. DOMAIN p = {1} /\ p[1] = Con /\ p # <<>>
    BY <1>3
  <2>2. p # <<Dis>> /\ p # <<Con, Dis>>
    BY <1>1, <1>3
  <2> QED BY <1>1, <1>3, <2>1, <2>2 DEF HasStart, HasEnd, Arrived
<1>4. CASE p = <<Dis>>
  <2>1. DOMAIN p = {1} /\ p[1] = Dis /\ p # <<>>
    BY <1>4
  <2>2. p # <<Con>> /\ p # <<Con, Dis>>
    BY <1>1, <1>4
  <2> QED BY <1>1, <1>4, <2>1, <2>2 DEF HasStart, HasEnd, Arrived
<1>5. CASE p = <<Con, Dis>>
  <2>1. DOMAIN p = {1, 2} /\ p[1] = Con /\ p[2] = Dis /\ p # <<>>
    BY <1>5
  <2> QED BY <1>1, <1>5, <2>1 DEF HasStart, HasEnd, Arrived
<1> QED BY <1>2, <1>3, <1>4, <1>5 DEF Tellings

\* An end that is told of something, after what it was told before.
LEMMA TellingMore ==
  ASSUME NEW p \in Tellings, NEW q \in Tellings, NEW t, t = p \o q,
         HasStart(q) => p = <<>>, q # <<>> => ~HasEnd(p)
  PROVE  /\ t \in Tellings
         /\ HasStart(t) <=> HasStart(p) \/ HasStart(q)
         /\ HasEnd(t) <=> HasEnd(p) \/ HasEnd(q)
         /\ t = <<>> <=> p = <<>> /\ q = <<>>
<1>1. /\ p \in Seq(Events) /\ q \in Seq(Events)
      /\ HasStart(p) <=> p = <<Con>> \/ p = <<Con, Dis>>
      /\ HasEnd(p) <=> p = <<Dis>> \/ p = <<Con, Dis>>
      /\ HasStart(q) <=> q = <<Con>> \/ q = <<Con, Dis>>
      /\ HasEnd(q) <=> q = <<Dis>> \/ q = <<Con, Dis>>
      /\ <<>> \in Tellings
  BY TellingIs DEF Tellings
<1>2. ~HasStart(<<>>) /\ ~HasEnd(<<>>)
  BY FitsNothing
<1>3. CASE p = <<>>
  <2>1. t = q
    BY <1>1, <1>3, ConcatIs
  <2> QED BY <1>2, <1>3, <2>1
<1>4. CASE q = <<>>
  <2>1. t = p
    BY <1>1, <1>4, ConcatIs
  <2> QED BY <1>2, <1>4, <2>1
<1>5. CASE p # <<>> /\ q # <<>>
  <2>1. p = <<Con>> /\ q = <<Dis>>
    BY <1>1, <1>5 DEF Tellings
  <2>2. t = <<Con, Dis>>
    <3>1. <<Con>> \o <<Dis>> = <<Con, Dis>>
      BY Both
    <3> QED BY <2>1, <3>1
  <2>3. t \in Tellings /\ t # <<>> /\ HasStart(t) /\ HasEnd(t)
    BY <2>2, TellingIs DEF Tellings
  <2> QED BY <1>1, <2>1, <2>3
<1> QED BY <1>3, <1>4, <1>5

LEMMA HandTelling ==
  ASSUME NEW rel, NEW lanes, NEW w \in Seq(Events), NEW most, FitsIn(FALSE, rel, lanes, w, most),
         NEW p \in Tellings, HasStart(p) => ~HasStart(w), p # <<>> => ~HasEnd(w),
         NEW t, t = w \o p
  PROVE  /\ FitsIn(FALSE, rel, lanes, t, most) /\ t \in Seq(Events)
         /\ HasEnd(t) <=> HasEnd(w) \/ HasEnd(p)
         /\ HasStart(t) <=> HasStart(w) \/ HasStart(p)
         /\ t = <<>> <=> w = <<>> /\ p = <<>>
         /\ \A s, n : Arrived(t, s, n) <=> Arrived(w, s, n)
         /\ Gns!L!Continues(t, w)
<1>1. /\ p \in Seq(Events) /\ \A s, n : ~Arrived(p, s, n)
      /\ HasStart(p) <=> p = <<Con>> \/ p = <<Con, Dis>>
      /\ HasEnd(p) <=> p = <<Dis>> \/ p = <<Con, Dis>>
      /\ t \in Seq(Events)
  BY TellingIs, ConcatIs
<1>2. t = <<>> <=> w = <<>> /\ p = <<>>
  BY <1>1, ConcatIs
<1>3. Gns!L!Continues(t, w)
  <2>1. /\ Len(w) \in Nat /\ DOMAIN w = 1 .. Len(w) /\ Len(p) \in Nat
        /\ Len(t) = Len(w) + Len(p) /\ DOMAIN t = 1 .. Len(t)
        /\ \A i \in 1 .. Len(w) : t[i] = w[i]
    BY <1>1, ConcatProperties, LenProperties
  <2> QED BY <2>1 DEF Gns!L!Continues
<1>4. CASE p = <<>>
  <2>1. t = w /\ ~HasStart(p) /\ ~HasEnd(p)
    BY <1>4, ConcatIs, FitsNothing
  <2> QED BY <1>1, <1>2, <1>3, <2>1
<1>5. CASE p = <<Con>>
  <2>1. t = Append(w, Con) /\ HasStart(p) /\ ~HasStart(w) /\ ~HasEnd(w) /\ ~HasEnd(p)
    <3>1. p # <<Dis>> /\ p # <<Con, Dis>>
      BY <1>5, EventKinds
    <3> QED BY <1>1, <1>5, <3>1, EventKinds
  <2>2. FitsIn(FALSE, rel, lanes, t, most)
    BY <2>1, FitsStart
  <2>3. ~HasEnd(t) /\ HasStart(t) /\ \A s, n : Arrived(t, s, n) <=> Arrived(w, s, n)
    BY <2>1, OneMoreIs, EventKinds
  <2> QED BY <1>1, <1>2, <1>3, <2>1, <2>2, <2>3
<1>6. CASE p = <<Dis>>
  <2>1. t = Append(w, Dis) /\ ~HasStart(p) /\ HasEnd(p) /\ ~HasEnd(w)
    <3>1. p # <<Con>> /\ p # <<Con, Dis>>
      BY <1>6, EventKinds
    <3> QED BY <1>1, <1>6, <3>1, EventKinds
  <2>2. FitsIn(FALSE, rel, lanes, t, most)
    BY <2>1, FitsEnd
  <2>3. HasEnd(t) /\ (HasStart(t) <=> HasStart(w)) /\ \A s, n : Arrived(t, s, n) <=> Arrived(w, s, n)
    BY <2>1, OneMoreIs, EventKinds
  <2> QED BY <1>1, <1>2, <1>3, <2>1, <2>2, <2>3
<1>7. CASE p = <<Con, Dis>>
  <2>1. HasStart(p) /\ HasEnd(p) /\ ~HasStart(w) /\ ~HasEnd(w)
    BY <1>1, <1>7
  <2>2. PICK v : v = Append(w, Con)
    OBVIOUS
  <2>3. t = Append(v, Dis)
    <3>1. PICK b : b = <<Con>>
      OBVIOUS
    <3>2. b \in Seq(Events) /\ w \o b = v
      BY <2>2, <3>1, EventKinds
    <3>3. p = Append(b, Dis)
      BY <1>7, <3>1
    <3>4. w \o Append(b, Dis) = Append(w \o b, Dis)
      BY <3>2, ConcatAppend, EventKinds
    <3> QED BY <3>2, <3>3, <3>4
  <2>4. FitsIn(FALSE, rel, lanes, v, most) /\ v \in Seq(Events) /\ ~HasEnd(v)
    BY <2>1, <2>2, FitsStart
  <2>5. FitsIn(FALSE, rel, lanes, t, most)
    BY <2>3, <2>4, FitsEnd
  <2>6. HasStart(v) /\ \A s, n : Arrived(v, s, n) <=> Arrived(w, s, n)
    BY <2>2, OneMoreIs, EventKinds
  <2>7. HasEnd(t) /\ HasStart(t) /\ \A s, n : Arrived(t, s, n) <=> Arrived(v, s, n)
    BY <2>3, <2>4, <2>6, OneMoreIs, EventKinds
  <2> QED BY <1>1, <1>2, <1>3, <2>1, <2>5, <2>6, <2>7
<1> QED BY <1>4, <1>5, <1>6, <1>7 DEF Tellings

LEMMA GnsInitFits ==
  ASSUME Gns!Init
  PROVE  GnsInv
<1>1. /\ alive = Gns!Ends /\ gnsListening = FALSE /\ polling = {} /\ callbacks = {}
      /\ owned = [e \in Gns!Ends |-> {}] /\ owner = [h \in GH |-> None]
      /\ gnsPending = [h \in GH |-> <<>>] /\ lib = [h \in GH |-> "none"]
      /\ wire = [h \in GH |-> [s \in GS |-> {}]]
      /\ gnsSent = [h \in GH |-> [s \in GS |-> 0]] /\ gnsGot = [h \in GH |-> <<>>]
  BY DEF Gns!Init, Gns!L!LinkInit, GH, GS
<1>2. GnsTypes
  <2>1. gnsPending \in [GH -> Tellings] /\ lib \in [GH -> States]
    BY <1>1 DEF Tellings, States
  <2>2. wire \in [GH -> [GS -> SUBSET Nat]] /\ gnsSent \in [GH -> [GS -> Nat]]
    BY <1>1
  <2>3. gnsGot \in [GH -> Seq(Events)] /\ owned \in [Gns!Ends -> SUBSET GH]
        /\ owner \in [GH -> Gns!Ends \cup {None}]
    BY <1>1
  <2> QED BY <1>1, <2>1, <2>2, <2>3 DEF GnsTypes
<1>3. Registered /\ LibFits
  BY <1>1, GnsEnds DEF Registered, LibFits, Calls
<1>4. PendingFits /\ GnsFits
  BY <1>1, FitsNothing DEF PendingFits, GnsFits
<1>6. Travels
  BY <1>1, GnsEnds, FitsNothing DEF Travels
<1> QED BY <1>2, <1>3, <1>4, <1>6 DEF GnsInv

\* The library tells of something.
LEMMA GnsNotify ==
  ASSUME GnsInv, NEW h \in GH, NEW state \in States, Gns!Notify(h, state),
         \/ state = "connecting" /\ h[2] = "server" /\ lib[h] = "none"
         \/ state = "connected" /\ lib[h] = "connecting" /\ h[2] = "client"
         \/ state = "closedByPeer" /\ lib[h] = "connected"
         \/ state = "problem" /\ lib[h] = "connected"
         \/ state = "problem" /\ lib[h] = "connecting" /\ h[2] = "client"
  PROVE  GnsInv'
<1>1. /\ lib' = [lib EXCEPT ![h] = state]
      /\ UNCHANGED <<alive, gnsListening, owned, owner, gnsPending, polling, wire, gnsSent, gnsGot>>
      /\ \A k, s : Calls(k, s)' <=> (Calls(k, s) \/ (k = h /\ s = state))
  BY DEF Gns!Notify, Gns!implVars, Calls
<1>2. GnsTypes'
  BY <1>1 DEF GnsInv, GnsTypes
<1>3. /\ lib'[h] = state /\ \A k \in GH : k # h => lib'[k] = lib[k]
  BY <1>1 DEF GnsInv, GnsTypes
<1>4. Registered' /\ PendingFits' /\ Travels' /\ GnsFits'
  BY <1>1 DEF GnsInv, Registered, PendingFits, Travels, GnsFits
<1>5. LibFits'
  BY <1>1, <1>3, FitsNothing DEF GnsInv, LibFits
<1> QED BY <1>2, <1>4, <1>5 DEF GnsInv

LEMMA GnsLibrary ==
  ASSUME GnsInv, Gns!Library
  PROVE  GnsInv' /\ UNCHANGED <<gnsSent, gnsGot>>
<1>1. PICK h \in GH : \/ Gns!Asked(h) \/ Gns!Answered(h) \/ Gns!ClosedThere(h)
                      \/ Gns!BreaksDown(h) \/ Gns!NoAnswer(h)
  BY DEF Gns!Library, GH
<1>3. \E state \in States : Gns!Notify(h, state)
  BY <1>1 DEF Gns!Asked, Gns!Answered, Gns!BreaksDown, Gns!NoAnswer, Gns!ClosedThere, States
<1>4. UNCHANGED <<gnsSent, gnsGot>>
  BY <1>3 DEF Gns!Notify
<1>5. CASE Gns!Asked(h)
  <2>1. Gns!Notify(h, "connecting") /\ "connecting" \in States /\ h[2] = "server" /\ lib[h] = "none"
    BY <1>5 DEF Gns!Asked, States
  <2> QED BY <1>4, <2>1, GnsNotify
<1>6. CASE Gns!Answered(h)
  <2>1. Gns!Notify(h, "connected") /\ "connected" \in States /\ h[2] = "client" /\ lib[h] = "connecting"
    BY <1>6 DEF Gns!Answered, States
  <2> QED BY <1>4, <2>1, GnsNotify
<1>7. CASE Gns!BreaksDown(h)
  <2>1. Gns!Notify(h, "problem") /\ "problem" \in States /\ lib[h] = "connected"
    BY <1>7 DEF Gns!BreaksDown, States
  <2> QED BY <1>4, <2>1, GnsNotify
<1>8. CASE Gns!NoAnswer(h)
  <2>1. Gns!Notify(h, "problem") /\ "problem" \in States /\ lib[h] = "connecting" /\ h[2] = "client"
    BY <1>8 DEF Gns!NoAnswer, States
  <2> QED BY <1>4, <2>1, GnsNotify
<1>9. CASE Gns!ClosedThere(h)
  <2>1. Gns!Notify(h, "closedByPeer") /\ "closedByPeer" \in States /\ lib[h] = "connected"
    BY <1>9 DEF Gns!ClosedThere, States
  <2> QED BY <1>4, <2>1, GnsNotify
<1> QED BY <1>1, <1>4, <1>5, <1>6, <1>7, <1>8, <1>9

LEMMA GnsListen ==
  ASSUME GnsInv, Gns!Listen
  PROVE  GnsInv' /\ UNCHANGED <<gnsSent, gnsGot>>
<1>1. /\ Server \in alive /\ gnsListening' = TRUE
      /\ UNCHANGED <<alive, owned, owner, gnsPending, polling, lib, callbacks, wire, gnsSent, gnsGot>>
  BY DEF Gns!Listen, Gns!Free
<1>2. GnsTypes' /\ Registered'
  BY <1>1 DEF GnsInv, GnsTypes, Registered
<1>3. PendingFits' /\ LibFits' /\ Travels' /\ GnsFits'
  BY <1>1 DEF GnsInv, PendingFits, LibFits, Travels, GnsFits, Calls
<1> QED BY <1>1, <1>2, <1>3 DEF GnsInv

LEMMA GnsConnect ==
  ASSUME GnsInv, NEW c \in Players, Gns!Connect(c)
  PROVE  GnsInv' /\ UNCHANGED <<gnsSent, gnsGot>>
<1>0. PICK h \in GH : h = <<c, "client">> /\ Gns!EndOf(h) = c /\ h[2] = "client" /\ c \in Gns!Ends
  BY GnsEnds
<1>1. /\ c \in alive /\ lib[h] = "none"
      /\ lib' = [lib EXCEPT ![h] = "connecting"]
      /\ owned' = [owned EXCEPT ![c] = @ \cup {h}]
      /\ owner' = [owner EXCEPT ![h] = c]
      /\ UNCHANGED <<alive, gnsListening, gnsPending, polling, callbacks, wire, gnsSent, gnsGot>>
  BY <1>0 DEF Gns!Connect, Gns!Free
<1>2. /\ lib'[h] = "connecting" /\ \A k \in GH : k # h => lib'[k] = lib[k] /\ owner'[k] = owner[k]
      /\ owner'[h] = c /\ c # None
      /\ owned'[c] = owned[c] \cup {h} /\ \A e \in Gns!Ends : e # c => owned'[e] = owned[e]
  BY <1>0, <1>1, GnsEnds DEF GnsInv, GnsTypes
<1>3. GnsTypes'
  BY <1>0, <1>1 DEF GnsInv, GnsTypes, States
<1>4. Registered'
  BY <1>0, <1>1, <1>2, GnsEnds DEF GnsInv, Registered
<1>5. lib[h] = "none" => gnsPending[h] = <<>> /\ gnsGot[h] = <<>>
  BY DEF GnsInv, LibFits
<1>6. PendingFits'
  BY <1>1, <1>2, <1>5, FitsNothing DEF GnsInv, PendingFits
<1>7. LibFits'
  <2>1. \A s : (Calls(h, s)' <=> Calls(h, s)) /\ \A k \in GH : (Calls(k, s)' <=> Calls(k, s))
    BY <1>1 DEF Calls
  <2>2. ~Calls(h, "connected") /\ ~Calls(h, "closedByPeer") /\ ~Calls(h, "problem")
        /\ ~Calls(h, "connecting")
    BY <1>0, <1>1 DEF GnsInv, LibFits
  <2> QED BY <1>1, <1>2, <1>5, <2>1, <2>2 DEF GnsInv, LibFits
<1>9. Travels' /\ GnsFits'
  BY <1>1 DEF GnsInv, Travels, GnsFits
<1> QED BY <1>1, <1>3, <1>4, <1>6, <1>7, <1>9 DEF GnsInv

LEMMA GnsSend ==
  ASSUME GnsInv, NEW h \in GH, NEW s \in GS, Gns!Send(h, s)
  PROVE  GnsInv' /\ Gns!L!Say
<1> DEFINE k == Gns!Peer(h)
           n == gnsSent[h][s] + 1
<1>0. k \in GH /\ Gns!Peer(k) = h /\ k # h /\ \A j \in GH : j # k => Gns!Peer(j) # h
  BY GnsEnds
<1>1. /\ gnsSent' = [gnsSent EXCEPT ![h][s] = @ + 1]
      /\ wire' = [wire EXCEPT ![k][s] = @ \cup {gnsSent'[h][s]}]
      /\ UNCHANGED <<alive, gnsListening, owned, owner, gnsPending, polling, lib, callbacks, gnsGot>>
  BY DEF Gns!Send, Gns!implVars
<1>2. /\ gnsSent[h] \in [GS -> Nat] /\ gnsSent[h][s] \in Nat /\ n \in Nat /\ n > gnsSent[h][s]
      /\ wire[k] \in [GS -> SUBSET Nat]
  BY <1>0 DEF GnsInv, GnsTypes
<1>3. /\ gnsSent'[h] \in [GS -> Nat] /\ gnsSent'[h][s] = n
      /\ \A r \in GS : r # s => gnsSent'[h][r] = gnsSent[h][r]
      /\ \A j \in GH : j # h => gnsSent'[j] = gnsSent[j]
      /\ gnsSent' \in [GH -> [GS -> Nat]]
  BY <1>1, <1>2 DEF GnsInv, GnsTypes
<1> HIDE DEF n, k
<1>4. /\ wire'[k] \in [GS -> SUBSET Nat] /\ wire'[k][s] = wire[k][s] \cup {n}
      /\ \A r \in GS : r # s => wire'[k][r] = wire[k][r]
      /\ \A j \in GH : j # k => wire'[j] = wire[j]
      /\ wire' \in [GH -> [GS -> SUBSET Nat]]
  BY <1>0, <1>1, <1>2, <1>3 DEF GnsInv, GnsTypes
<1>5. GnsTypes'
  BY <1>1, <1>3, <1>4 DEF GnsInv, GnsTypes
<1>6. Registered' /\ PendingFits' /\ LibFits'
  BY <1>1 DEF GnsInv, Registered, PendingFits, LibFits, Calls
<1>10. ASSUME NEW j \in GH, NEW r \in GS
       PROVE  /\ wire'[j][r] \subseteq 1 .. gnsSent'[Gns!Peer(j)][r]
              /\ r \in Gns!Reliable =>
                   /\ \A m \in 1 .. gnsSent'[Gns!Peer(j)][r] : m \in wire'[j][r] \/ Arrived(gnsGot[j], r, m)
                   /\ \A m \in wire'[j][r] : \A i \in Nat : Arrived(gnsGot[j], r, i) => i < m
  <2>1. /\ wire[j][r] \subseteq 1 .. gnsSent[Gns!Peer(j)][r]
        /\ r \in Gns!Reliable =>
             /\ \A m \in 1 .. gnsSent[Gns!Peer(j)][r] : m \in wire[j][r] \/ Arrived(gnsGot[j], r, m)
             /\ \A m \in wire[j][r] : \A i \in Nat : Arrived(gnsGot[j], r, i) => i < m
    BY DEF GnsInv, Travels
  <2>2. CASE j # k \/ r # s
    <3>1. wire'[j][r] = wire[j][r] /\ gnsSent'[Gns!Peer(j)][r] = gnsSent[Gns!Peer(j)][r]
      BY <1>0, <1>3, <1>4, <2>2, GnsEnds
    <3> QED BY <2>1, <3>1
  <2>3. CASE j = k /\ r = s
    <3>1. wire'[j][r] = wire[j][r] \cup {n} /\ gnsSent'[Gns!Peer(j)][r] = n
          /\ gnsSent[Gns!Peer(j)][r] = n - 1
      <4>1. wire'[j][r] = wire[j][r] \cup {n} /\ gnsSent'[Gns!Peer(j)][r] = n
            /\ gnsSent[Gns!Peer(j)][r] = gnsSent[h][s]
        BY <1>0, <1>3, <1>4, <2>3
      <4>2. gnsSent[h][s] = n - 1
        BY <1>2 DEF n
      <4> QED BY <4>1, <4>2
    <3>2. wire'[j][r] \subseteq 1 .. n
      BY <1>2, <2>1, <3>1
    <3>3. \A m \in 1 .. n : m \in 1 .. n - 1 \/ m = n
      BY <1>2
    <3>4. \A i \in Nat : Arrived(gnsGot[j], r, i) => i < n
      <4>1. FitsIn(FALSE, Gns!Reliable, GS, gnsGot[j], gnsSent[Gns!Peer(j)])
        BY DEF GnsInv, GnsFits
      <4>2. \A i \in DOMAIN gnsGot[j] : gnsGot[j][i].kind = "message" /\ gnsGot[j][i].stream = r
               => gnsGot[j][i].number \in 1 .. n - 1
        BY <3>1, <4>1 DEF FitsIn
      <4> QED BY <1>2, <4>2 DEF Arrived
    <3> QED BY <2>1, <3>1, <3>2, <3>3, <3>4
  <2> QED BY <2>2, <2>3
<1>11. Travels'
  BY <1>1, <1>10 DEF Travels
<1>12. GnsFits'
  <2>1. ASSUME NEW j \in GH PROVE FitsIn(FALSE, Gns!Reliable, GS, gnsGot[j], gnsSent'[Gns!Peer(j)])
    <3>1. FitsIn(FALSE, Gns!Reliable, GS, gnsGot[j], gnsSent[Gns!Peer(j)])
      BY DEF GnsInv, GnsFits
    <3>2. CASE j # k
      BY <1>0, <1>3, <3>1, <3>2, GnsEnds
    <3>3. CASE j = k
      <4>1. PICK most, more : most = gnsSent[h] /\ more = gnsSent'[h]
        OBVIOUS
      <4>2. \A r \in GS : gnsSent[h][r] \in Nat
        BY <1>2
      <4>3. \A r \in GS : gnsSent[h][r] <= gnsSent'[h][r]
        BY <1>2, <1>3, <4>2
      <4>4. FitsIn(FALSE, Gns!Reliable, GS, gnsGot[j], most) /\ Gns!Peer(j) = h
        BY <1>0, <3>1, <3>3, <4>1
      <4> QED BY <1>2, <1>3, <4>1, <4>3, <4>4, FitsLater
    <3> QED BY <3>2, <3>3
  <2> QED BY <1>1, <2>1 DEF GnsFits
<1>13. Gns!L!Say
  BY <1>1 DEF Gns!L!Say, GH, GS
<1> QED BY <1>5, <1>6, <1>11, <1>12, <1>13 DEF GnsInv

LEMMA GnsClose ==
  ASSUME GnsInv, NEW h \in GH, Gns!Close(h)
  PROVE  GnsInv' /\ UNCHANGED <<gnsSent, gnsGot>>
<1> DEFINE e == Gns!EndOf(h)
<1>0. e \in Gns!Ends /\ e # None
  BY GnsEnds
<1>1. /\ h \in owned[e]
      /\ lib' = [j \in GH |-> IF j = h THEN "gone" ELSE lib[j]]
      /\ owner' = [j \in GH |-> IF j = h THEN None ELSE owner[j]]
      /\ owned' = [owned EXCEPT ![e] = @ \ {h}]
      /\ gnsPending' = [gnsPending EXCEPT ![h] = @ \o <<Dis>>]
      /\ UNCHANGED <<alive, gnsListening, polling, callbacks, wire, gnsSent, gnsGot>>
  BY DEF Gns!Close, Gns!Closed, Gns!Forgotten, Gns!Synthesized, Gns!L!Event, Dis, GH
<1>2. /\ lib'[h] = "gone" /\ owner'[h] = None
      /\ \A k \in GH : k # h => lib'[k] = lib[k] /\ owner'[k] = owner[k] /\ gnsPending'[k] = gnsPending[k]
      /\ owned'[e] = owned[e] \ {h} /\ \A d \in Gns!Ends : d # e => owned'[d] = owned[d]
      /\ gnsPending'[h] = gnsPending[h] \o <<Dis>>
  BY <1>0, <1>1 DEF GnsInv, GnsTypes
<1> HIDE DEF e
<1>3. owner[h] # None /\ ~HasEnd(gnsGot[h]) /\ ~HasEnd(gnsPending[h]) /\ lib[h] \notin {"none", "gone"}
      /\ (HasStart(gnsPending[h]) => ~HasStart(gnsGot[h])) /\ gnsPending[h] \in Tellings
      /\ ~Calls(h, "connecting")
  BY <1>1 DEF e, GnsInv, GnsTypes, Registered, PendingFits, LibFits
<1>4. /\ gnsPending'[h] \in Tellings /\ (HasStart(gnsPending'[h]) <=> HasStart(gnsPending[h]))
  <2>1. PICK p, q, t : p = gnsPending[h] /\ q = <<Dis>> /\ t = p \o q
    OBVIOUS
  <2>2. q \in Tellings /\ ~HasStart(q)
    <3>1. q \in Tellings
      BY <2>1 DEF Tellings
    <3>2. q # <<Con>> /\ q # <<Con, Dis>>
      <4>1. Con # Dis
        BY EventKinds
      <4> QED BY <2>1, <4>1
    <3> QED BY <3>1, <3>2, TellingIs
  <2>3. t \in Tellings /\ (HasStart(t) <=> HasStart(p) \/ HasStart(q))
    BY <1>3, <2>1, <2>2, TellingMore
  <2>4. gnsPending'[h] = t
    BY <1>2, <2>1
  <2> QED BY <2>1, <2>2, <2>3, <2>4
<1>5. GnsTypes'
  <2>1. gnsPending' \in [GH -> Tellings]
    BY <1>1, <1>4 DEF GnsInv, GnsTypes
  <2> QED BY <1>1, <2>1 DEF GnsInv, GnsTypes, States
<1>6. Registered'
  BY <1>0, <1>1, <1>2, GnsEnds DEF GnsInv, Registered, e
<1>7. PendingFits'
  BY <1>1, <1>2, <1>3, <1>4 DEF GnsInv, PendingFits
<1>8. LibFits'
  <2>1. \A k, r : Calls(k, r)' <=> Calls(k, r)
    BY <1>1 DEF Calls
  <2> QED BY <1>1, <1>2, <1>3, <2>1 DEF GnsInv, LibFits
<1>10. Travels' /\ GnsFits'
  BY <1>1 DEF GnsInv, Travels, GnsFits
<1> QED BY <1>1, <1>5, <1>6, <1>7, <1>8, <1>10 DEF GnsInv

LEMMA GnsDestroy ==
  ASSUME GnsInv, NEW e \in Gns!Ends, Gns!Destroy(e)
  PROVE  GnsInv' /\ UNCHANGED <<gnsSent, gnsGot>>
<1>1. /\ e \in alive /\ e \notin polling /\ alive' = alive \ {e}
      /\ lib' = [j \in GH |-> IF j \in owned[e] THEN "gone" ELSE lib[j]]
      /\ owner' = [j \in GH |-> IF j \in owned[e] THEN None ELSE owner[j]]
      /\ owned' = [owned EXCEPT ![e] = {}]
      /\ gnsPending' = [h \in GH |-> IF Gns!EndOf(h) = e THEN <<>> ELSE gnsPending[h]]
      /\ gnsListening' = (gnsListening /\ e # Server)
      /\ UNCHANGED <<polling, wire, gnsSent, gnsGot>>
  BY DEF Gns!Destroy, Gns!Free, Gns!Closed, Gns!Forgotten, GH
<1>2. /\ \A k, r : Calls(k, r)' => Calls(k, r)
      /\ \A k \in GH : \A r : Calls(k, r) /\ Gns!EndOf(k) # e /\ alive' # {} => Calls(k, r)'
  <2>1. callbacks' = IF Together /\ alive' # {} THEN callbacks
                     ELSE {cb \in callbacks : ~Together /\ Gns!EndOf(cb.of) # e}
    BY DEF Gns!Destroy
  <2>2. CASE Together /\ alive' # {}
    BY <2>1, <2>2 DEF Calls
  <2>3. CASE ~(Together /\ alive' # {})
    <3>1. callbacks' = {cb \in callbacks : ~Together /\ Gns!EndOf(cb.of) # e}
      BY <2>1, <2>3
    <3>2. \A k, r : [of |-> k, state |-> r].of = k
      OBVIOUS
    <3> QED BY <2>3, <3>1, <3>2 DEF Calls
  <2> QED BY <2>2, <2>3
<1>3. \A h \in GH : /\ h \in owned[e] => Gns!EndOf(h) = e
                    /\ (h \in owned[e] <=> owner[h] # None /\ Gns!EndOf(h) = e)
                    /\ lib'[h] = (IF h \in owned[e] THEN "gone" ELSE lib[h])
                    /\ owner'[h] = (IF h \in owned[e] THEN None ELSE owner[h])
                    /\ gnsPending'[h] = (IF Gns!EndOf(h) = e THEN <<>> ELSE gnsPending[h])
  BY <1>1, GnsEnds DEF GnsInv, Registered
<1>4. GnsTypes'
  <2>1. gnsPending' \in [GH -> Tellings]
    BY <1>1 DEF GnsInv, GnsTypes, Tellings
  <2>2. owner' \in [GH -> Gns!Ends \cup {None}] /\ lib' \in [GH -> States]
    BY <1>1 DEF GnsInv, GnsTypes, States
  <2>3. owned' \in [Gns!Ends -> SUBSET GH]
    BY <1>1 DEF GnsInv, GnsTypes
  <2> QED BY <1>1, <2>1, <2>2, <2>3 DEF GnsInv, GnsTypes
<1>5. Registered'
  <2>1. owned'[e] = {} /\ \A d \in Gns!Ends : d # e => owned'[d] = owned[d]
    BY <1>1 DEF GnsInv, GnsTypes
  <2>2. \A d \in Gns!Ends : \A h \in owned'[d] : Gns!EndOf(h) = d
    BY <2>1 DEF GnsInv, Registered
  <2>3. ASSUME NEW h \in GH
        PROVE  /\ owner'[h] \in {None, Gns!EndOf(h)}
               /\ (owner'[h] # None) <=> (h \in owned'[Gns!EndOf(h)])
    BY <1>3, <2>1, GnsEnds DEF GnsInv, Registered
  <2>4. \A d \in Gns!Ends : d \notin alive' => owned'[d] = {}
    BY <1>1, <2>1 DEF GnsInv, Registered
  <2>5. gnsListening' => Server \in alive'
    BY <1>1 DEF GnsInv, Registered
  <2> QED BY <2>2, <2>3, <2>4, <2>5 DEF Registered
<1>6. PendingFits'
  BY <1>1, <1>3, FitsNothing DEF GnsInv, PendingFits
<1>7. \A h \in GH : owner'[h] # None => owner[h] # None /\ Gns!EndOf(h) # e /\ alive' # {}
  BY <1>1, <1>3, GnsEnds DEF GnsInv, Registered
<1>8. LibFits'
  <2>1. ASSUME NEW h \in GH, lib'[h] \in {"none", "connecting"}
        PROVE  /\ gnsGot'[h] = <<>> /\ gnsPending'[h] = <<>>
               /\ ~Calls(h, "connected")' /\ ~Calls(h, "closedByPeer")' /\ ~Calls(h, "problem")'
    BY <1>1, <1>2, <1>3, <2>1 DEF GnsInv, LibFits
  <2>2. ASSUME NEW h \in GH, Calls(h, "connecting")'
        PROVE  lib'[h] = "connecting" /\ h[2] = "server" /\ owner'[h] = None
    BY <1>1, <1>2, <1>3, <2>2 DEF GnsInv, LibFits
  <2>3. ASSUME NEW h \in GH, owner'[h] # None
        PROVE  /\ lib'[h] \notin {"none", "gone"}
               /\ Calls(h, "connected")' => ~HasStart(gnsGot'[h]) /\ ~HasStart(gnsPending'[h])
    <3>1. owner[h] # None /\ Gns!EndOf(h) # e /\ alive' # {} /\ lib'[h] = lib[h]
          /\ gnsPending'[h] = gnsPending[h]
      BY <1>3, <1>7, <2>3
    <3> QED BY <1>1, <1>2, <3>1 DEF GnsInv, LibFits
  <2> QED BY <2>1, <2>2, <2>3 DEF LibFits
<1>10. Travels' /\ GnsFits'
  BY <1>1 DEF GnsInv, Travels, GnsFits
<1> QED BY <1>1, <1>4, <1>5, <1>6, <1>8, <1>10 DEF GnsInv

LEMMA GnsPolled ==
  ASSUME GnsInv, NEW e \in Gns!Ends, Gns!Polled(e)
  PROVE  GnsInv' /\ UNCHANGED <<gnsSent, gnsGot>>
<1>1. /\ polling' \subseteq polling
      /\ UNCHANGED <<alive, gnsListening, owned, owner, gnsPending, lib, callbacks, wire, gnsSent, gnsGot>>
  BY DEF Gns!Polled
<1>2. GnsTypes'
  BY <1>1 DEF GnsInv, GnsTypes
<1>3. Registered' /\ PendingFits' /\ LibFits' /\ Travels' /\ GnsFits'
  BY <1>1 DEF GnsInv, Registered, PendingFits, LibFits, Travels, GnsFits, Calls
<1> QED BY <1>1, <1>2, <1>3 DEF GnsInv

\* Fits, as the promise says it.
LEMMA GnsFitsLink ==
  ASSUME NEW w, NEW most
  PROVE  FitsIn(FALSE, Gns!Reliable, GS, w, most) <=> Gns!L!Fits(w, most)
BY DEF FitsIn, Gns!L!Fits, Gns!L!InOrder, Gns!L!Of, GS

LEMMA GnsReceive ==
  ASSUME GnsInv, NEW h \in GH, NEW s \in GS, Gns!Receive(h, s)
  PROVE  GnsInv' /\ Gns!L!Hand
<1>1. PICK n \in wire[h][s] :
        /\ h \in owned[Gns!EndOf(h)] /\ lib[h] \in {"connected", "closedByPeer"}
        /\ s \in Gns!Reliable => \A m \in wire[h][s] : n <= m
        /\ gnsGot' = [gnsGot EXCEPT ![h] = Append(@, Msg(s, n))]
        /\ wire' = [wire EXCEPT ![h][s] = @ \ {n}]
        /\ UNCHANGED <<alive, gnsListening, owned, owner, gnsPending, polling, lib, callbacks, gnsSent>>
  BY DEF Gns!Receive, Gns!Readable, Gns!implVars, Gns!L!Message, Msg
<1>2. owner[h] # None
  BY <1>1 DEF GnsInv, Registered
<1>3. ~HasEnd(gnsGot[h])
  BY <1>2 DEF GnsInv, PendingFits
<1>4. /\ gnsGot[h] \in Seq(Events) /\ wire[h] \in [GS -> SUBSET Nat] /\ n \in Nat /\ s \in Lanes
      /\ n \in 1 .. gnsSent[Gns!Peer(h)][s] /\ gnsSent[Gns!Peer(h)] \in [GS -> Nat]
      /\ FitsIn(FALSE, Gns!Reliable, GS, gnsGot[h], gnsSent[Gns!Peer(h)])
  <2>1. /\ Gns!Peer(h) \in GH /\ s \in Lanes
        /\ gnsGot[h] \in Seq(Events) /\ wire[h] \in [GS -> SUBSET Nat]
        /\ gnsSent[Gns!Peer(h)] \in [GS -> Nat]
    BY GnsEnds DEF GnsInv, GnsTypes
  <2>2. wire[h][s] \subseteq 1 .. gnsSent[Gns!Peer(h)][s]
    BY DEF GnsInv, Travels
  <2>3. FitsIn(FALSE, Gns!Reliable, GS, gnsGot[h], gnsSent[Gns!Peer(h)])
    BY DEF GnsInv, GnsFits
  <2> QED BY <1>1, <2>1, <2>2, <2>3
<1>5. Msg(s, n) \in Events /\ Msg(s, n).kind = "message" /\ Msg(s, n).stream = s /\ Msg(s, n).number = n
  BY <1>4, EventKinds
<1>6. PICK t : t = Append(gnsGot[h], Msg(s, n))
  OBVIOUS
<1>7. /\ t \in Seq(Events)
      /\ \A r, m : Arrived(t, r, m) <=> (Arrived(gnsGot[h], r, m) \/ (r = s /\ m = n))
      /\ ~HasEnd(t) /\ (HasStart(t) <=> HasStart(gnsGot[h])) /\ t # <<>> /\ Gns!L!Continues(t, gnsGot[h])
  <2>1. PICK w \in Seq(Events), e \in Events : w = gnsGot[h] /\ e = Msg(s, n)
    BY <1>4, <1>5
  <2>2. t = Append(w, e)
    BY <1>6, <2>1
  <2>3. t \in Seq(Events) /\ t # <<>>
    BY <2>2, OneMore
  <2>4. /\ \A r, m : Arrived(t, r, m) <=> (Arrived(w, r, m) \/ (e.kind = "message" /\ e.stream = r /\ e.number = m))
        /\ (HasEnd(t) <=> (HasEnd(w) \/ e.kind = "disconnected"))
        /\ (HasStart(t) <=> (HasStart(w) \/ e.kind = "connected"))
        /\ Gns!L!Continues(t, w)
    BY <2>2, OneMoreIs
  <2> QED BY <1>3, <1>5, <2>1, <2>3, <2>4
<1>8. /\ gnsGot'[h] = t /\ \A k \in GH : k # h => gnsGot'[k] = gnsGot[k]
      /\ gnsGot' \in [GH -> Seq(Events)]
      /\ wire'[h][s] = wire[h][s] \ {n} /\ \A r \in GS : r # s => wire'[h][r] = wire[h][r]
      /\ \A k \in GH : k # h => wire'[k] = wire[k]
      /\ wire' \in [GH -> [GS -> SUBSET Nat]]
  <2>1. gnsGot' = [gnsGot EXCEPT ![h] = t]
    BY <1>1, <1>6
  <2> QED BY <1>1, <1>4, <1>7, <2>1 DEF GnsInv, GnsTypes
<1>9. GnsTypes'
  BY <1>1, <1>8 DEF GnsInv, GnsTypes
<1>10. Registered'
  BY <1>1 DEF GnsInv, Registered
<1>11. PendingFits'
  BY <1>1, <1>7, <1>8 DEF GnsInv, PendingFits
<1>12. LibFits'
  <2>1. \A k, r : Calls(k, r)' <=> Calls(k, r)
    BY <1>1 DEF Calls
  <2> QED BY <1>1, <1>7, <1>8, <2>1 DEF GnsInv, LibFits
<1>15. ASSUME NEW j \in GH, NEW r \in GS
       PROVE  /\ wire'[j][r] \subseteq 1 .. gnsSent[Gns!Peer(j)][r]
              /\ r \in Gns!Reliable =>
                   /\ \A m \in 1 .. gnsSent[Gns!Peer(j)][r] : m \in wire'[j][r] \/ Arrived(gnsGot'[j], r, m)
                   /\ \A m \in wire'[j][r] : \A i \in Nat : Arrived(gnsGot'[j], r, i) => i < m
  <2>1. /\ wire[j][r] \subseteq 1 .. gnsSent[Gns!Peer(j)][r]
        /\ r \in Gns!Reliable =>
             /\ \A m \in 1 .. gnsSent[Gns!Peer(j)][r] : m \in wire[j][r] \/ Arrived(gnsGot[j], r, m)
             /\ \A m \in wire[j][r] : \A i \in Nat : Arrived(gnsGot[j], r, i) => i < m
    BY DEF GnsInv, Travels
  <2>2. CASE j # h
    BY <1>8, <2>1, <2>2
  <2>3. CASE j = h /\ r # s
    BY <1>7, <1>8, <2>1, <2>3
  <2>4. CASE j = h /\ r = s
    <3>1. wire'[j][r] = wire[j][r] \ {n} /\ gnsGot'[j] = t
          /\ \A m : Arrived(t, r, m) <=> (Arrived(gnsGot[j], r, m) \/ m = n)
      BY <1>7, <1>8, <2>4
    <3>2. r \in Gns!Reliable => \A m \in wire'[j][r] : m \in Nat /\ n < m
      BY <1>1, <1>4, <2>4, <3>1
    <3> QED BY <2>1, <3>1, <3>2
  <2> QED BY <2>2, <2>3, <2>4
<1>16. Travels'
  BY <1>1, <1>15 DEF Travels
<1>17. FitsIn(FALSE, Gns!Reliable, GS, t, gnsSent[Gns!Peer(h)])
  <2>1. s \in Gns!Reliable => /\ \A m \in 1 .. n - 1 : Arrived(gnsGot[h], s, m)
                              /\ \A m \in Int : Arrived(gnsGot[h], s, m) => m < n
    <3>1. ASSUME s \in Gns!Reliable, NEW m \in 1 .. n - 1 PROVE Arrived(gnsGot[h], s, m)
      <4>1. m \in 1 .. gnsSent[Gns!Peer(h)][s] /\ m \notin wire[h][s]
        BY <1>1, <1>4, <3>1
      <4> QED BY <3>1, <4>1 DEF GnsInv, Travels
    <3>2. ASSUME s \in Gns!Reliable, NEW m \in Int, Arrived(gnsGot[h], s, m) PROVE m < n
      <4>1. m \in 1 .. gnsSent[Gns!Peer(h)][s]
        <5>1. PICK i \in DOMAIN gnsGot[h] : /\ gnsGot[h][i].kind = "message"
                                           /\ gnsGot[h][i].stream = s /\ gnsGot[h][i].number = m
          BY <3>2 DEF Arrived
        <5>2. gnsGot[h][i].number \in 1 .. gnsSent[Gns!Peer(h)][s]
          BY <1>4, <5>1 DEF FitsIn
        <5> QED BY <5>1, <5>2
      <4>2. m \in Nat
        BY <1>4, <4>1
      <4> QED BY <1>1, <3>2, <4>2 DEF GnsInv, Travels
    <3> QED BY <3>1, <3>2
  <2>2. PICK w, most : w \in Seq(Events) /\ w = gnsGot[h] /\ most = gnsSent[Gns!Peer(h)]
    BY <1>4
  <2>3. t = Append(w, Msg(s, n)) /\ FitsIn(FALSE, Gns!Reliable, GS, w, most) /\ ~HasEnd(w)
        /\ n \in 1 .. most[s]
        /\ (s \in Gns!Reliable => /\ \A m \in 1 .. n - 1 : Arrived(w, s, m)
                                  /\ \A m \in Int : Arrived(w, s, m) => m < n)
    BY <1>3, <1>4, <1>6, <2>1, <2>2
  <2>4. FitsIn(FALSE, Gns!Reliable, GS, t, most)
    BY <1>4, <2>2, <2>3, FitsMessage, GnsEnds
  <2> QED BY <2>2, <2>4
<1>18. \A j \in GH : FitsIn(FALSE, Gns!Reliable, GS, gnsGot'[j], gnsSent[Gns!Peer(j)])
  BY <1>8, <1>17 DEF GnsInv, GnsFits
<1>19. GnsFits'
  BY <1>1, <1>18 DEF GnsFits
<1>20. \A j \in GH : Gns!L!Continues(gnsGot'[j], gnsGot[j])
  <2>1. \A w : Gns!L!Continues(w, w)
    BY DEF Gns!L!Continues
  <2> QED BY <1>7, <1>8, <2>1
<1>21. Gns!L!Hand
  BY <1>1, <1>18, <1>20, GnsFitsLink DEF Gns!L!Hand, GH
<1> QED BY <1>9, <1>10, <1>11, <1>12, <1>16, <1>19, <1>21 DEF GnsInv

\* What a poll's callbacks tell each end.
Here(e, h) == Together \/ Gns!EndOf(h) = e
HearsStart(e, h) == Calls(h, "connected") /\ Here(e, h) /\ owner[h] # None
HearsEnd(e, h) == (Calls(h, "closedByPeer") \/ Calls(h, "problem")) /\ Here(e, h) /\ owner[h] # None

LEMMA StatusIs ==
  ASSUME NEW e \in Gns!Ends, NEW h \in GH
  PROVE  /\ Gns!Status(e, h) \in Tellings
         /\ HasStart(Gns!Status(e, h)) => HearsStart(e, h)
         /\ HearsStart(e, h) => HasStart(Gns!Status(e, h))
         /\ HasEnd(Gns!Status(e, h)) <=> HearsEnd(e, h)
         /\ Gns!Status(e, h) # <<>> => HearsStart(e, h) \/ HearsEnd(e, h)
         /\ (h \in Gns!Ended(e) <=> HearsEnd(e, h))
<1>1. (h \in Gns!Told(e) <=> HearsStart(e, h)) /\ (h \in Gns!Ended(e) <=> HearsEnd(e, h))
  BY DEF Gns!Told, Gns!Ended, Gns!Ours, Gns!Has, HearsStart, HearsEnd, Here, Calls, GH
<1>2. PICK p, q, t : /\ p = (IF h \in Gns!Told(e) THEN <<Con>> ELSE <<>>)
                     /\ q = (IF h \in Gns!Ended(e) THEN <<Dis>> ELSE <<>>)
                     /\ t = p \o q
  OBVIOUS
<1>3. Gns!Status(e, h) = t
  BY <1>2 DEF Gns!Status, Gns!L!Event, Con, Dis
<1>4. <<Con>> \in Tellings /\ <<Dis>> \in Tellings /\ <<>> \in Tellings /\ Con # Dis
  BY EventKinds DEF Tellings
<1>5. /\ HasStart(<<Con>>) /\ ~HasEnd(<<Con>>) /\ ~HasStart(<<Dis>>) /\ HasEnd(<<Dis>>)
      /\ ~HasStart(<<>>) /\ ~HasEnd(<<>>)
  <2>1. ~HasEnd(<<Con>>) /\ HasStart(<<Con>>) /\ ~HasStart(<<>>) /\ ~HasEnd(<<>>)
    <3>1. <<Con>> # <<Dis>> /\ <<Con>> # <<Con, Dis>>
      BY <1>4
    <3> QED BY <1>4, <3>1, TellingIs, FitsNothing
  <2>2. PICK d : d = <<Dis>>
    OBVIOUS
  <2>3. d \in Tellings /\ d # <<Con>> /\ d # <<Con, Dis>>
    BY <1>4, <2>2
  <2>4. ~HasStart(d) /\ HasEnd(d)
    BY <2>2, <2>3, TellingIs
  <2> QED BY <2>1, <2>2, <2>4
<1>6. /\ p \in Tellings /\ q \in Tellings /\ ~HasStart(q) /\ ~HasEnd(p)
      /\ (HasStart(p) <=> HearsStart(e, h)) /\ (HasEnd(q) <=> HearsEnd(e, h))
      /\ (p # <<>> => HearsStart(e, h)) /\ (q # <<>> => HearsEnd(e, h))
  BY <1>1, <1>2, <1>4, <1>5
<1>7. /\ t \in Tellings /\ (HasStart(t) <=> HasStart(p) \/ HasStart(q)) /\ (HasEnd(t) <=> HasEnd(p) \/ HasEnd(q))
      /\ (t = <<>> <=> p = <<>> /\ q = <<>>)
  BY <1>2, <1>6, TellingMore
<1> QED BY <1>1, <1>3, <1>6, <1>7

LEMMA GnsRunCallbacks ==
  ASSUME GnsInv, NEW e \in Gns!Ends, Gns!RunCallbacks(e)
  PROVE  GnsInv' /\ Gns!L!Hand
<1>1. PICK admitted \in {{}, IF gnsListening THEN Gns!Has(e, "connecting") ELSE {}} :
        /\ lib' = [h \in GH |-> IF h \in admitted THEN "connected"
                                ELSE IF h \in Gns!Has(e, "connecting") \cup Gns!Ended(e) THEN "gone"
                                ELSE lib[h]]
        /\ owner' = [h \in GH |-> IF h \in admitted THEN Server
                                  ELSE IF h \in Gns!Ended(e) THEN None ELSE owner[h]]
        /\ owned' = [d \in Gns!Ends |-> (owned[d] \ Gns!Ended(e))
                                          \cup (IF d = Server THEN admitted ELSE {})]
        /\ callbacks' = {cb \in callbacks : ~Together /\ Gns!EndOf(cb.of) # e}
                          \cup {[of |-> h, state |-> "connected"] : h \in admitted}
  BY DEF Gns!RunCallbacks, GH
<1>2. /\ gnsGot' = [h \in GH |-> IF Gns!EndOf(h) = e THEN gnsGot[h] \o (gnsPending[h] \o Gns!Status(e, h))
                                 ELSE gnsGot[h]]
      /\ gnsPending' = [h \in GH |-> IF Gns!EndOf(h) = e THEN <<>>
                                     ELSE gnsPending[h] \o Gns!Status(e, h)]
      /\ e \in alive /\ polling' = polling \cup {e}
      /\ UNCHANGED <<alive, gnsListening, wire, gnsSent>>
  BY DEF Gns!RunCallbacks, Gns!Free, GH
<1>3. /\ admitted \subseteq GH
      /\ \A h \in GH : h \in admitted =>
           /\ Calls(h, "connecting") /\ Here(e, h) /\ gnsListening
           /\ lib[h] = "connecting" /\ h[2] = "server" /\ owner[h] = None
           /\ gnsGot[h] = <<>> /\ gnsPending[h] = <<>> /\ ~Calls(h, "connected")
           /\ Gns!EndOf(h) = Server
  <2>1. admitted \subseteq Gns!Has(e, "connecting") /\ (admitted # {} => gnsListening)
    BY <1>1
  <2>2. \A h : h \in Gns!Has(e, "connecting") <=> h \in GH /\ Calls(h, "connecting") /\ Here(e, h)
    BY DEF Gns!Has, Calls, Here, GH
  <2> QED BY <2>1, <2>2, GnsEnds DEF GnsInv, LibFits
<1>4. \A h \in GH :
        /\ h \in admitted => lib'[h] = "connected" /\ owner'[h] = Server
        /\ h \notin admitted /\ Calls(h, "connecting") /\ Here(e, h) => lib'[h] = "gone"
        /\ h \notin admitted /\ HearsEnd(e, h) => lib'[h] = "gone" /\ owner'[h] = None
        /\ h \notin admitted /\ ~(Calls(h, "connecting") /\ Here(e, h)) /\ ~HearsEnd(e, h) =>
             lib'[h] = lib[h]
        /\ h \notin admitted /\ ~HearsEnd(e, h) => owner'[h] = owner[h]
  <2>1. \A h \in GH : h \in Gns!Has(e, "connecting") <=> Calls(h, "connecting") /\ Here(e, h)
    BY DEF Gns!Has, Calls, Here, GH
  <2>2. \A h \in GH : h \in Gns!Ended(e) <=> HearsEnd(e, h)
    BY StatusIs
  <2> QED BY <1>1, <2>1, <2>2
<1>5. \A h, r : Calls(h, r)' <=> \/ Calls(h, r) /\ ~Together /\ Gns!EndOf(h) # e
                                 \/ h \in admitted /\ r = "connected"
  <2>1. \A h, r : [of |-> h, state |-> r].of = h /\ [of |-> h, state |-> r].state = r
    OBVIOUS
  <2> QED BY <1>1, <2>1 DEF Calls
<1> DEFINE told(h) == gnsPending[h] \o Gns!Status(e, h)
<1>6. ASSUME NEW h \in GH
      PROVE  /\ told(h) \in Tellings
             /\ HasStart(told(h)) <=> HasStart(gnsPending[h]) \/ HearsStart(e, h)
             /\ HasEnd(told(h)) <=> HasEnd(gnsPending[h]) \/ HearsEnd(e, h)
             /\ told(h) # <<>> => gnsPending[h] # <<>> \/ HearsStart(e, h) \/ HearsEnd(e, h)
             /\ HasStart(told(h)) => ~HasStart(gnsGot[h])
             /\ told(h) # <<>> => ~HasEnd(gnsGot[h])
             /\ HearsStart(e, h) => ~HasStart(gnsGot[h]) /\ gnsPending[h] = <<>>
  <2>1. PICK p, q, t : p = gnsPending[h] /\ q = Gns!Status(e, h) /\ t = p \o q
    OBVIOUS
  <2>2. HearsStart(e, h) => ~HasStart(gnsGot[h]) /\ gnsPending[h] = <<>>
    <3>1. HearsStart(e, h) => /\ ~HasStart(gnsGot[h]) /\ ~HasStart(gnsPending[h])
                              /\ ~HasEnd(gnsPending[h])
      BY DEF GnsInv, LibFits, PendingFits, HearsStart
    <3>2. gnsPending[h] \in Tellings
      BY DEF GnsInv, GnsTypes
    <3> QED BY <3>1, <3>2, TellingIs DEF Tellings
  <2>3. owner[h] # None => ~HasEnd(p) /\ ~HasEnd(gnsGot[h])
    BY <2>1 DEF GnsInv, PendingFits
  <2>4. /\ p \in Tellings /\ (HasStart(p) => ~HasStart(gnsGot[h])) /\ (p # <<>> => ~HasEnd(gnsGot[h]))
    BY <2>1 DEF GnsInv, GnsTypes, PendingFits
  <2>5. /\ q \in Tellings /\ (HasStart(q) <=> HearsStart(e, h)) /\ (HasEnd(q) <=> HearsEnd(e, h))
        /\ (q # <<>> => HearsStart(e, h) \/ HearsEnd(e, h))
    BY <2>1, StatusIs
  <2>6. HearsStart(e, h) \/ HearsEnd(e, h) => owner[h] # None
    BY DEF HearsStart, HearsEnd
  <2>7. /\ t \in Tellings
        /\ (HasStart(t) <=> HasStart(p) \/ HasStart(q))
        /\ (HasEnd(t) <=> HasEnd(p) \/ HasEnd(q))
        /\ (t = <<>> <=> p = <<>> /\ q = <<>>)
    <3>1. (HasStart(q) => p = <<>>) /\ (q # <<>> => ~HasEnd(p))
      BY <2>1, <2>2, <2>3, <2>5, <2>6
    <3> QED BY <2>1, <2>4, <2>5, <3>1, TellingMore, ZenonT(60)
  <2>8. told(h) = t
    BY <2>1
  <2> QED BY <2>1, <2>2, <2>3, <2>4, <2>5, <2>6, <2>7, <2>8
<1> HIDE DEF told
<1>7. ASSUME NEW h \in GH
      PROVE  /\ gnsGot[h] \o told(h) \in Seq(Events)
             /\ FitsIn(FALSE, Gns!Reliable, GS, gnsGot[h] \o told(h), gnsSent[Gns!Peer(h)])
             /\ HasEnd(gnsGot[h] \o told(h)) <=> HasEnd(gnsGot[h]) \/ HasEnd(told(h))
             /\ HasStart(gnsGot[h] \o told(h)) <=> HasStart(gnsGot[h]) \/ HasStart(told(h))
             /\ gnsGot[h] \o told(h) = <<>> <=> gnsGot[h] = <<>> /\ told(h) = <<>>
             /\ \A s, n : Arrived(gnsGot[h] \o told(h), s, n) <=> Arrived(gnsGot[h], s, n)
             /\ Gns!L!Continues(gnsGot[h] \o told(h), gnsGot[h])
  <2>1. PICK w, p, t, most : /\ w = gnsGot[h] /\ p = told(h) /\ t = w \o p
                             /\ most = gnsSent[Gns!Peer(h)]
    OBVIOUS
  <2>2. /\ w \in Seq(Events) /\ FitsIn(FALSE, Gns!Reliable, GS, w, most) /\ p \in Tellings
        /\ (HasStart(p) => ~HasStart(w)) /\ (p # <<>> => ~HasEnd(w))
    BY <1>6, <2>1 DEF GnsInv, GnsTypes, GnsFits
  <2>3. /\ FitsIn(FALSE, Gns!Reliable, GS, t, most) /\ t \in Seq(Events)
        /\ (HasEnd(t) <=> HasEnd(w) \/ HasEnd(p))
        /\ (HasStart(t) <=> HasStart(w) \/ HasStart(p))
        /\ (t = <<>> <=> w = <<>> /\ p = <<>>)
        /\ \A s, n : Arrived(t, s, n) <=> Arrived(w, s, n)
        /\ Gns!L!Continues(t, w)
    <3>1. t = w \o p
      BY <2>1
    <3> QED BY <2>2, <3>1, HandTelling, ZenonT(60)
  <2> QED BY <2>1, <2>3
<1>8. \A h \in GH : /\ Gns!EndOf(h) = e => gnsGot'[h] = gnsGot[h] \o told(h) /\ gnsPending'[h] = <<>>
                    /\ Gns!EndOf(h) # e => gnsGot'[h] = gnsGot[h] /\ gnsPending'[h] = told(h)
  BY <1>2 DEF told
<1>9. GnsTypes'
  <2>1. gnsGot' \in [GH -> Seq(Events)]
    <3>1. \A h \in GH : gnsGot'[h] \in Seq(Events)
      BY <1>7, <1>8 DEF GnsInv, GnsTypes
    <3> QED BY <1>2, <3>1
  <2>2. gnsPending' \in [GH -> Tellings]
    <3>1. \A h \in GH : gnsPending'[h] \in Tellings
      BY <1>6, <1>8 DEF Tellings
    <3> QED BY <1>2, <3>1
  <2>3. lib' \in [GH -> States] /\ owner' \in [GH -> Gns!Ends \cup {None}]
        /\ owned' \in [Gns!Ends -> SUBSET GH]
    BY <1>1, <1>3, GnsEnds DEF GnsInv, GnsTypes, States
  <2> QED BY <1>2, <2>1, <2>2, <2>3 DEF GnsInv, GnsTypes
<1>10. Registered'
  <2>1. ASSUME NEW d \in Gns!Ends, NEW h
        PROVE  h \in owned'[d] <=> \/ h \in owned[d] /\ ~HearsEnd(e, h) /\ h \in GH
                                   \/ d = Server /\ h \in admitted
    <3>1. owned[d] \subseteq GH
      BY DEF GnsInv, GnsTypes
    <3>2. h \in GH => (h \in Gns!Ended(e) <=> HearsEnd(e, h))
      BY StatusIs
    <3>3. owned'[d] = (owned[d] \ Gns!Ended(e)) \cup (IF d = Server THEN admitted ELSE {})
      BY <1>1
    <3> QED BY <3>1, <3>2, <3>3
  <2>2. \A d \in Gns!Ends : \A h \in owned'[d] : Gns!EndOf(h) = d
    BY <1>3, <2>1 DEF GnsInv, Registered
  <2>3. ASSUME NEW h \in GH
        PROVE  /\ owner'[h] \in {None, Gns!EndOf(h)}
               /\ (owner'[h] # None) <=> (h \in owned'[Gns!EndOf(h)])
    <3>1. CASE h \in admitted
      BY <1>3, <1>4, <2>1, <3>1, GnsEnds
    <3>2. CASE h \notin admitted
      <4>1. Gns!EndOf(h) \in Gns!Ends
        BY GnsEnds
      <4>2. h \in owned'[Gns!EndOf(h)] <=> h \in owned[Gns!EndOf(h)] /\ ~HearsEnd(e, h)
        BY <2>1, <3>2, <4>1
      <4>3. owner'[h] = (IF HearsEnd(e, h) THEN None ELSE owner[h])
        BY <1>4, <3>2
      <4> QED BY <4>2, <4>3 DEF GnsInv, Registered
    <3> QED BY <3>1, <3>2
  <2>4. \A d \in Gns!Ends : d \notin alive => owned'[d] = {}
    <3>1. ASSUME NEW d \in Gns!Ends, d \notin alive, NEW h \in owned'[d] PROVE FALSE
      BY <1>3, <2>1, <3>1 DEF GnsInv, Registered
    <3> QED BY <3>1
  <2> QED BY <1>2, <2>2, <2>3, <2>4 DEF GnsInv, Registered
<1>11. ASSUME NEW h \in GH, owner'[h] # None
       PROVE  ~HearsEnd(e, h) /\ (h \in admitted \/ owner[h] # None)
  <2>1. ~HearsEnd(e, h)
    BY <1>3, <1>4, <1>11 DEF HearsEnd
  <2> QED BY <1>4, <1>11, <2>1
<1>12. ASSUME NEW h \in GH, h \in admitted
       PROVE  /\ ~HearsStart(e, h) /\ ~HearsEnd(e, h) /\ told(h) = <<>>
              /\ gnsGot'[h] = <<>> /\ gnsPending'[h] = <<>>
  BY <1>3, <1>6, <1>7, <1>8, <1>12 DEF HearsStart, HearsEnd
<1>13. PendingFits'
  <2>1. ASSUME NEW h \in GH
        PROVE  /\ HasStart(gnsPending'[h]) => ~HasStart(gnsGot'[h])
               /\ gnsPending'[h] # <<>> => ~HasEnd(gnsGot'[h])
    BY <1>6, <1>8, FitsNothing
  <2>2. ASSUME NEW h \in GH, owner'[h] # None
        PROVE  ~HasEnd(gnsGot'[h]) /\ ~HasEnd(gnsPending'[h])
    <3>1. CASE h \in admitted
      BY <1>12, <3>1, FitsNothing
    <3>2. CASE h \notin admitted
      <4>1. ~HasEnd(gnsGot[h]) /\ ~HasEnd(gnsPending[h]) /\ ~HearsEnd(e, h)
        BY <1>11, <2>2, <3>2 DEF GnsInv, PendingFits
      <4>2. ~HasEnd(told(h)) /\ ~HasEnd(gnsGot[h] \o told(h))
        BY <1>6, <1>7, <4>1
      <4> QED BY <1>8, <4>1, <4>2, FitsNothing
    <3> QED BY <3>1, <3>2
  <2> QED BY <2>1, <2>2 DEF PendingFits
<1>14. LibFits'
  <2>1. ASSUME NEW h \in GH, lib'[h] \in {"none", "connecting"}
        PROVE  /\ gnsGot'[h] = <<>> /\ gnsPending'[h] = <<>>
               /\ ~Calls(h, "connected")' /\ ~Calls(h, "closedByPeer")' /\ ~Calls(h, "problem")'
    <3>1. h \notin admitted /\ ~HearsEnd(e, h) /\ lib[h] = lib'[h]
      BY <1>4, <2>1
    <3>2. /\ gnsGot[h] = <<>> /\ gnsPending[h] = <<>>
          /\ ~Calls(h, "connected") /\ ~Calls(h, "closedByPeer") /\ ~Calls(h, "problem")
      BY <2>1, <3>1 DEF GnsInv, LibFits
    <3>3. told(h) = <<>>
      BY <1>6, <3>1, <3>2 DEF HearsStart
    <3> QED BY <1>5, <1>7, <1>8, <3>1, <3>2, <3>3
  <2>2. ASSUME NEW h \in GH, Calls(h, "connecting")'
        PROVE  lib'[h] = "connecting" /\ h[2] = "server" /\ owner'[h] = None
    <3>1. Calls(h, "connecting") /\ ~Here(e, h)
      BY <1>5, <2>2 DEF Here
    <3>2. h \notin admitted /\ ~HearsEnd(e, h)
      BY <1>3, <3>1 DEF HearsEnd
    <3> QED BY <1>4, <3>1, <3>2 DEF GnsInv, LibFits
  <2>3. ASSUME NEW h \in GH, owner'[h] # None
        PROVE  /\ lib'[h] \notin {"none", "gone"}
               /\ Calls(h, "connected")' => ~HasStart(gnsGot'[h]) /\ ~HasStart(gnsPending'[h])
    <3>1. CASE h \in admitted
      BY <1>4, <1>12, <3>1, FitsNothing
    <3>2. CASE h \notin admitted
      <4>1. owner[h] # None /\ ~HearsEnd(e, h) /\ ~Calls(h, "connecting")
        BY <1>11, <2>3, <3>2 DEF GnsInv, LibFits
      <4>2. lib'[h] = lib[h]
        BY <1>4, <3>2, <4>1
      <4>3. /\ lib[h] \notin {"none", "gone"}
            /\ Calls(h, "connected") => ~HasStart(gnsGot[h]) /\ ~HasStart(gnsPending[h])
        BY <4>1 DEF GnsInv, LibFits
      <4>4. ASSUME Calls(h, "connected")' PROVE ~HasStart(gnsGot'[h]) /\ ~HasStart(gnsPending'[h])
        <5>1. Calls(h, "connected") /\ ~Here(e, h) /\ Gns!EndOf(h) # e
          BY <1>5, <3>2, <4>4 DEF Here
        <5>2. gnsGot'[h] = gnsGot[h] /\ gnsPending'[h] = told(h) /\ ~HearsStart(e, h)
          BY <1>8, <5>1 DEF HearsStart
        <5> QED BY <1>6, <4>3, <5>1, <5>2
      <4> QED BY <4>2, <4>3, <4>4
    <3> QED BY <3>1, <3>2
  <2> QED BY <2>1, <2>2, <2>3 DEF LibFits
<1>17. Travels'
  <2>1. \A h \in GH : \A s, n : Arrived(gnsGot'[h], s, n) <=> Arrived(gnsGot[h], s, n)
    BY <1>7, <1>8
  <2> QED BY <1>2, <2>1 DEF GnsInv, Travels
<1>18. \A h \in GH : /\ FitsIn(FALSE, Gns!Reliable, GS, gnsGot'[h], gnsSent[Gns!Peer(h)])
                     /\ Gns!L!Continues(gnsGot'[h], gnsGot[h])
  <2>1. \A w : Gns!L!Continues(w, w)
    BY DEF Gns!L!Continues
  <2> QED BY <1>7, <1>8, <2>1 DEF GnsInv, GnsFits
<1>19. GnsFits' /\ Gns!L!Hand
  BY <1>2, <1>18, GnsFitsLink DEF GnsFits, Gns!L!Hand, GH
<1> QED BY <1>9, <1>10, <1>13, <1>14, <1>17, <1>19 DEF GnsInv

LEMMA GnsKeeps ==
  ASSUME GnsInv, UNCHANGED gnsVars
  PROVE  GnsInv'
<1>1. UNCHANGED <<alive, gnsListening, owned, owner, gnsPending, polling, lib, callbacks, wire, gnsSent,
                  gnsGot>>
  BY DEF gnsVars
<1>2. GnsTypes' /\ Registered'
  BY <1>1 DEF GnsInv, GnsTypes, Registered
<1>3. PendingFits' /\ LibFits' /\ Travels' /\ GnsFits'
  BY <1>1 DEF GnsInv, PendingFits, LibFits, Travels, GnsFits, Calls
<1> QED BY <1>2, <1>3 DEF GnsInv

LEMMA GnsStep ==
  ASSUME GnsInv, Gns!Next
  PROVE  GnsInv' /\ [Gns!L!Say \/ Gns!L!Hand]_<<gnsSent, gnsGot>>
<1>1. CASE Gns!Library
  BY <1>1, GnsLibrary
<1>2. CASE Gns!Listen
  BY <1>2, GnsListen
<1>3. ASSUME NEW c \in Players, Gns!Connect(c)
      PROVE  GnsInv' /\ [Gns!L!Say \/ Gns!L!Hand]_<<gnsSent, gnsGot>>
  BY <1>3, GnsConnect
<1>4. ASSUME NEW h \in GH, Gns!Close(h)
      PROVE  GnsInv' /\ [Gns!L!Say \/ Gns!L!Hand]_<<gnsSent, gnsGot>>
  BY <1>4, GnsClose
<1>5. ASSUME NEW h \in GH, NEW s \in GS, Gns!Send(h, s)
      PROVE  GnsInv' /\ [Gns!L!Say \/ Gns!L!Hand]_<<gnsSent, gnsGot>>
  BY <1>5, GnsSend
<1>6. ASSUME NEW e \in Gns!Ends, Gns!Poll(e) \/ Gns!Destroy(e)
      PROVE  GnsInv' /\ [Gns!L!Say \/ Gns!L!Hand]_<<gnsSent, gnsGot>>
  <2>1. CASE Gns!RunCallbacks(e)
    BY <2>1, GnsRunCallbacks
  <2>2. CASE Gns!Polled(e)
    BY <2>2, GnsPolled
  <2>3. ASSUME NEW h \in GH, NEW s \in GS, Gns!Receive(h, s)
        PROVE  GnsInv' /\ [Gns!L!Say \/ Gns!L!Hand]_<<gnsSent, gnsGot>>
    BY <2>3, GnsReceive
  <2>4. CASE Gns!Destroy(e)
    BY <2>4, GnsDestroy
  <2> QED BY <1>6, <2>1, <2>2, <2>3, <2>4 DEF Gns!Poll, GH, GS
<1> QED BY <1>1, <1>2, <1>3, <1>4, <1>5, <1>6 DEF Gns!Next, GH, GS

\* Over the network and in one process, each end is handed at most one word that the connection is
\* there, what the other end sent, of a reliable stream without a gap and in order, and as the last
\* thing the word that it is gone; in one process the first word comes before all messages
\* (GnsTransport::poll, on_status_changed, close; LoopbackTransport): for any players and guests,
\* however many messages, the library's thread between any two steps, and transports in one
\* process or in several.
THEOREM LinksAlwaysHold == RunSpec => LinksHold
<1>1. RunInit => GnsInv /\ LoopInv
  BY GnsInitFits, LoopInitFits DEF RunInit
<1>2. GnsInv /\ [RunNext]_allVars => GnsInv' /\ [Gns!L!Say \/ Gns!L!Hand]_Gns!L!linkVars
  <2> SUFFICES ASSUME GnsInv, [RunNext]_allVars
               PROVE  GnsInv' /\ [Gns!L!Say \/ Gns!L!Hand]_<<gnsSent, gnsGot>>
    BY DEF Gns!L!linkVars
  <2>1. Gns!Next \/ UNCHANGED gnsVars
    BY DEF RunNext, Only, allVars
  <2>2. UNCHANGED gnsVars => UNCHANGED <<gnsSent, gnsGot>>
    BY DEF gnsVars
  <2> QED BY <2>1, <2>2, GnsStep, GnsKeeps
<1>3. LoopInv /\ [RunNext]_allVars => LoopInv' /\ [Loop!L!Say \/ Loop!L!Hand]_Loop!L!linkVars
  <2> SUFFICES ASSUME LoopInv, [RunNext]_allVars
               PROVE  LoopInv' /\ [Loop!L!Say \/ Loop!L!Hand]_<<sent, got>>
    BY DEF Loop!L!linkVars
  <2>1. Loop!Next \/ UNCHANGED loopVars
    BY DEF RunNext, Only, allVars
  <2>2. UNCHANGED loopVars => UNCHANGED <<links, toServer, toClient, closed, sent, got>>
    BY DEF loopVars
  <2> QED BY <2>1, <2>2, LoopStep, LoopKeeps
<1>4. RunInit => Gns!L!LinkInit /\ Loop!L!LinkInit
  BY DEF RunInit, Gns!Init, Loop!Init
<1> HIDE DEF GnsInv, LoopInv
<1> QED BY <1>1, <1>2, <1>3, <1>4, PTL
        DEF RunSpec, LinksHold, Gns!ImplementsLink, Loop!ImplementsLink, Gns!L!LinkSpec, Loop!L!LinkSpec

-----------------------------------------------------------------------------
(* Types *)

\* What ChannelTypes leaves out.
ChannelFlags ==
  /\ tcp \in BOOLEAN /\ manual \in BOOLEAN /\ attached \in 0..MaxClients /\ present \in BOOLEAN
  /\ line \in BOOLEAN /\ eof \in BOOLEAN /\ sawEof \in BOOLEAN /\ idle \in BOOLEAN
  /\ pc \in {"pump", "dispatch", "frame", "over"} /\ playing \in BOOLEAN /\ quit_ \in BOOLEAN

LEMMA FlagsInit == Channel!Init => ChannelFlags
<1>1. MaxClients \in Nat /\ MaxClients >= 1
  BY ConnectedConstants DEF Channel!AutomationBounds
<1> QED BY <1>1 DEF Channel!Init, ChannelFlags

LEMMA FlagsStep ==
  ASSUME ChannelFlags, Channel!Next
  PROVE  ChannelFlags'
<1> USE DEF ChannelFlags, Channel!harness, Channel!reader, Channel!host
<1>1. CASE \E kind \in Channel!Kinds, n \in 1..MaxFrames : Channel!Ask(kind, n)
  BY <1>1 DEF Channel!Ask
<1>2. CASE Channel!Leave
  BY <1>2 DEF Channel!Leave
<1>3. CASE Channel!Accept
  BY <1>3, ConnectedConstants DEF Channel!Accept, Channel!AutomationBounds
<1>4. CASE Channel!Read
  BY <1>4 DEF Channel!Read
<1>5. CASE Channel!EndOfInput
  BY <1>5 DEF Channel!EndOfInput
<1>6. CASE Channel!Expire
  BY <1>6 DEF Channel!Expire
<1>7. CASE Channel!Loop
  <2>1. CASE Channel!Pump
    BY <2>1 DEF Channel!Pump
  <2>2. CASE Channel!Dispatch
    BY <2>2 DEF Channel!Dispatch
  <2>3. CASE Channel!EvaluateWaits
    BY <2>3 DEF Channel!EvaluateWaits, Channel!Ended
  <2>4. CASE Channel!NoFrame
    BY <2>4 DEF Channel!NoFrame
  <2>5. CASE Channel!Frame
    BY <2>5 DEF Channel!Frame
  <2> QED BY <1>7, <2>1, <2>2, <2>3, <2>4, <2>5 DEF Channel!Loop
<1> QED BY <1>1, <1>2, <1>3, <1>4, <1>5, <1>6, <1>7 DEF Channel!Next

\* The elements of a sequence, as the channel names them.
LEMMA RangeInSet ==
  ASSUME NEW S, NEW s \in Seq(S)
  PROVE  Channel!Range(s) \subseteq S
<1>1. DOMAIN s = 1..Len(s)
  BY LenProperties
<1> QED BY <1>1, ElementOfSeq DEF Channel!Range

LEMMA ChannelTyped == ChannelInv /\ ChannelFlags => Channel!TypeOK
<1> SUFFICES ASSUME ChannelInv, ChannelFlags PROVE Channel!TypeOK
  OBVIOUS
<1>1. MaxRequests \in Nat /\ R = Channel!Requests /\ 1..(MaxRequests + 1) = R \union {Channel!Half}
  BY ConnectedConstants DEF Channel!AutomationBounds, R, Channel!Requests, Channel!Half
<1>2. /\ Channel!Range(stream) \subseteq R \union {Channel!Half}
      /\ Channel!Range(channelQueue) \subseteq 0..MaxRequests
      /\ Channel!Range(batch) \subseteq 0..MaxRequests
      /\ Channel!Range(steps) \subseteq StepTypes /\ Channel!Range(asked) \subseteq AskedTypes
  BY <1>1, RangeInSet DEF ChannelInv, ChannelTypes
<1> QED BY <1>1, <1>2 DEF ChannelInv, ChannelTypes, ChannelFlags, Channel!TypeOK, StepTypes, AskedTypes

\* The chunks, the transports and the channel of a development build are in states of their types;
\* a transport has registered just the connections that it owns (GnsRuntime::conn_owners_,
\* Impl::owned_conns), whoever closes, is closed or is destroyed.
THEOREM ConnectedTypes == RunSpec => []TypesOK
<1>1. RunInit => TypeOK /\ GnsInv /\ ChannelInv /\ ChannelFlags
  BY InitTypes, GnsInitFits, ChannelInit, FlagsInit DEF RunInit
<1>2. TypeOK /\ [RunNext]_allVars => TypeOK'
  <2>1. [RunNext]_allVars => [Next]_vars
    BY DEF RunNext, Only, allVars
  <2> QED BY <2>1, TypesNext
<1>3. GnsInv /\ [RunNext]_allVars => GnsInv'
  <2> SUFFICES ASSUME GnsInv, [RunNext]_allVars PROVE GnsInv'
    OBVIOUS
  <2>1. Gns!Next \/ UNCHANGED gnsVars
    BY DEF RunNext, Only, allVars
  <2> QED BY <2>1, GnsStep, GnsKeeps
<1>4. ChannelInv /\ ChannelFlags /\ [RunNext]_allVars => ChannelInv' /\ ChannelFlags'
  <2> SUFFICES ASSUME ChannelInv, ChannelFlags, [RunNext]_allVars PROVE ChannelInv' /\ ChannelFlags'
    OBVIOUS
  <2>1. Channel!Next \/ UNCHANGED channelVars
    BY DEF RunNext, Only, allVars
  <2>2. UNCHANGED channelVars => ChannelFlags'
    BY DEF channelVars, ChannelFlags
  <2> QED BY <2>1, <2>2, ChannelStep, ChannelKeeps, FlagsStep
<1>5. GnsInv => Gns!TypeOK
  BY DEF GnsInv, GnsTypes, Registered, Gns!TypeOK, GH
<1>6. TypeOK /\ GnsInv /\ ChannelInv /\ ChannelFlags => TypesOK
  BY <1>5, ChannelTyped DEF TypesOK
<1> HIDE DEF GnsInv, ChannelInv, ChannelFlags, TypeOK
<1> QED BY <1>1, <1>2, <1>3, <1>4, <1>6, PTL DEF RunSpec

=============================================================================
