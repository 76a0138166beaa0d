-------------------------- MODULE WorldReplication --------------------------
(***************************************************************************)
(* WorldReplicator and the mirrors its players keep (ClientChunkStore).    *)
(* Each tick streams the loaded chunks of a player's view box as ChunkAdds *)
(* and removes what left it; each accepted edit is fanned out as deltas;   *)
(* all of it travels on one reliable, ordered lane per player.             *)
(*                                                                         *)
(* A chunk's content is the set of the changes made to it, numbered by the *)
(* revisions they produced: the server's chunk at revision r holds 1..r, a *)
(* delta carries the changes of one edit, an add carries them all.  A      *)
(* script changes blocks with no delta at all, from anywhere, the hooks of *)
(* an edit included.  What ChunkLifecycle does to the loaded set appears   *)
(* here as what its update() may do: load wanted chunks, evict unwanted    *)
(* ones (their revision is kept by the region store), relight loaded ones  *)
(* when something is inserted.                                             *)
(***************************************************************************)
EXTENDS Naturals, Sequences, FiniteSets, SequencesExt

CONSTANTS
  Players,
  Coords,         \* chunk coordinates
  Views,          \* the view boxes a player's position may have
  SendBudget,     \* adds per player and tick; 0 is no limit
  EarlyEdits,     \* may a player edit a chunk its view gained since the last tick?
  Editors,        \* who edits: players, and entities of a script
  Scripted,       \* the chunks in which scripts change blocks
  Neighbours,     \* the chunks an edit's relight may reach beside the edited one
  Absent,         \* a chunk the client does not have, or was not sent
  MaxRev,         \* bound: revisions
  MaxChannel      \* bound: frames in a player's lane when the server sends

VARIABLES
  loaded,              \* chunks in the server's world
  rev,                 \* their revisions, kept by the store while unloaded
  playing,             \* players in the game
  view,                \* the view box around each player's position
  ticked,              \* the view box each player had at the last tick
  last_sent,           \* chunks each player is believed to mirror
  last_sent_revision,  \* the revision of each chunk last sent to each player
  overtaken,           \* history: the chunks an edit has booked as sent to each player who had
                       \* not been sent what it was made on, and has not since
  lane,                \* frames on their way to each player
  mirror               \* ClientChunkStore: what each player holds

serverVars == <<loaded, rev, playing, view, ticked, last_sent, last_sent_revision, overtaken>>
vars == <<serverVars, lane, mirror>>

Revs == 0..MaxRev
ChunkAdd(c, r) == [type |-> "add", coord |-> c, changes |-> 1..r]


\* Among the changes of a delta that one of the server's changes was passed over for, for the
\* properties only.
Gap == 0

\* (mutant) a delta carries the last change only
ChunkDelta_last(c, base, new, blind) ==
  [type |-> "delta", coord |-> c, changes |-> {new} \union (IF blind THEN {Gap} ELSE {})]

\* The changes of an edit, made to revision `base` of the chunk; `blind` if the player has not
\* got that.
ChunkDelta(c, base, new, blind) ==
  [type |-> "delta", coord |-> c, changes |-> base + 1..new \union (IF blind THEN {Gap} ELSE {})]

ChunkRemove(c) == [type |-> "remove", coord |-> c, changes |-> {}]
Frame == [type : {"add", "delta", "remove"}, coord : Coords, changes : SUBSET Revs]

Nothing == [c \in Coords |-> Absent]

Init ==
  /\ loaded = {} /\ rev = [c \in Coords |-> 0]
  /\ playing = {}
  /\ view = [p \in Players |-> {}] /\ ticked = [p \in Players |-> {}]
  /\ last_sent = [p \in Players |-> {}]
  /\ last_sent_revision = [p \in Players |-> Nothing]
  /\ overtaken = [p \in Players |-> {}]
  /\ lane = [p \in Players |-> <<>>]
  /\ mirror = [p \in Players |-> Nothing]

-----------------------------------------------------------------------------
(* Players come, move and go *)

Join(p, v) ==
  /\ p \notin playing
  /\ playing' = playing \union {p}
  /\ view' = [view EXCEPT ![p] = v]
  /\ UNCHANGED <<loaded, rev, ticked, last_sent, last_sent_revision, overtaken, lane, mirror>>

Move(p, v) ==
  /\ p \in playing /\ v # view[p]
  /\ view' = [view EXCEPT ![p] = v]
  /\ UNCHANGED <<loaded, rev, playing, ticked, last_sent, last_sent_revision, overtaken, lane,
                 mirror>>

\* (mutant) the revisions are kept
ForgetPlayer_partial(p) ==
  /\ last_sent' = [last_sent EXCEPT ![p] = {}]
  /\ UNCHANGED last_sent_revision

ForgetPlayer(p) ==
  /\ last_sent' = [last_sent EXCEPT ![p] = {}]
  /\ last_sent_revision' = [last_sent_revision EXCEPT ![p] = Nothing]

\* A disconnect: forget_player, and the client's session ends with its mirror.
Leave(p) ==
  /\ p \in playing
  /\ playing' = playing \ {p}
  /\ view' = [view EXCEPT ![p] = {}] /\ ticked' = [ticked EXCEPT ![p] = {}]
  /\ ForgetPlayer(p) /\ overtaken' = [overtaken EXCEPT ![p] = {}]
  /\ lane' = [lane EXCEPT ![p] = <<>>] /\ mirror' = [mirror EXCEPT ![p] = Nothing]
  /\ UNCHANGED <<loaded, rev>>

-----------------------------------------------------------------------------
(* tick() *)

\* The first chunks of cs the send budget lets through.
WithinBudget(cs) ==
  IF SendBudget = 0 \/ Cardinality(cs) <= SendBudget THEN cs
  ELSE ToSet(SubSeq(SetToSeq(cs), 1, SendBudget))

\* (mutant) only presence is compared, not the revision
Outdated_presence(p, visible, revs) == {c \in visible : last_sent_revision[p][c] = Absent}

\* (mutant) a chunk at revision 0 is not worth sending
Outdated_edited(p, visible, revs) ==
  {c \in visible : revs[c] # 0 /\ last_sent_revision[p][c] # revs[c]}

\* The visible chunks whose current revision the player was not sent.
Outdated(p, visible, revs) == {c \in visible : last_sent_revision[p][c] # revs[c]}

\* (mutant) chunks that left the view are not removed
Left_none(p, visible) == {}

Left(p, visible) == last_sent[p] \ visible

AddFrames(cs, revs) == LET q == SetToSeq(cs) IN [i \in 1..Len(q) |-> ChunkAdd(q[i], revs[q[i]])]
RemoveFrames(cs) == LET q == SetToSeq(cs) IN [i \in 1..Len(q) |-> ChunkRemove(q[i])]

\* What a tick of a world with chunks `now` at revisions `revs` does for each
\* player; lifecycle.update() made that world from the union of the views.
Stream(now, revs) ==
  LET visible(p) == view[p] \intersect now
      send(p) == WithinBudget(Outdated(p, visible(p), revs))
  IN /\ lane' = [p \in Players |->
                   IF p \in playing
                   THEN lane[p] \o AddFrames(send(p), revs) \o RemoveFrames(Left(p, visible(p)))
                   ELSE lane[p]]
     /\ last_sent_revision' = [p \in Players |->
          IF p \in playing
          THEN [c \in Coords |-> IF c \in send(p) THEN revs[c]
                                 ELSE IF c \in Left(p, visible(p)) THEN Absent
                                 ELSE last_sent_revision[p][c]]
          ELSE last_sent_revision[p]]
     /\ overtaken' = [p \in Players |->
          IF p \in playing THEN overtaken[p] \ (send(p) \union Left(p, visible(p)))
          ELSE overtaken[p]]
     /\ last_sent' = [p \in Players |-> IF p \in playing THEN visible(p) ELSE last_sent[p]]

\* The revisions with one more of each of cs.
Counted(revs, cs) == [c \in Coords |-> IF c \in cs THEN revs[c] + 1 ELSE revs[c]]

Tick(load, relit) ==
  LET desired == UNION {view[p] : p \in playing}
      now == (loaded \intersect desired) \union load
      revs == Counted(rev, relit)
  IN /\ \A p \in playing : Len(lane[p]) + Cardinality(Coords) <= MaxChannel
     /\ load \subseteq desired \ loaded
     /\ relit \subseteq {c \in now : rev[c] < MaxRev}
     /\ load = {} => relit = {}
     /\ loaded' = now /\ rev' = revs
     /\ ticked' = [p \in Players |-> view[p]]
     /\ Stream(now, revs)
     /\ UNCHANGED <<playing, view, mirror>>

-----------------------------------------------------------------------------
(* apply_block_edit() *)

\* (mutant) every player is taken to mirror every chunk
Covered_all(p, c) == p \in playing

Covered(p, c) == c \in last_sent[p]

\* Who gets the delta of chunk c when player p edits.
Told(p, c) == {q \in Players : Covered(q, c)} \union {p}

\* An edit of p made on base[d] overtakes that on its way to q: q has had chunk d deferred, or as
\* it was before a script changed it, or has it not at all and is the one who edits.
Overtakes(p, q, d, base) ==
  (q = p \/ d \in last_sent[q]) /\ last_sent_revision[q][d] # base[d]

\* p edits chunk c: a player from where it is, an entity of a script from anywhere.  The hooks
\* change blocks of the chunks `hooked`.  The relight cascade visits the chunks `visited` and
\* changes the light of those in `relit`; every visited chunk is fanned out, its light changed or
\* not.  The delta of chunk c also holds the block, and none holds what the hooks did.
Edit(p, c, hooked, visited, relit) ==
  LET base == Counted(rev, hooked)
      new == Counted(Counted(base, {c}), relit)
      missed(q) == overtaken[q] \union {d \in visited : Overtakes(p, q, d, base)}
  IN /\ p \in Editors /\ hooked \subseteq Scripted
     /\ p \in Players => p \in playing /\ c \in view[p] /\ (EarlyEdits \/ c \in ticked[p])
     /\ c \in loaded /\ loaded' = loaded \union hooked
     /\ c \in visited /\ visited \subseteq loaded' \intersect (Neighbours[c] \union {c})
     /\ relit \subseteq visited
     /\ \A d \in Coords : new[d] <= MaxRev
     /\ \A q \in playing : Len(lane[q]) + Cardinality(Coords) <= MaxChannel
     /\ rev' = new
     /\ lane' = [q \in Players |->
          LET told == SetToSeq({d \in visited : q \in Told(p, d)})
          IN lane[q] \o [i \in 1..Len(told) |->
                            LET d == told[i]
                            IN ChunkDelta(d, base[d], new[d], d \in missed(q))]]
     /\ last_sent_revision' = [q \in Players |-> [d \in Coords |->
          IF d \in visited /\ q \in Told(p, d) THEN new[d] ELSE last_sent_revision[q][d]]]
     /\ overtaken' = [q \in Players |-> missed(q)]
     /\ UNCHANGED <<playing, view, ticked, last_sent, mirror>>

\* A script changes a block: the chunk is made if it is not there, and nobody is told.
SetBlock(c) ==
  /\ c \in Scripted /\ rev[c] < MaxRev
  /\ loaded' = loaded \union {c}
  /\ rev' = Counted(rev, {c})
  /\ UNCHANGED <<playing, view, ticked, last_sent, last_sent_revision, overtaken, lane, mirror>>

-----------------------------------------------------------------------------
(* The client *)

\* A mirror after one frame; a delta for a chunk it does not hold is rejected.
Applied(m, f) ==
  CASE f.type = "add" -> [m EXCEPT ![f.coord] = f.changes]
    [] f.type = "delta" -> IF m[f.coord] = Absent THEN m
                           ELSE [m EXCEPT ![f.coord] = @ \union f.changes]
    [] f.type = "remove" -> [m EXCEPT ![f.coord] = Absent]

Deliver(p) ==
  /\ lane[p] # <<>>
  /\ mirror' = [mirror EXCEPT ![p] = Applied(mirror[p], Head(lane[p]))]
  /\ lane' = [lane EXCEPT ![p] = Tail(lane[p])]
  /\ UNCHANGED serverVars

-----------------------------------------------------------------------------
TickStep == \E load, relit \in SUBSET Coords : Tick(load, relit)

Next ==
  \/ \E p \in Players :
       \/ \E v \in Views : Join(p, v) \/ Move(p, v)
       \/ Leave(p)
       \/ Deliver(p)
  \/ \E c \in Coords :
       \/ \E p \in Editors : \E hooked, visited, relit \in SUBSET Coords :
            Edit(p, c, hooked, visited, relit)
       \/ SetBlock(c)
  \/ TickStep

Spec == Init /\ [][Next]_vars

\* The server ticks, and the transport delivers.
FairSpec == Spec /\ WF_vars(TickStep) /\ \A p \in Players : WF_vars(Deliver(p))

-----------------------------------------------------------------------------
\* The replicator's per-player books, the columns between server and client and
\* each ClientChunkStore hold what their headers declare; nothing is kept of a
\* player that left (forget_player).
TypeOK ==
  /\ loaded \in SUBSET Coords /\ rev \in [Coords -> Revs]
  /\ playing \in SUBSET Players
  /\ view \in [Players -> SUBSET Coords] /\ ticked \in [Players -> SUBSET Coords]
  /\ last_sent \in [Players -> SUBSET Coords]
  /\ last_sent_revision \in [Players -> [Coords -> Revs \union {Absent}]]
  /\ overtaken \in [Players -> SUBSET Coords]
  /\ lane \in [Players -> Seq(Frame)]
  /\ mirror \in [Players -> [Coords -> (SUBSET Revs) \union {Absent}]]
  /\ \A p \in Players \ playing : last_sent[p] = {} /\ last_sent_revision[p] = Nothing

\* Frame f settles what a mirror has of chunk c, whatever that was.
Settles(f, c) == f.coord = c /\ f.type # "delta"

\* What becomes of m, a player's copy of chunk c, in the first n frames of s: there is one if
\* none of them settles it, or the last that does adds it; that frame's changes and those of
\* the deltas behind it are what it has.
HeldAfter(m, s, n, c) ==
  LET since(k) == \A j \in k + 1..n : ~Settles(s[j], c)
      there == (since(0) /\ m # Absent)
               \/ \E i \in 1..n : s[i].coord = c /\ s[i].type = "add" /\ since(i)
      brought == {x \in Revs : \E i \in 1..n : s[i].coord = c /\ since(i) /\ x \in s[i].changes}
  IN IF ~there THEN Absent ELSE IF since(0) THEN m \union brought ELSE brought

\* What a player will hold once its lane is empty.
Arriving(p) == [c \in Coords |-> HeldAfter(mirror[p][c], lane[p], Len(lane[p]), c)]

\* The server's book of a player is true: once everything on its way has arrived, the player
\* holds exactly the chunks recorded as sent to it, each with every change up to the revision
\* recorded, unless an edit overtook what it was made on.
BookIsTrue ==
  \A p \in playing : \A c \in Coords \ overtaken[p] :
    Arriving(p)[c] = IF last_sent_revision[p][c] = Absent THEN Absent
                     ELSE 1..last_sent_revision[p][c]

\* A player never holds a chunk with a change missing in the middle, unless a delta of such an
\* edit left the gap: it sees each chunk as it was at some moment.
NoTornChunk ==
  \A p \in Players : \A c \in Coords :
    \/ mirror[p][c] = Absent \/ Gap \in mirror[p][c]
    \/ \E r \in Revs : mirror[p][c] = 1..r

\* Nor does a delta of any other edit reach a player that does not have the chunk.
DeltaAfterAdd ==
  \A p \in Players :
    LET first == Head(lane[p]) IN
    lane[p] # <<>> /\ first.type = "delta" /\ Gap \notin first.changes
      => mirror[p][first.coord] # Absent

\* No chunk outlives its place in the view (tick's removes): what a player keeps is in the
\* view box the server knew at its last tick.
NoGhostChunk ==
  \A p \in playing : \A c \in Coords : Arriving(p)[c] # Absent => c \in ticked[p]

\* Together: what a player holds is what the server believes, up to what is on its way and what
\* an edit overtook; and a chunk sent whole makes up for that.
MirrorsAreTrue == BookIsTrue /\ NoTornChunk /\ DeltaAfterAdd /\ NoGhostChunk

\* What the constants are.
ReplicationAssumption ==
  /\ IsFiniteSet(Coords) /\ MaxRev \in Nat /\ SendBudget \in Nat
  /\ Views \subseteq SUBSET Coords /\ Neighbours \in [Coords -> SUBSET Coords]
  /\ Absent \notin Nat /\ \A changes \in SUBSET Revs : changes # Absent

\* A chunk that stays loaded and in view reaches the player, whole, again and
\* again: budgets delay it, nothing loses it.
Converges ==
  \A p \in Players : \A c \in Coords :
    <>[](p \in playing /\ c \in view[p] /\ c \in loaded) => []<>(mirror[p][c] = 1..rev[c])
=============================================================================
