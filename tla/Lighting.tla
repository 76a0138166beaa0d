------------------------------- MODULE Lighting -------------------------------
(***************************************************************************)
(* LightEngine and relight_column: the light of the loaded chunks while    *)
(* the server inserts, edits and evicts them.  Cells have world            *)
(* coordinates <<x, y, z>>, a chunk is Dim[1] x Dim[2] x Dim[3] of them.   *)
(* The server's thread does all of it; an update() of the chunk lifecycle  *)
(* inserts a batch of chunks first and lights them one by one (`todo`), so *)
(* a chunk may be lit beside one that has not been lit yet.                *)
(***************************************************************************)
EXTENDS Integers, SequencesExt, TLC

CONSTANTS
  Dim,          \* the size of a chunk along each axis
  Chunks,       \* chunk coordinates
  MaxLight,     \* the brightest level (15), at least 3
  Landscapes,   \* the blocks a world may have been generated with
  Spots,        \* the cells that players edit
  Placed,       \* the blocks they put there ("air" breaks one)
  MaxBatch,     \* chunks that one update() inserts
  MaxEdits      \* bound: edits of a run

VARIABLES
  loaded,    \* the world's chunks
  blocks,    \* the block in every cell, loaded or not
  light,     \* the light volumes, Dark where nothing is loaded
  todo,      \* inserted chunks that update() has still to light
  last,      \* the latest relight_column: where it began, the chunks it changed itself, and
             \* the neighbours' columns it pushed into
  edits

vars == <<loaded, blocks, light, todo, last, edits>>

Kinds == {"air", "water", "stone", "lamp"}
Dark == [sky |-> 0, block |-> 0]

CellsOf(c) ==
  {<<x, y, z>> : x \in c[1] * Dim[1] .. c[1] * Dim[1] + Dim[1] - 1,
                 y \in c[2] * Dim[2] .. c[2] * Dim[2] + Dim[2] - 1,
                 z \in c[3] * Dim[3] .. c[3] * Dim[3] + Dim[3] - 1}
Cells == UNION {CellsOf(c) : c \in Chunks}
ChunkOf(p) == <<p[1] \div Dim[1], p[2] \div Dim[2], p[3] \div Dim[3]>>
Beside(p, d) == <<p[1] + d[1], p[2] + d[2], p[3] + d[3]>>

Up == <<0, 1, 0>>
Down == <<0, -1, 0>>
East == <<1, 0, 0>>
West == <<-1, 0, 0>>
North == <<0, 0, 1>>
South == <<0, 0, -1>>
Sideways == {East, West, North, South}
Around == Sideways \cup {Up, Down}

\* Which of a cell's neighbours are in the same chunk.
Inward(p) == {d \in Around : ChunkOf(Beside(p, d)) = ChunkOf(p)}

Pass(b) == CASE b = "water" -> MaxLight - 2 [] b \in {"stone", "lamp"} -> 0 [] OTHER -> MaxLight
Emission(b) == IF b = "lamp" THEN MaxLight - 1 ELSE 0

-----------------------------------------------------------------------------
(* One chunk *)

\* What is left of the sky light of a cell in the next one, which lets `pass` through.  Straight
\* down through open air it keeps its full strength.
Arriving(level, down, pass) ==
  LET straight == down /\ level = MaxLight /\ pass = MaxLight
      drop == MaxLight - pass + (IF straight THEN 0 ELSE 1)
  IN IF pass = 0 \/ level <= drop THEN 0 ELSE level - drop

\* The sky light that comes into cell p from the chunk at side d: nothing loaded above is open
\* sky, nothing loaded beside is a wall, and none comes from below.
Incoming(lit, bl, p, d) ==
  LET open == ChunkOf(Beside(p, d)) \in loaded
  IN CASE d = Down -> 0
       [] d = Up /\ ~open -> IF Pass(bl[p]) = 0 THEN 0 ELSE MaxLight
       [] d # Down /\ open -> Arriving(lit[Beside(p, d)].sky, d = Up, Pass(bl[p]))
       [] OTHER -> 0

\* (mutant) takes any column of air for open to the sky
OpenToSky_assumed(lit, c) == TRUE

\* Full sky light comes through the whole top face of chunk c.
OpenToSky(lit, c) ==
  \/ Beside(c, Up) \notin loaded
  \/ \A p \in CellsOf(Beside(c, Up)) : Down \notin Inward(p) => lit[p].sky = MaxLight

\* relight_chunk(): a chunk of one block has a closed form; any other is seeded at its faces
\* and flooded, as far as light can go in it, and so is the block light from its lamps.
RelightChunk(lit, bl, c) ==
  LET cells == CellsOf(c)
      inward == [p \in cells |-> Inward(p)] @@ <<>>
      pass == [p \in cells |-> Pass(bl[p])] @@ <<>>
      kinds == {bl[p] : p \in cells}
      rounds == [i \in 1 .. Dim[2] + MaxLight |-> i]
      Arrives(s, p) == {Arriving(s[Beside(p, d)], d = Up, pass[p]) : d \in inward[p]}
      Glows(s, p) == IF pass[p] = 0 THEN {} ELSE {s[Beside(p, d)] - 1 : d \in inward[p]}
      FromOutside(p) == {Incoming(lit, bl, p, d) : d \in Around \ inward[p]}
      sky == FoldLeft(LAMBDA s, i : [p \in cells |-> Max({s[p]} \cup Arrives(s, p))] @@ s,
                      [p \in cells |-> Max({0} \cup FromOutside(p))] @@ <<>>, rounds)
      glow == FoldLeft(LAMBDA s, i : [p \in cells |-> Max({s[p]} \cup Glows(s, p))] @@ s,
                       [p \in cells |-> Emission(bl[p])] @@ <<>>, rounds)
      new == IF kinds = {"air"} /\ OpenToSky(lit, c)
               THEN [p \in cells |-> [sky |-> MaxLight, block |-> 0]]
             ELSE IF kinds = {"stone"} THEN [p \in cells |-> Dark]
             ELSE [p \in cells |-> [sky |-> sky[p], block |-> glow[p]]]
  IN new @@ lit

-----------------------------------------------------------------------------
(* A column of chunks *)

\* Chunk c and those loaded below it without a gap, from the top.
Stack(c) ==
  LET Below(i) == <<c[1], c[2] - i, c[3]>>
      depth == Max({0} \cup {n \in 1 .. Cardinality(Chunks) : \A i \in 0 .. n - 1 : Below(i) \in loaded})
  IN [i \in 1 .. depth |-> Below(i - 1)]

Changed(before, after, c) ==
  {b \in ToSet(Stack(c)) : \E p \in CellsOf(b) : before[p] # after[p]}

\* (mutant) stops at the first chunk whose light stays the same
RelightDown_early(lit, bl, c) ==
  LET all == [n \in 0 .. Len(Stack(c)) |->
                FoldLeft(LAMBDA l, b : RelightChunk(l, bl, b), lit, SubSeq(Stack(c), 1, n))]
      same == {n \in 1 .. Len(Stack(c)) : all[n] = all[n - 1]}
  IN IF same = {} THEN all[Len(Stack(c))] ELSE all[Min(same)]

RelightDown(lit, bl, c) == FoldLeft(LAMBDA l, b : RelightChunk(l, bl, b), lit, Stack(c))

\* The sides on which a changed chunk of c's column has a neighbour, in the order of the pushes.
PushesOf(changed) ==
  SelectSeq(<<East, West, North, South>>, LAMBDA d : \E b \in changed : Beside(b, d) \in loaded)

\* (mutant) pushes each change as it is found, before the chunks below are lit
RelightColumn_eager(lit, bl, c) ==
  LET top == RelightChunk(lit, bl, c)
      changed == IF top = lit THEN {} ELSE {c}
      pushed == FoldLeft(LAMBDA l, d : RelightDown(l, bl, Beside(c, d)), top, PushesOf(changed))
  IN RelightDown(pushed, bl, Beside(c, Down))

\* relight_column(): the whole column first, then the columns beside it, from c's level down,
\* which push no further.
RelightColumn(lit, bl, c) ==
  LET done == RelightDown(lit, bl, c)
  IN FoldLeft(LAMBDA l, d : RelightDown(l, bl, Beside(c, d)), done,
              PushesOf(Changed(lit, done, c)))

\* The same, with what the properties ask about it.
Relit(c, bl) ==
  LET done == RelightDown(light, bl, c)
      changed == Changed(light, done, c)
  IN /\ light' = RelightColumn(light, bl, c)
     /\ last' = [at |-> c, changed |-> changed,
                 pushed |-> UNION {ToSet(Stack(Beside(c, d))) : d \in ToSet(PushesOf(changed))}]

NoRelight == [at |-> <<0, 0, 0>>, changed |-> {}, pushed |-> {}]

-----------------------------------------------------------------------------
(* The server *)

Init ==
  /\ loaded = {} /\ todo = <<>> /\ edits = 0 /\ last = NoRelight
  /\ blocks \in Landscapes
  /\ light = [p \in Cells |-> Dark]

\* ingest(): chunks arrive in any order and are inserted unlit.
Insert(batch) ==
  /\ todo = <<>>
  /\ ToSet(batch) \cap loaded = {}
  /\ loaded' = loaded \cup ToSet(batch)
  /\ todo' = batch
  /\ last' = NoRelight
  /\ UNCHANGED <<blocks, light, edits>>

Relight ==
  /\ todo # <<>>
  /\ Relit(Head(todo), blocks)
  /\ todo' = Tail(todo)
  /\ UNCHANGED <<loaded, blocks, edits>>

Touches(p) ==
  \E d \in Around : LET q == Beside(p, d) IN
    q \in Cells /\ ChunkOf(q) \in loaded /\ blocks[q] \in {"stone", "lamp"}

\* apply_block_edit() of an edit that is accepted: a block is broken, or placed in the air next
\* to a solid one; then the column is lit again.
Edit(p, b) ==
  /\ todo = <<>>
  /\ edits < MaxEdits
  /\ ChunkOf(p) \in loaded
  /\ IF b = "air" THEN blocks[p] # "air" ELSE blocks[p] = "air" /\ Touches(p)
  /\ blocks' = [blocks EXCEPT ![p] = b]
  /\ Relit(ChunkOf(p), blocks')
  /\ edits' = edits + 1
  /\ UNCHANGED <<loaded, todo>>

\* An unwanted chunk goes; nothing around it is lit again.
Evict(c) ==
  /\ todo = <<>>
  /\ c \in loaded
  /\ loaded' = loaded \ {c}
  /\ light' = [p \in Cells |-> IF p \in CellsOf(c) THEN Dark ELSE light[p]]
  /\ last' = NoRelight
  /\ UNCHANGED <<blocks, todo, edits>>

Batches == {b \in UNION {[1 .. n -> Chunks] : n \in 1 .. MaxBatch} : IsInjective(b)}

Next ==
  \/ \E batch \in Batches : Insert(batch)
  \/ Relight
  \/ \E p \in Spots, b \in Placed : Edit(p, b)
  \/ \E c \in Chunks : Evict(c)

Spec == Init /\ [][Next]_vars

-----------------------------------------------------------------------------
TypeOK ==
  /\ loaded \subseteq Chunks
  /\ blocks \in [Cells -> Kinds]
  /\ light \in [Cells -> [sky : 0 .. MaxLight, block : 0 .. MaxLight]]
  /\ todo \in Seq(loaded)
  /\ edits \in 0 .. MaxEdits

\* A cell is at least as bright as what comes in from the chunk at its side d.
Lit(p, d) == light[p].sky >= Incoming(light, blocks, p, d)

\* Between updates the sun that leaves a chunk at the bottom shines on in the loaded chunk
\* below, and only there: no bright ceiling and no dark band where two chunks meet, in
\* whatever order they were inserted, edited and evicted ("false-bright chunk boundary").
NoSeam ==
  todo = <<>> => \A p \in Cells :
    ChunkOf(p) \in loaded /\ Up \notin Inward(p) /\ ChunkOf(Beside(p, Up)) \in loaded =>
      /\ Lit(p, Up)
      /\ light[p].sky = MaxLight => light[Beside(p, Up)].sky = MaxLight

\* Light that changes at a border has reached the chunks beside it when relight_column returns,
\* and it is the finished column's light (with nothing missing between them and the level
\* where it began).
PushesReach ==
  \A b \in last.changed, d \in Sideways :
    Beside(b, d) \in ToSet(Stack(Beside(last.at, d))) =>
      \A p \in CellsOf(Beside(b, d)) :
        ChunkOf(Beside(p, <<-d[1], 0, -d[3]>>)) = b => Lit(p, <<-d[1], 0, -d[3]>>)

\* "A pushed neighbour's own relight can therefore never usefully push back out any further":
\* no loaded chunk is darker than the light that a pushed neighbour would give it.
NothingToPushBack ==
  todo = <<>> => \A b \in last.pushed, d \in Sideways :
    \A p \in CellsOf(b) :
      LET q == Beside(p, d) IN
        ChunkOf(q) # b /\ ChunkOf(q) \in loaded =>
          light[q].sky >= Arriving(light[p].sky, FALSE, Pass(blocks[q]))
=============================================================================
