------------------------------- MODULE MCWorldGen -------------------------------
(* What makes the world, for TLC: the worker pool that generates chunks            *)
(* (WorldGenPool), the structures stamped across their borders (Structures) and    *)
(* the light that is worked out when they are inserted (Lighting).  They have no   *)
(* state in common, so one run checks them side by side: `which` says, from the    *)
(* start, which of them runs; the others stay as they are.                         *)
EXTENDS WorldGenPool

VARIABLES
  which,
  loaded, blocks, light, todo, last, edits,
  dice, chunk

\* Four chunks of 4 x 2 x 1: two columns of two.  In the one world two tunnels cross the
\* border, in the other a shaft goes down to a lower tunnel.
Wide == <<4, 2, 1>>
Square == {<<x, y, 0>> : x \in 0 .. 1, y \in 0 .. 1}
Row(y) == {<<x, y, 0>> : x \in 0 .. 7}
Stone(open) ==
  [p \in {<<x, y, 0>> : x \in 0 .. 7, y \in 0 .. 3} |-> IF p \in open THEN "air" ELSE "stone"]
Caves == {Stone(Row(3) \cup Row(0)), Stone(Row(1) \cup Row(0) \cup {<<6, 2, 0>>, <<6, 3, 0>>})}
Border == {<<3, 2, 0>>, <<3, 1, 0>>, <<4, 2, 0>>}

Lights == INSTANCE Lighting
  WITH Dim <- Wide, Chunks <- Square, MaxLight <- 3, Landscapes <- Caves, Spots <- Border,
       Placed <- {"air", "stone", "water", "lamp"}, MaxBatch <- 2, MaxEdits <- 2

\* A long house with a carved door that may be turned and mirrored, and a post that takes only
\* free places; two of them near the same borders, west and east of the origin.
Corner(size) ==
  {<<x, y, z>> : x \in 0 .. size[1] - 1, y \in 0 .. size[2] - 1, z \in 0 .. size[3] - 1}
House ==
  [spacing |-> 1, size |-> <<3, 1, 2>>, anchor |-> <<0, 0, 0>>, replace |-> "air_and_plants",
   cells |-> [o \in Corner(<<3, 1, 2>>) |->
                CASE o = <<1, 0, 0>> -> "air" [] o = <<2, 0, 1>> -> "keep" [] OTHER -> "wall"]]
Post ==
  [spacing |-> 1, size |-> <<1, 2, 2>>, anchor |-> <<0, 1, 1>>, replace |-> "air",
   cells |-> [o \in Corner(<<1, 2, 2>>) |-> "wood"]]
Hills(p) ==
  LET top == IF p[1] % 3 = 0 THEN 1 ELSE 0
  IN CASE p[2] <= top -> "ground" [] p[2] = top + 1 /\ p[3] % 2 = 0 -> "plant" [] OTHER -> "air"
Roll(rule, cell, jitter, turn, mirror) ==
  [rule |-> rule, cell |-> cell, jitter |-> jitter, turn |-> turn, mirror |-> mirror]
Grid == (-1 .. 1) \X (-1 .. 0)
Jitters == (0 .. 1) \X (0 .. 1)
Posts == {Roll(2, g, j, 0, FALSE) : g \in Grid, j \in Jitters}
Houses == {Roll(1, g, j, t, m) : g \in Grid, j \in Jitters, t \in 0 .. 3, m \in BOOLEAN}
Pairs ==
  {{d, e} : d \in Houses, e \in Posts}
    \cup {w \in {{d, e} : d, e \in Posts} : \A d, e \in w : d.cell = e.cell => d = e}

Decor == INSTANCE Structures
  WITH Dim <- 2, Chunks <- {<<x, y, z>> : x \in -1 .. 1, y \in 0 .. 1, z \in -1 .. 0},
       Rules <- <<House, Post>>, Worlds <- Pairs, Terrain <- Hills

lightVars == <<loaded, blocks, light, todo, last, edits>>
decorVars == <<dice, chunk>>
allVars == <<which, vars, lightVars, decorVars>>

\* Where a part starts in one of several states, the others' runs take one of them.
RunInit ==
  /\ which \in {"pool", "light", "structures"}
  /\ Init /\ Lights!Init
  /\ IF which = "structures" THEN Decor!Init
     ELSE dice = {} /\ chunk = Decor!NoChunk
  /\ which # "light" => blocks = Stone(Row(3) \cup Row(0))

RunNext ==
  /\ UNCHANGED which
  /\ \/ which = "pool" /\ Next /\ UNCHANGED <<lightVars, decorVars>>
     \/ which = "light" /\ Lights!Next /\ UNCHANGED <<vars, decorVars>>
     \/ which = "structures" /\ Decor!Next /\ UNCHANGED <<vars, lightVars>>

\* The fairness of the pool's FairSpec.
RunFairness ==
  /\ \A w \in Workers :
       /\ WF_vars(which = "pool" /\ WorkerStep(w))
       /\ SF_vars(which = "pool" /\ WorkerPublish(w))
  /\ WF_vars(which = "pool" /\ (NotifyOne \/ DestroyNotify \/ DestroyJoin))

RunSpec == RunInit /\ [][RunNext]_allVars /\ RunFairness

-----------------------------------------------------------------------------
\* The types of all of them.
TypesOK ==
  CASE which = "pool" -> TypeOK
    [] which = "light" -> Lights!TypeOK
    [] which = "structures" -> Decor!TypeOK

\* Where loaded chunks meet, the light of the one goes on in the other, whatever the order in
\* which they came (LightEngine::relight_chunk, relight_column).
LightMeets == which = "light" => Lights!NoSeam /\ Lights!PushesReach

\* Chunks generated apart from each other fit together (WorldGenerator::stamp_structures,
\* structure_placements).
StructuresAgree == which = "structures" => Decor!SeamsAgree /\ Decor!AnchorsApart
=============================================================================
