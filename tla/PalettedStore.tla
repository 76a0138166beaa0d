----------------------------- MODULE PalettedStore -----------------------------
(***************************************************************************)
(* PalettedChunkStore: the blocks of a chunk as indices into a palette, of *)
(* as few bits as its length needs.  A cell's bits are never shared with   *)
(* another's (every width divides a word), so the packed words are a       *)
(* function from cells to numbers below 2^width.                           *)
(***************************************************************************)
EXTENDS Naturals, Sequences, FiniteSets, SequencesExt, Functions

CONSTANTS
  Cells,   \* the voxels of a chunk
  Blocks   \* block ids, 16 bits of them

ASSUME PalettedStoreAssumption ==
  /\ Cells # {}
  /\ IsFiniteSet(Blocks) /\ Cardinality(Blocks) <= 65536

VARIABLES
  palette,   \* palette_: the first entry has index 0
  bits,      \* bits_per_index_
  data       \* data_: the index in each cell, 0 where there is no storage

vars == <<palette, bits, data>>

Widths == {0, 1, 2, 4, 8, 16}

\* How many indices a width can tell apart.
Slots(w) ==
  CASE w = 0 -> 1 [] w = 1 -> 2 [] w = 2 -> 4 [] w = 4 -> 16 [] w = 8 -> 256 [] OTHER -> 65536

\* (mutant) a palette of three in one bit
WidthFor_late(n) ==
  CASE n <= 1 -> 0 [] n <= 3 -> 1 [] n <= 4 -> 2 [] n <= 16 -> 4 [] n <= 256 -> 8 [] OTHER -> 16

WidthFor(n) ==
  CASE n <= 1 -> 0 [] n <= 2 -> 1 [] n <= 4 -> 2 [] n <= 16 -> 4 [] n <= 256 -> 8 [] OTHER -> 16

\* get(): an index beyond the palette falls back to its first entry.
Get(i) == IF data[i] < Len(palette) THEN palette[data[i] + 1] ELSE palette[1]

Init ==
  /\ \E b \in Blocks : palette = <<b>>
  /\ bits = 0
  /\ data = [i \in Cells |-> 0]

\* set_width() repacks every index: what does not fit into the new width is cut off.
Repacked(w) == [i \in Cells |-> data[i] % Slots(w)]

\* set(): a new block is appended to the palette, which may widen every index.
Set(i, b) ==
  /\ Get(i) # b
  /\ palette' = IF b \in ToSet(palette) THEN palette ELSE Append(palette, b)
  /\ bits' = IF WidthFor(Len(palette')) > bits THEN WidthFor(Len(palette')) ELSE bits
  /\ \E n \in DOMAIN palette' :
       /\ palette'[n] = b
       /\ data' = [Repacked(bits') EXCEPT ![i] = (n - 1) % Slots(bits')]

Fill(b) ==
  /\ palette' = <<b>>
  /\ bits' = 0
  /\ data' = [i \in Cells |-> 0]

\* A palette of just the blocks in S.  Nothing depends on their order.
Palettes(S) == {q \in [1 .. Cardinality(S) -> S] : IsInjective(q) /\ ToSet(q) = S}

\* The indices of the same blocks in palette q, with the width that it needs.
Rebuilt(q) ==
  /\ palette' = q
  /\ bits' = WidthFor(Len(q))
  /\ data' = [i \in Cells |-> CHOOSE n \in 0 .. Len(q) - 1 : q[n + 1] = Get(i)]

\* compact(): drops the palette's unused entries.
Compact ==
  /\ bits # 0
  /\ \E q \in Palettes({Get(i) : i \in Cells}) : Rebuilt(q)

\* encode_chunk_payload() and decode_chunk_payload(): a chunk that is saved and loaded, or sent
\* to a player.  The new store is filled with the palette's first entry, then each other block
\* is set where it comes.
Transfer ==
  \E q \in Palettes({Get(i) : i \in Cells} \cup {palette[1]}) :
    q[1] = palette[1] /\ Rebuilt(q)

Next ==
  \/ \E i \in Cells, b \in Blocks : Set(i, b)
  \/ \E b \in Blocks : Fill(b)
  \/ Compact
  \/ Transfer

Spec == Init /\ [][Next]_vars

-----------------------------------------------------------------------------
\* The palette names each block once, and the width has room for every index of it.
TypeOK ==
  /\ palette \in Seq(Blocks) /\ palette # <<>> /\ IsInjective(palette)
  /\ bits \in Widths
  /\ Len(palette) <= Slots(bits)
  /\ data \in [Cells -> Nat]
  /\ \A i \in Cells : data[i] < Len(palette)

\* Whatever is set, filled, compacted, saved and loaded: the store is an array of blocks, and
\* no cell changes with another (PalettedChunkStore, chunk_codec.cpp).
Array == INSTANCE BlockArray WITH array <- [i \in Cells |-> Get(i)]

StoreIsAnArray == Array!ArraySpec
=============================================================================
