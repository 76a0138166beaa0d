------------------------------ MODULE Structures ------------------------------
(***************************************************************************)
(* How WorldGenerator places trees and houses across chunk borders without *)
(* looking at the neighbouring chunks: every chunk recomputes the          *)
(* placements that reach it, and stamps its own cells of them.  The hash   *)
(* of the world's seed is any choice (`dice`), fixed for the world; the    *)
(* checks of ground, height and slope, which read only the terrain before  *)
(* decoration, are part of that choice.                                    *)
(***************************************************************************)
EXTENDS Integers, Sequences, SequencesExt, FiniteSetsExt

CONSTANTS
  Dim,      \* the side of a chunk
  Chunks,   \* chunk coordinates <<x, y, z>>
  Rules,    \* the rules in their order: spacing, size, anchor, cells, rotate, mirror, replace
  Worlds,   \* the sets of rolls that a seed may come to
  Terrain(_)  \* the block at <<x, y, z>> before decoration

VARIABLES
  dice,   \* the rolls that keep an anchor: rule, grid cell, jitter, turn, mirror
  chunk   \* the chunk that was generated, with its blocks

vars == <<dice, chunk>>

\* (mutant) as if the anchor were the centre
Radius_half(r) == Max({r.size[1], r.size[3]}) \div 2

\* How far a structure reaches from its anchor, however it is turned.
Radius(r) ==
  Max({r.anchor[1], r.size[1] - 1 - r.anchor[1], r.anchor[3], r.size[3] - 1 - r.anchor[3]})

\* (mutant) the jitter goes as far as the cell
Side_tight(r) == r.spacing

Side(r) == 2 * r.spacing

\* transform_offset(): mirror, then quarter turns.
Turned(x, z, turn, mirror) ==
  LET dx == IF mirror THEN -x ELSE x
  IN CASE turn = 0 -> <<dx, z>> [] turn = 1 -> <<-z, dx>> [] turn = 2 -> <<-dx, -z>>
       [] OTHER -> <<z, -dx>>

Height(x, z) == Max({-1} \cup {y \in 0 .. 8 : Terrain(<<x, y, z>>) = "ground"})

\* Where a roll puts its anchor.
Placed(d) ==
  LET r == Rules[d.rule]
      x == d.cell[1] * Side(r) + d.jitter[1]
      z == d.cell[2] * Side(r) + d.jitter[2]
  IN [x |-> x, z |-> z, y |-> Height(x, z), rule |-> d.rule, turn |-> d.turn,
      mirror |-> d.mirror]

\* The canonical order of the stamps.
Before(a, b) ==
  \/ a.x < b.x
  \/ a.x = b.x /\ a.z < b.z
  \/ a.x = b.x /\ a.z = b.z /\ a.rule < b.rule

\* (mutant) the rules one after the other, each from the nearest anchor on
Sorted_nearest(ps, x0, z0) ==
  LET Far(p) == Max({p.x - x0, x0 - p.x}) + Max({p.z - z0, z0 - p.z})
  IN SetToSortSeq(ps, LAMBDA a, b : Far(a) < Far(b) \/ (Far(a) = Far(b) /\ Before(a, b)))

Sorted(ps, x0, z0) == SetToSortSeq(ps, Before)

\* structure_placements(): the anchors in a window, from the grid cells that may have one there.
Placements(x0, z0, x1, z1) ==
  LET InGrid(d) ==
        LET r == Rules[d.rule]
        IN /\ (x0 - r.spacing) \div Side(r) <= d.cell[1] /\ d.cell[1] <= x1 \div Side(r)
           /\ (z0 - r.spacing) \div Side(r) <= d.cell[2] /\ d.cell[2] <= z1 \div Side(r)
      InWindow(p) == x0 <= p.x /\ p.x <= x1 /\ z0 <= p.z /\ p.z <= z1
  IN Sorted({p \in {Placed(d) : d \in {e \in dice : InGrid(e)}} : InWindow(p)}, x0, z0)

\* An explicit air cell carves; any other goes where the rule lets it.
Allowed(r, cell, current) ==
  \/ cell = "air" \/ r.replace = "all" \/ current = "air"
  \/ r.replace = "air_and_plants" /\ current = "plant"

\* One placement, stamped into the cells that `blocks` has.
Stamp(blocks, p) ==
  LET r == Rules[p.rule]
      Lands(o) ==
        LET t == Turned(o[1] - r.anchor[1], o[3] - r.anchor[3], p.turn, p.mirror)
        IN <<p.x + t[1], p.y + 1 - r.anchor[2] + o[2], p.z + t[2]>>
  IN [q \in DOMAIN blocks |->
        LET hits == {r.cells[o] : o \in {o \in DOMAIN r.cells : Lands(o) = q}}
        IN IF \E c \in hits : c # "keep" /\ Allowed(r, c, blocks[q])
           THEN CHOOSE c \in hits : TRUE ELSE blocks[q]]

CellsOf(c) ==
  {<<x, y, z>> : x \in c[1] * Dim .. c[1] * Dim + Dim - 1,
                 y \in c[2] * Dim .. c[2] * Dim + Dim - 1,
                 z \in c[3] * Dim .. c[3] * Dim + Dim - 1}

\* stamp_structures(): all placements near enough to reach the chunk, unless above or below it.
Generated(c) ==
  LET far == Max({Radius(Rules[i]) : i \in DOMAIN Rules})
      Reaches(p) ==
        LET r == Rules[p.rule]
            base == p.y + 1 - r.anchor[2]
        IN base + r.size[2] - 1 >= c[2] * Dim /\ base <= c[2] * Dim + Dim - 1
      near == Placements(c[1] * Dim - far, c[3] * Dim - far,
                         c[1] * Dim + Dim - 1 + far, c[3] * Dim + Dim - 1 + far)
  IN FoldLeft(Stamp, [q \in CellsOf(c) |-> Terrain(q)], SelectSeq(near, Reaches))

NoChunk == [at |-> <<>>, blocks |-> <<>>]

Init == dice \in Worlds /\ chunk = NoChunk

\* A worker of the pool generates a chunk.  It reads nothing that another one writes, so one
\* chunk of each behaviour stands for all.
Generate(c) ==
  /\ chunk = NoChunk
  /\ chunk' = [at |-> c, blocks |-> Generated(c)]
  /\ UNCHANGED dice

Next == \E c \in Chunks : Generate(c)

Spec == Init /\ [][Next]_vars

-----------------------------------------------------------------------------
TypeOK == chunk = NoChunk \/ (chunk.at \in Chunks /\ DOMAIN chunk.blocks = CellsOf(chunk.at))

\* What every chunk is a part of: the placements of the whole world stamped one after another.
Whole(cells) ==
  FoldLeft(Stamp, [q \in cells |-> Terrain(q)],
           SetToSortSeq({Placed(d) : d \in dice}, Before))

\* A chunk has just what the whole world would have there, whichever neighbours its
\* structures come from: "overlaps resolve the same way in every chunk".
SeamsAgree == chunk # NoChunk => chunk.blocks = Whole(CellsOf(chunk.at))

\* Two anchors of a rule are at least its spacing apart, on one axis at least.
AnchorsApart ==
  \A d, e \in dice :
    d.rule = e.rule /\ d # e =>
      LET a == Placed(d)
          b == Placed(e)
          s == Rules[d.rule].spacing
      IN a.x - b.x >= s \/ b.x - a.x >= s \/ a.z - b.z >= s \/ b.z - a.z >= s
=============================================================================
