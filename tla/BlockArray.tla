------------------------------ MODULE BlockArray ------------------------------
(* What a chunk's block storage promises: a block in every cell, and nothing     *)
(* else changes when one is set.                                                 *)
CONSTANTS Cells, Blocks

VARIABLE array

InitArray == \E b \in Blocks : array = [i \in Cells |-> b]

SetCell(i, b) == array' = [array EXCEPT ![i] = b]

FillCells(b) == array' = [i \in Cells |-> b]

NextArray ==
  \/ \E i \in Cells, b \in Blocks : SetCell(i, b)
  \/ \E b \in Blocks : FillCells(b)

ArraySpec == InitArray /\ [][NextArray]_array
=============================================================================
