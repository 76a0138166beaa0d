------------------------- MODULE MCWorldReplication -------------------------
(* WorldReplication for TLC: two chunks of one column, where light reaches   *)
(* both, and a player whose view box may hold any of them.                   *)
EXTENDS WorldReplication

CONSTANTS c1, c2, p1

OneColumn == [c \in Coords |-> Coords \ {c}]
AnyView == SUBSET Coords
=============================================================================
