-------------------------- MODULE MCChunkLifecycle --------------------------
(* Players that may want any of the chunks; both chunks in one region file,  *)
(* as chunks of one column are.                                              *)
EXTENDS ChunkLifecycle

MCViews == SUBSET Coords
MCRegionOf == [c \in Coords |-> CHOOSE d \in Coords : TRUE]
=============================================================================
