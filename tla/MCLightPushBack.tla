---------------------------- MODULE MCLightPushBack ----------------------------
(* A border between two chunks for the one claim of lighting.hpp that a push      *)
(* need not be answered (Lighting).                                               *)
EXTENDS Lighting

\* Two chunks of 6 x 3 x 2: solid rock, but a shaft at the border that the edit opens, and
\* a crooked passage beside it that comes back into the first chunk.
Wide == <<6, 3, 2>>
Pair == {<<0, 0, 0>>, <<1, 0, 0>>}
Passage ==
  {<<5, 2, 0>>, <<5, 0, 1>>, <<5, 1, 0>>, <<6, 0, 0>>, <<6, 1, 0>>, <<6, 0, 1>>}
Rock == {[p \in Cells |-> IF p \in Passage THEN "air" ELSE "stone"]}
Shaft == {<<5, 2, 0>>}
=============================================================================
