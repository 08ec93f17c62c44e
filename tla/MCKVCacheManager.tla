-------------------------- MODULE MCKVCacheManager --------------------------
(***************************************************************************)
(* KVCacheManager for the model checker.                                   *)
(***************************************************************************)
EXTENDS KVCacheManager

CONSTANTS c1, c2, background

ThreeUpdaters == {c1, c2, background}

\* With two blocks: room for two handles of the small shape, or for one of the
\* large; a large one begun when a block is gone fails halfway.
SmallShapes == {<<1, 1>>, <<2, 1>>}

=============================================================================
