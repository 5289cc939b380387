------------------------- MODULE MCModelCheckpoint -------------------------
(* Two generated ids beside the three distilled ones.                       *)
EXTENDS ModelCheckpoint, TLC

CONSTANTS x, y

Generated == Permutations({x, y})
=============================================================================
