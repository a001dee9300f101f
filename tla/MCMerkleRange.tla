--------------------------- MODULE MCMerkleRange ---------------------------
(* MerkleRange for TLC: a leaf, and the node over it twice, which           *)
(* append_data makes a leaf when it is given the leaf's digest twice.       *)
EXTENDS MerkleRange

CONSTANT leaf

MCWords == {leaf, HashPair(leaf, leaf)}
============================================================================
