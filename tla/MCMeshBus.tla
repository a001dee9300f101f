---------------------------- MODULE MCMeshBus ----------------------------
(* MeshBus for TLC.                                                        *)
EXTENDS MeshBus, TLC

Symmetry == Permutations(Posts) \union Permutations(Clicks)
==========================================================================
