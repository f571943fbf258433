--------------------------- MODULE MCMeshManager ---------------------------
(* Small instances of MeshManager.                                         *)
EXTENDS MeshManager, TLC

MCSymmetry == Permutations(Workers) \cup Permutations(Builtin)
=============================================================================
