--------------------------- MODULE MCChunkRecords ---------------------------
(* Instances of ChunkRecords for TLC. *)
EXTENDS ChunkRecords, TLC

NamedSymmetry == Permutations(Named)
=============================================================================
