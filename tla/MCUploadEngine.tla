--------------------------- MODULE MCUploadEngine ---------------------------
(* Instances of UploadEngine for TLC. *)
EXTENDS UploadEngine

CONSTANTS LastChunk, MaxParallel

ChunkIndices == 0..LastChunk
Slots        == 1..MaxParallel

=============================================================================
