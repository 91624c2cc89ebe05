-------------------------- MODULE MCUploadSession --------------------------
(* Instances of UploadSession for TLC. *)
EXTENDS UploadSession, TLC

\* Handlers and contents are interchangeable; chunks are too, because the
\* session, not the chunk, carries the order of steps.
Symmetry == Permutations(Calls) \cup Permutations(Contents) \cup Permutations(Chunks)

=============================================================================
