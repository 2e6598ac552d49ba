---------------------------- MODULE MCBufferPool ----------------------------
(* Small instances of BufferPool for TLC.                                  *)
EXTENDS BufferPool, TLC

\* Buffers and clients are interchangeable in every definition.
Symmetry == Permutations(Buffers) \cup Permutations(Clients)
=============================================================================
