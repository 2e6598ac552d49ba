---------------------------- MODULE MCConnection ----------------------------
(* Small instances of Connection for TLC.                                  *)
EXTENDS Connection, TLC

\* Buffers are interchangeable; the order of connections is not relevant.
Symmetry == Permutations(Buffers) \cup Permutations(Conns)
=============================================================================
