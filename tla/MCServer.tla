------------------------------ MODULE MCServer ------------------------------
(* Small instances of Server for TLC.                                      *)
EXTENDS Server, TLC

\* Buffers and connections are interchangeable.
Symmetry == Permutations(Buffers) \cup Permutations(Conns)
=============================================================================
