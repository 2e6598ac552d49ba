---------------------------- MODULE MCThreadPool ----------------------------
(* Small instances of ThreadPool for TLC.                                  *)
EXTENDS ThreadPool

CONSTANTS t1, t3

\* Running t1 may enqueue t3.
MCSpawns == [t \in Tasks |-> IF t = t1 THEN {t3} ELSE {}]
=============================================================================
