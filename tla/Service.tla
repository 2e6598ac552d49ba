------------------------------- MODULE Service -------------------------------
(***************************************************************************)
(* What mycppwebfw::core::Server promises to those who connect to it and to*)
(* those who stop it: it takes connections until it is told to stop, then  *)
(* lets go of the ones it has and returns when none is left.  How it gets  *)
(* there is the subject of Server, which implements this module.           *)
(***************************************************************************)
CONSTANT Conns   \* the connections there can be, each made at most once

VARIABLES
    phase,     \* "serving", "draining", "returned", or "failed"
    seen,      \* the connections that have been taken
    clients    \* those that are being served

vars == <<phase, seen, clients>>

Init ==
    /\ phase = "serving"
    /\ seen = {}
    /\ clients = {}

Connect(c) ==
    /\ phase = "serving"
    /\ c \notin seen
    /\ seen' = seen \cup {c}
    /\ clients' = clients \cup {c}
    /\ UNCHANGED phase

\* Whatever ends it: the last response, an error, a timeout or the shutdown.
Disconnect(c) ==
    /\ phase \in {"serving", "draining"}
    /\ clients' = clients \ {c}
    /\ UNCHANGED <<phase, seen>>

\* From here on no connection is taken.
BeginShutdown ==
    /\ phase = "serving"
    /\ phase' = "draining"
    /\ UNCHANGED <<seen, clients>>

Return ==
    /\ phase = "draining"
    /\ clients = {}
    /\ phase' = "returned"
    /\ UNCHANGED <<seen, clients>>

\* The process has a fault; nothing is promised of the clients it had.
Fail ==
    /\ phase \in {"serving", "draining"}
    /\ phase' = "failed"
    /\ clients' \subseteq seen
    /\ UNCHANGED seen

Next ==
    \/ \E c \in Conns : Connect(c) \/ Disconnect(c)
    \/ BeginShutdown \/ Return \/ Fail

Spec == Init /\ [][Next]_vars
=============================================================================
