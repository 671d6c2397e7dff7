--------------------------- MODULE MCTaskLifecycle ---------------------------
(* TLC instances of TaskLifecycle. *)
EXTENDS TaskLifecycle, TLC

\* Bounds what attempts counts; AutomaticOnce speaks of one and of two.
Counting == \A t \in Tasks : attempts[t] <= 2
==============================================================================
