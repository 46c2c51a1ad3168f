------------------------------- MODULE MCBadge -------------------------------
(* Instances of Badge for TLC: one process stores all notifications.       *)
EXTENDS Badge

MCWriterAt == LET p == CHOOSE q \in Procs : TRUE IN [n \in Notes |-> p]
=============================================================================
