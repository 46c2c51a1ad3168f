--------------------------- MODULE MCNotifyOnce -----------------------------
(* The instance of NotifyOnce for TLC: two likes of one post, and a visit  *)
(* by a third user, next to each other in the index.  Requests are alike,  *)
(* so that it does not matter which of them does what.                     *)
EXTENDS NotifyOnce

MCInit ==
    /\ Init
    /\ \A r, q \in Requests :
        r < q => key[r] < key[q] \/ (key[r] = key[q] /\ (undo[q] => undo[r]))

MCSpec == MCInit /\ [][Next]_vars /\ Fairness
=============================================================================
