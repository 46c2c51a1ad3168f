---------------------------- MODULE MCStreamHub -----------------------------
(* Instances of StreamHub for TLC: a user, with two connections, and a     *)
(* thread with one; notifications alternate with replies.                  *)
EXTENDS StreamHub, TLC

CONSTANTS user, thread, c1, c2, c3

MCKeyOf == [e \in Events |-> IF e % 2 = 1 THEN user ELSE thread]
MCWatched == [c \in Conns |-> IF c = c3 THEN thread ELSE user]
=============================================================================
