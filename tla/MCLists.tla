------------------------------- MODULE MCLists -------------------------------
(* Instances of Lists for TLC: notifications of two types in turn.         *)
EXTENDS Lists

MCTypeOf == [k \in Keys |-> IF k % 2 = 0 THEN "like" ELSE "reply"]
=============================================================================
