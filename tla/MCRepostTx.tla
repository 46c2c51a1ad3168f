----------------------------- MODULE MCRepostTx -----------------------------
(* Instances of RepostTx for TLC.                                          *)
EXTENDS RepostTx, TLC

CONSTANTS alice, bob, carol, p1

AuthorOf == (p1 :> alice)

BobDoesItAll ==
    (alice :> {"repost", "deletePost"}) @@ (bob :> {"repost", "unrepost", "deleteCopy"})
        @@ (carol :> {"repost", "unrepost"})

OneOfBob == {[user |-> bob, post |-> p1]}

GapLocksOrUniqueKey ==
    {[repeatableRead |-> TRUE, uniqueCopies |-> FALSE],
     [repeatableRead |-> FALSE, uniqueCopies |-> TRUE]}

Symmetry == Permutations(Requests)
=============================================================================
