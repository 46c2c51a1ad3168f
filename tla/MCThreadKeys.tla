---------------------------- MODULE MCThreadKeys ----------------------------
(* The instances of ThreadKeys for TLC.                                    *)
EXTENDS ThreadKeys, TLC

Symmetry == Permutations(Requests)
=============================================================================
