---------------------------- MODULE MCEventBus ------------------------------
(* Instances of EventBus for TLC.                                          *)
EXTENDS EventBus, TLC

Symmetry == Permutations(Procs) \union Permutations(Events)
=============================================================================
