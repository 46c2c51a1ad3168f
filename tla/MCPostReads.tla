----------------------------- MODULE MCPostReads -----------------------------
(* The instance of PostReads for TLC.                                      *)
EXTENDS PostReads
=============================================================================
