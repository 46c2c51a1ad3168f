----------------------------- MODULE MCEventGC ------------------------------
(* The instance of EventGC for TLC: EventGC.cfg gives the constants.       *)
EXTENDS EventGC
=============================================================================
