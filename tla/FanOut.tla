------------------------------- MODULE FanOut -------------------------------
(***************************************************************************)
(* What the relay of internal/notify promises to its processes, without a  *)
(* clock, a cursor, a batch or a poll: one log of events, and processes    *)
(* that each hear it in the order of its places.                           *)
(*                                                                         *)
(* An event takes the next place of the log before it is there, and may    *)
(* never be.  A process joins the log at a place with nothing there beyond *)
(* it; from then on it hears every event past that place, in order, unless *)
(* the event is cancelled or leaves the log first.  It never hears an      *)
(* event while one with an earlier place may still appear.                 *)
(*                                                                         *)
(* Module EventBus implements this specification; module Badge builds on   *)
(* it.                                                                     *)
(***************************************************************************)
EXTENDS Integers

CONSTANTS
    Procs,  \* the API processes
    Events  \* the events that will ever be written

VARIABLES
    place,  \* place[e]: its place in the log, 0 until it has one
    fate,   \* fate[e]: what has become of it
    last,   \* the last place taken
    on,     \* on[p]: p is listening
    from,   \* from[p]: the place p joined at
    heard   \* heard[p]: the events p has heard since

log == <<place, fate, last>>
ears == <<on, from, heard>>
vars == <<log, ears>>

Fates == {"none", "numbered", "visible", "failed", "purged"}
Gone == {"failed", "purged"}

TypeOK ==
    /\ place \in [Events -> Nat]
    /\ fate \in [Events -> Fates]
    /\ last \in Nat
    /\ on \in [Procs -> BOOLEAN]
    /\ from \in [Procs -> Nat]
    /\ heard \in [Procs -> SUBSET Events]

Init ==
    /\ place = [e \in Events |-> 0]
    /\ fate = [e \in Events |-> "none"]
    /\ last = 0
    /\ on = [p \in Procs |-> FALSE]
    /\ from = [p \in Procs |-> 0]
    /\ heard = [p \in Procs |-> {}]

-----------------------------------------------------------------------------
(* The log.                                                                *)

Enter(e) ==
    /\ fate[e] = "none"
    /\ place' = [place EXCEPT ![e] = last + 1]
    /\ fate' = [fate EXCEPT ![e] = "numbered"]
    /\ last' = last + 1
    /\ UNCHANGED ears

Appear(e) ==
    /\ fate[e] = "numbered"
    /\ fate' = [fate EXCEPT ![e] = "visible"]
    /\ UNCHANGED <<place, last, ears>>

Cancel(e) ==
    /\ fate[e] \in {"none", "numbered"}
    /\ fate' = [fate EXCEPT ![e] = "failed"]
    /\ UNCHANGED <<place, last, ears>>

(* Events leave the log from its front.                                    *)
Expire(S) ==
    /\ \A e \in S : fate[e] = "visible"
    /\ \A e \in S, f \in Events :
        0 < place[f] /\ place[f] < place[e] => f \in S \/ fate[f] \in Gone
    /\ fate' = [e \in Events |-> IF e \in S THEN "purged" ELSE fate[e]]
    /\ UNCHANGED <<place, last, ears>>

-----------------------------------------------------------------------------
(* The processes.                                                          *)

Join(p, here) ==
    /\ ~ on[p]
    /\ here =< last
    /\ \A e \in Events : fate[e] = "visible" => place[e] =< here
    /\ on' = [on EXCEPT ![p] = TRUE]
    /\ from' = [from EXCEPT ![p] = here]
    /\ UNCHANGED <<heard, log>>

(* Nothing before e is left for p to hear.                                 *)
UpTo(p, e) ==
    \A f \in Events :
        from[p] < place[f] /\ place[f] < place[e] => f \in heard[p] \/ fate[f] \in Gone

(* An event that has just left the log may still be on its way to p.       *)
Hear(p, e) ==
    /\ on[p]
    /\ fate[e] \in {"visible", "purged"}
    /\ from[p] < place[e]
    /\ e \notin heard[p]
    /\ UpTo(p, e)
    /\ heard' = [heard EXCEPT ![p] = @ \union {e}]
    /\ UNCHANGED <<on, from, log>>

Leave(p) ==
    /\ on[p]
    /\ on' = [on EXCEPT ![p] = FALSE]
    /\ from' = [from EXCEPT ![p] = 0]
    /\ heard' = [heard EXCEPT ![p] = {}]
    /\ UNCHANGED log

-----------------------------------------------------------------------------
Write(e) == Enter(e) \/ Appear(e) \/ Cancel(e)

Listen(p) ==
    \/ \E here \in 0 .. last : Join(p, here)
    \/ \E e \in Events : Hear(p, e)
    \/ Leave(p)

Next ==
    \/ \E e \in Events : Write(e)
    \/ \E S \in SUBSET Events : Expire(S)
    \/ \E p \in Procs : Listen(p)

Spec == Init /\ [][Next]_vars
=============================================================================
