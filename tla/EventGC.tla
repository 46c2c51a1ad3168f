------------------------------ MODULE EventGC -------------------------------
(***************************************************************************)
(* The garbage collector of sse_events (internal/notify/gc.go).            *)
(*                                                                         *)
(* Every API process runs runGC; a named lock of the database server       *)
(* (GET_LOCK) lets one of them delete at a time.  The lock belongs to a    *)
(* server session, i.e. to one connection: it outlives the pass when its   *)
(* release fails, and the process when its death goes unnoticed, until the *)
(* server ends the session.  A session that runs a statement is not ended  *)
(* before the statement is.                                                *)
(***************************************************************************)
EXTENDS Integers, FiniteSets

CONSTANTS
    Collectors,   \* the API processes, each with its runGC
    Sessions,     \* the server sessions there can be at a time
    None,         \* no session, no process
    DeleteBatch,  \* NOTIFY_GC_BATCH
    MaxRows,      \* rows that ever outlive the retention (a bound)
    MaxFaults     \* failures and deaths of processes (a bound)

ASSUME GcAssumption ==
    /\ None \notin Sessions \union Collectors
    /\ DeleteBatch \in Nat \ {0} /\ MaxRows \in Nat /\ MaxFaults \in Nat

VARIABLES
    pass,     \* pass[p]: where gcOnce of p stands
    stopping, \* stopping[p]: the context of p is cancelled (SIGTERM)
    conn,     \* conn[p]: the connection gcOnce holds
    owner,    \* owner[s]: the process whose pool s belongs to
    sess,     \* sess[s]: "unused", "pooled", "taken" or "orphan"
    holder,   \* the session that holds the named lock
    depth,    \* how often it has taken it: GET_LOCK is re-entrant
    running,  \* the sessions in which the server executes a DELETE
    old,      \* rows in the table past their retention
    fresh,    \* rows that will get there
    silent,   \* the database, or the way to it, answers nobody
    faults    \* failures so far

procVars == <<pass, stopping, conn>>
lockVars == <<holder, depth>>
troubles == <<silent, faults>>
gcVars == <<procVars, owner, sess, lockVars, running, old, fresh, troubles>>

GcTypeOK ==
    /\ pass \in [Collectors -> {"down", "idle", "lock", "delete", "deleting", "release"}]
    /\ stopping \in [Collectors -> BOOLEAN]
    /\ conn \in [Collectors -> Sessions \union {None}]
    /\ owner \in [Sessions -> Collectors \union {None}]
    /\ sess \in [Sessions -> {"unused", "pooled", "taken", "orphan"}]
    /\ holder \in Sessions \union {None}
    /\ depth \in 0 .. MaxFaults + 1
    /\ running \subseteq Sessions
    /\ old \in 0 .. MaxRows /\ fresh \in 0 .. MaxRows
    /\ silent \in BOOLEAN
    /\ faults \in 0 .. MaxFaults

GcInit ==
    /\ pass = [p \in Collectors |-> "idle"]
    /\ stopping = [p \in Collectors |-> FALSE]
    /\ conn = [p \in Collectors |-> None]
    /\ owner = [s \in Sessions |-> None]
    /\ sess = [s \in Sessions |-> "unused"]
    /\ holder = None /\ depth = 0
    /\ running = {}
    /\ old = 0 /\ fresh = MaxRows
    /\ silent = FALSE /\ faults = 0

Costs == faults < MaxFaults /\ faults' = faults + 1
Fault == Costs /\ UNCHANGED silent

(* A statement of p is answered.                                           *)
Answered(p, where) == pass[p] = where /\ ~ silent

(* conn.Close(): the connection returns to the pool of p.                  *)
BackToPool(p) ==
    /\ sess' = [sess EXCEPT ![conn[p]] = "pooled"]
    /\ conn' = [conn EXCEPT ![p] = None]

-----------------------------------------------------------------------------
(* A pass of gcOnce in process p.                                          *)

MayTake(p) == ~ stopping[p]

(* The ticker fires; db.Conn takes a pooled connection or opens one.       *)
TakeConn(p) ==
    /\ pass[p] = "idle" /\ MayTake(p)
    /\ \E s \in Sessions :
        /\ sess[s] = "unused" \/ (sess[s] = "pooled" /\ owner[s] = p)
        /\ sess' = [sess EXCEPT ![s] = "taken"]
        /\ owner' = [owner EXCEPT ![s] = p]
        /\ conn' = [conn EXCEPT ![p] = s]
    /\ pass' = [pass EXCEPT ![p] = "lock"]
    /\ UNCHANGED <<stopping, lockVars, running, old, fresh, troubles>>

LockFreeForAll(s) == TRUE
LockInverted(s) == holder \notin {None, s}

(* GET_LOCK(name, 0) returns 1.                                            *)
LockFree(s) == holder \in {None, s}

GetLock(p) ==
    /\ Answered(p, "lock")
    /\ LockFree(conn[p])
    /\ holder' = conn[p]
    /\ depth' = depth + 1
    /\ pass' = [pass EXCEPT ![p] = "delete"]
    /\ UNCHANGED <<stopping, conn, owner, sess, running, old, fresh, troubles>>

(* GET_LOCK returns 0: another session has the lock, the pass is over.     *)
GiveUp(p) ==
    /\ Answered(p, "lock")
    /\ ~ LockFree(conn[p])
    /\ pass' = [pass EXCEPT ![p] = "idle"]
    /\ BackToPool(p)
    /\ UNCHANGED <<stopping, owner, lockVars, running, old, fresh, troubles>>

(* GET_LOCK answers NULL or an error: nothing is known to be held, the     *)
(* pass is over, and the next one asks again.                              *)
LockFails(p) ==
    /\ Answered(p, "lock")
    /\ Fault
    /\ pass' = [pass EXCEPT ![p] = "idle"]
    /\ BackToPool(p)
    /\ UNCHANGED <<stopping, owner, lockVars, running, old, fresh>>

(* The server starts a DELETE.  Under a cancelled context none is sent.    *)
BeginDelete(p) ==
    /\ pass[p] = "delete"
    /\ IF stopping[p]
       THEN pass' = [pass EXCEPT ![p] = "release"] /\ UNCHANGED running
       ELSE pass' = [pass EXCEPT ![p] = "deleting"] /\ running' = running \union {conn[p]}
    /\ UNCHANGED <<stopping, conn, owner, sess, lockVars, old, fresh, troubles>>

Deleted == IF old < DeleteBatch THEN old ELSE DeleteBatch

PassNeverOver(p) == FALSE

(* The loop ends on a batch that is not full.                              *)
PassOver(p) == Deleted < DeleteBatch \/ stopping[p]

EndDelete(p) ==
    /\ Answered(p, "deleting")
    /\ running' = running \ {conn[p]}
    /\ old' = old - Deleted
    /\ pass' = [pass EXCEPT ![p] = IF PassOver(p) THEN "release" ELSE "delete"]
    /\ UNCHANGED <<stopping, conn, owner, sess, lockVars, fresh, troubles>>

(* The server rolls the DELETE back; the deferred release still runs.      *)
DeleteFails(p) ==
    /\ Answered(p, "deleting")
    /\ Fault
    /\ running' = running \ {conn[p]}
    /\ pass' = [pass EXCEPT ![p] = "release"]
    /\ UNCHANGED <<stopping, conn, owner, sess, lockVars, old, fresh>>

(* What RELEASE_LOCK leaves of the depth; at 0 the lock is free.           *)
DepthReleased(s) == depth - 1

Release(p) ==
    /\ Answered(p, "release")
    /\ depth' = DepthReleased(conn[p])
    /\ holder' = IF depth' = 0 THEN None ELSE holder
    /\ pass' = [pass EXCEPT ![p] = "idle"]
    /\ BackToPool(p)
    /\ UNCHANGED <<stopping, owner, running, old, fresh, troubles>>

(* RELEASE_LOCK is answered with an error: it is logged, the connection    *)
(* returns to the pool, and the lock with it.                              *)
ReleaseFails(p) ==
    /\ Answered(p, "release")
    /\ Fault
    /\ pass' = [pass EXCEPT ![p] = "idle"]
    /\ BackToPool(p)
    /\ UNCHANGED <<stopping, owner, lockVars, running, old, fresh>>

(* The pass is over and its connection broken; the server does not know.   *)
Abandon(p) ==
    /\ sess' = [sess EXCEPT ![conn[p]] = "orphan"]
    /\ conn' = [conn EXCEPT ![p] = None]
    /\ pass' = [pass EXCEPT ![p] = "idle"]
    /\ UNCHANGED <<stopping, owner, running, old, fresh>>

(* A GET_LOCK nobody waits for any more may have been granted.             *)
LockUnknown(p) ==
    \/ UNCHANGED lockVars
    \/ pass[p] = "lock" /\ LockFree(conn[p]) /\ holder' = conn[p] /\ depth' = depth + 1

LoseConn(p) ==
    /\ pass[p] \in {"lock", "delete", "deleting", "release"}
    /\ Fault
    /\ Abandon(p)
    /\ LockUnknown(p)

(* GET_LOCK and DELETE run under the context that SIGTERM cancels: the     *)
(* driver breaks the connection.                                           *)
Cancel(p) ==
    /\ pass[p] \in {"lock", "deleting"} /\ stopping[p]
    /\ Abandon(p)
    /\ LockUnknown(p)
    /\ UNCHANGED troubles

NoReleaseLockTimeout(p) == FALSE

(* RELEASE_LOCK does not (context.WithoutCancel); its own deadline ends    *)
(* the wait for an answer that does not come.                              *)
ReleaseLockTimeout(p) == pass[p] = "release" /\ silent

ReleaseTimesOut(p) ==
    /\ ReleaseLockTimeout(p)
    /\ Abandon(p)
    /\ UNCHANGED <<lockVars, troubles>>

-----------------------------------------------------------------------------
(* The processes and the server around it.                                 *)

SigTerm(p) ==
    /\ pass[p] # "down" /\ ~ stopping[p]
    /\ stopping' = [stopping EXCEPT ![p] = TRUE]
    /\ UNCHANGED <<pass, conn, owner, sess, lockVars, running, old, fresh, troubles>>

(* The sessions of a process that is gone are the server's to clean up.    *)
Orphaned(p) == [s \in Sessions |-> IF owner[s] = p THEN "orphan" ELSE sess[s]]

(* runGC returns, bus.Wait with it, and main ends.                         *)
Exit(p) ==
    /\ pass[p] = "idle" /\ stopping[p]
    /\ pass' = [pass EXCEPT ![p] = "down"]
    /\ sess' = Orphaned(p)
    /\ UNCHANGED <<stopping, conn, owner, lockVars, running, old, fresh, troubles>>

Crash(p) ==
    /\ pass[p] # "down"
    /\ Fault
    /\ pass' = [pass EXCEPT ![p] = "down"]
    /\ stopping' = [stopping EXCEPT ![p] = TRUE]
    /\ conn' = [conn EXCEPT ![p] = None]
    /\ sess' = Orphaned(p)
    /\ UNCHANGED <<owner, lockVars, running, old, fresh>>

(* appdb.New goes on only when a ping has been answered.                   *)
Restart(p) ==
    /\ Answered(p, "down")
    /\ pass' = [pass EXCEPT ![p] = "idle"]
    /\ stopping' = [stopping EXCEPT ![p] = FALSE]
    /\ UNCHANGED <<conn, owner, sess, lockVars, running, old, fresh, troubles>>

(* The DELETE of a client that has gone runs to its end all the same.      *)
OrphanDeletes(s) ==
    /\ sess[s] = "orphan" /\ s \in running
    /\ running' = running \ {s}
    /\ old' = old - Deleted
    /\ UNCHANGED <<procVars, owner, sess, lockVars, fresh, troubles>>

(* A session ends: the server notices that its client is gone, or the pool *)
(* closes an idle connection (SetConnMaxLifetime, SetConnMaxIdleTime).     *)
EndSession(s) ==
    /\ sess[s] \in {"orphan", "pooled"} /\ s \notin running
    /\ sess' = [sess EXCEPT ![s] = "unused"]
    /\ owner' = [owner EXCEPT ![s] = None]
    /\ IF holder = s THEN holder' = None /\ depth' = 0 ELSE UNCHANGED lockVars
    /\ UNCHANGED <<procVars, running, old, fresh, troubles>>

(* The database stops to answer, and may or may not do so again.           *)
FallSilent ==
    /\ ~ silent
    /\ Costs
    /\ silent' = TRUE
    /\ UNCHANGED <<procVars, owner, sess, lockVars, running, old, fresh>>

SpeakAgain ==
    /\ silent
    /\ silent' = FALSE
    /\ UNCHANGED <<procVars, owner, sess, lockVars, running, old, fresh, faults>>

RowExpires ==
    /\ fresh > 0
    /\ fresh' = fresh - 1 /\ old' = old + 1
    /\ UNCHANGED <<procVars, owner, sess, lockVars, running, troubles>>

-----------------------------------------------------------------------------
(* The steps a process or the server goes on with.                         *)
Pass(p) ==
    \/ TakeConn(p) \/ GetLock(p) \/ GiveUp(p) \/ BeginDelete(p) \/ EndDelete(p)
    \/ Release(p) \/ Cancel(p) \/ ReleaseTimesOut(p) \/ Exit(p)

GcNext ==
    \/ \E p \in Collectors :
        \/ Pass(p) \/ LockFails(p) \/ DeleteFails(p) \/ ReleaseFails(p) \/ LoseConn(p)
        \/ SigTerm(p) \/ Crash(p) \/ Restart(p)
    \/ \E s \in Sessions : OrphanDeletes(s) \/ EndSession(s)
    \/ FallSilent \/ SpeakAgain \/ RowExpires

GcSpec == GcInit /\ [][GcNext]_gcVars

(* A pass goes on, the ticker fires, a process that went down is restarted *)
(* (compose, systemd), the server finishes statements and ends sessions; a *)
(* pooled connection does not escape its maximum lifetime, however often   *)
(* it is taken out in between.                                             *)
GcFairness ==
    /\ \A p \in Collectors : WF_gcVars(Pass(p)) /\ WF_gcVars(Restart(p))
    /\ \A s \in Sessions : WF_gcVars(OrphanDeletes(s)) /\ SF_gcVars(EndSession(s))

GcFairSpec == GcSpec /\ GcFairness

-----------------------------------------------------------------------------
(* gcLockName keeps the garbage collection to one process (gc.go:10): the  *)
(* server never executes two of its DELETEs at a time, not even one that   *)
(* a dead process left behind and one of its successor.                    *)
OneDelete == Cardinality(running) =< 1

(* The lock is never lost for good, whatever failure kept a pass from      *)
(* releasing it (gc.go:36-38, "all GC stops until the connection is        *)
(* discarded"), unless the database is silent for good.                    *)
LockAlwaysFreed == []<>(holder = None) \/ <>[]silent

(* Rows past their retention are eventually deleted, unless processes are  *)
(* stopped over and over, or the database falls silent.                    *)
TableEmptied == (old > 0) ~> (old = 0 \/ silent \/ \E p \in Collectors : stopping[p])

(* bus.Wait returns after SIGTERM: no pass hangs on the database, though   *)
(* it never answers again (releaseLockTimeout, gc.go:14).                  *)
ShutdownReturns == \A p \in Collectors : stopping[p] ~> pass[p] = "down"
=============================================================================
