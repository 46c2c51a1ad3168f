------------------------------ MODULE EventBus ------------------------------
(***************************************************************************)
(* The SSE relay of the Sakuravel backend (internal/notify).               *)
(*                                                                         *)
(* Request handlers of any API process INSERT rows into the table          *)
(* sse_events of the shared MariaDB; every API process runs one poller     *)
(* that reads the rows past its cursor and hands each to bus.deliver; a    *)
(* garbage collector deletes the rows that outlived their retention.       *)
(*                                                                         *)
(* An INSERT is not atomic.  created_at is the start of the statement      *)
(* (NOW(6)), the id is drawn from the AUTO_INCREMENT counter later, and    *)
(* the row becomes visible only at the commit.  The poller therefore       *)
(* leaves alone any row younger than pollLag.  Time is relative: every     *)
(* event carries its age in ticks, and ages saturate once no comparison of *)
(* the code can tell them apart.                                           *)
(***************************************************************************)
EXTENDS Integers, FiniteSets

CONSTANTS
    Procs,         \* the API processes
    Events,        \* the events that will ever be written
    BatchSize,     \* NOTIFY_POLL_BATCH: rows per poll
    GcBatchSize,   \* NOTIFY_GC_BATCH: rows per DELETE
    PollLag,       \* pollLag, in ticks
    Retention,     \* NOTIFY_RETENTION_SEC, in ticks
    InsertSpan,    \* the longest an INSERT stays unfinished, in ticks
    PollBound,     \* a live poller hands over a row before this age (see Tick)
    OrderedStamps  \* TRUE: ids are drawn in the order of created_at

ASSUME EventsAssumption == IsFiniteSet(Events)

ASSUME SizesAssumption == BatchSize \in Nat \ {0} /\ GcBatchSize \in Nat \ {0}

ASSUME TimesAssumption ==
    /\ PollLag \in Nat /\ Retention \in Nat /\ InsertSpan \in Nat
    /\ PollBound \in Nat /\ PollLag < Retention
    /\ OrderedStamps \in BOOLEAN

VARIABLES
    st,      \* st[e]: where the row of e stands in its life
    id,      \* id[e]: its AUTO_INCREMENT value, 0 until one is drawn
    age,     \* age[e]: ticks since its created_at, saturating
    nextId,  \* the AUTO_INCREMENT counter
    pc,      \* pc[p]: where the poller of p is
    cursor,  \* cursor[p]: runPoller's cursor
    base,    \* base[p]: the value initialCursor gave it
    batch,   \* batch[p]: rows read and not yet handed to deliver
    next,    \* next[p]: pollOnce's next
    got,     \* got[p][e]: times e was handed to deliver since p started, up to 2
    erred    \* erred[p]: a poll of p has failed since p started

table == <<st, id, age, nextId>>
poller == <<pc, cursor, base, batch, next, got, erred>>
vars == <<table, poller>>

Stages == {"none", "stamped", "numbered", "visible", "failed", "purged"}
MaxAge == Retention + 1

(* An INSERT that has begun and has neither committed nor failed.          *)
Pending(e) == st[e] \in {"stamped", "numbered"}
Visible == {e \in Events : st[e] = "visible"}
Up == {p \in Procs : pc[p] # "down"}

(* ORDER BY id LIMIT n                                                     *)
Lowest(S, n) == {e \in S : Cardinality({f \in S : id[f] < id[e]}) < n}

(* The largest id of a set of rows, and low when there is none.            *)
MaxIdOf(S, low) ==
    IF S = {} THEN low
    ELSE CHOOSE i \in {id[e] : e \in S} : \A e \in S : id[e] =< i

TypeOK ==
    /\ st \in [Events -> Stages]
    /\ id \in [Events -> Nat]
    /\ age \in [Events -> 0 .. MaxAge]
    /\ nextId \in Nat \ {0}
    /\ pc \in [Procs -> {"down", "idle", "ok", "error"}]
    /\ cursor \in [Procs -> Nat]
    /\ base \in [Procs -> Nat]
    /\ batch \in [Procs -> SUBSET Events]
    /\ next \in [Procs -> Nat]
    /\ got \in [Procs -> [Events -> 0 .. 2]]
    /\ erred \in [Procs -> BOOLEAN]

Init ==
    /\ st = [e \in Events |-> "none"]
    /\ id = [e \in Events |-> 0]
    /\ age = [e \in Events |-> 0]
    /\ nextId = 1
    /\ pc = [p \in Procs |-> "down"]
    /\ cursor = [p \in Procs |-> 0]
    /\ base = [p \in Procs |-> 0]
    /\ batch = [p \in Procs |-> {}]
    /\ next = [p \in Procs |-> 0]
    /\ got = [p \in Procs |-> [e \in Events |-> 0]]
    /\ erred = [p \in Procs |-> FALSE]

-----------------------------------------------------------------------------
(* The clock of the database.                                              *)

Aged(a) == IF a < MaxAge THEN a + 1 ELSE a

(* Rows the poller of p has still to hand over.                            *)
Unread(p) == {e \in Visible : id[e] > base[p] /\ got[p][e] = 0}

(* Two upper bounds on durations are stated here as what time may not do:  *)
(* no INSERT lasts longer than InsertSpan, and no live poller lets a row   *)
(* reach the age PollBound unread.  PollBound > MaxAge states nothing.     *)
Tick ==
    /\ \A e \in Events : Pending(e) => age[e] < InsertSpan
    /\ \A p \in Up : \A e \in Unread(p) : age[e] < PollBound
    /\ age' = [e \in Events |-> IF st[e] = "none" THEN 0 ELSE Aged(age[e])]
    /\ UNCHANGED <<st, id, nextId, poller>>

-----------------------------------------------------------------------------
(* A handler writes an event row: notify.Publish or PublishReply.          *)

(* The statement starts, which is what created_at DEFAULT NOW(6) records.  *)
BeginInsert(e) ==
    /\ st[e] = "none"
    /\ st' = [st EXCEPT ![e] = "stamped"]
    /\ age' = [age EXCEPT ![e] = 0]
    /\ UNCHANGED <<id, nextId, poller>>

(* The row draws its id.  Statements that run at the same time may reach   *)
(* the counter in another order than they started in, unless OrderedStamps.*)
AssignId(e) ==
    /\ st[e] = "stamped"
    /\ OrderedStamps => \A f \in Events : st[f] = "stamped" => age[f] =< age[e]
    /\ st' = [st EXCEPT ![e] = "numbered"]
    /\ id' = [id EXCEPT ![e] = nextId]
    /\ nextId' = nextId + 1
    /\ UNCHANGED <<age, poller>>

Commit(e) ==
    /\ st[e] = "numbered"
    /\ st' = [st EXCEPT ![e] = "visible"]
    /\ UNCHANGED <<id, age, nextId, poller>>

(* An error, the deadline of the handler or the death of its process: the  *)
(* handler logs and gives up, and a drawn id stays a hole.                 *)
Fail(e) ==
    /\ Pending(e)
    /\ st' = [st EXCEPT ![e] = "failed"]
    /\ UNCHANGED <<id, age, nextId, poller>>

-----------------------------------------------------------------------------
(* The poller of process p.                                                *)

(* bus.Start: the cursor starts at MAX(id), 0 for an empty table.          *)
InitialCursor == MaxIdOf(Visible, 0)

Start(p) ==
    /\ pc[p] = "down"
    /\ pc' = [pc EXCEPT ![p] = "idle"]
    /\ cursor' = [cursor EXCEPT ![p] = InitialCursor]
    /\ base' = [base EXCEPT ![p] = InitialCursor]
    /\ UNCHANGED <<table, batch, next, got, erred>>

ReadableAtOnce(p) == {e \in Visible : id[e] > cursor[p]}

(* The rows pollQuery selects, before LIMIT.                               *)
Readable(p) == {e \in Visible : id[e] > cursor[p] /\ age[e] > PollLag}

(* A poll reads rows to the end, or breaks off after some of them; either  *)
(* way what was read will be delivered.  A poll that reads nothing changes *)
(* nothing and is left out, and so is the pause between two polls.         *)
Read(p, rows, result) ==
    /\ pc[p] = "idle"
    /\ rows # {}
    /\ pc' = [pc EXCEPT ![p] = result]
    /\ batch' = [batch EXCEPT ![p] = rows]
    /\ next' = [next EXCEPT ![p] = MaxIdOf(rows, cursor[p])]
    /\ erred' = [erred EXCEPT ![p] = @ \/ result = "error"]
    /\ UNCHANGED <<table, cursor, base, got>>

PollOk(p) == Read(p, Lowest(Readable(p), BatchSize), "ok")

PollError(p) ==
    \E n \in 1 .. BatchSize : Read(p, Lowest(Readable(p), n), "error")

(* The rows of the batch are handed to bus.deliver in the order of id.     *)
Deliver(p) ==
    /\ pc[p] \in {"ok", "error"}
    /\ \E e \in batch[p] :
        /\ \A f \in batch[p] : id[e] =< id[f]
        /\ batch' = [batch EXCEPT ![p] = @ \ {e}]
        /\ got' = [got EXCEPT ![p][e] = IF @ < 2 THEN @ + 1 ELSE @]
    /\ UNCHANGED <<table, pc, cursor, base, next, erred>>

AfterPollUnmoved(p) == cursor[p]
AfterPollJump(p) == nextId - 1

(* What runPoller makes of pollOnce's next: on an error it is dropped.     *)
AfterPoll(p) == IF pc[p] = "ok" THEN next[p] ELSE cursor[p]

PollEnd(p) ==
    /\ pc[p] \in {"ok", "error"}
    /\ batch[p] = {}
    /\ pc' = [pc EXCEPT ![p] = "idle"]
    /\ cursor' = [cursor EXCEPT ![p] = AfterPoll(p)]
    /\ next' = [next EXCEPT ![p] = 0]
    /\ UNCHANGED <<table, base, batch, got, erred>>

(* The process stops or dies; cursor and batch were only in its memory.    *)
Stop(p) ==
    /\ pc[p] # "down"
    /\ pc' = [pc EXCEPT ![p] = "down"]
    /\ cursor' = [cursor EXCEPT ![p] = 0]
    /\ base' = [base EXCEPT ![p] = 0]
    /\ batch' = [batch EXCEPT ![p] = {}]
    /\ next' = [next EXCEPT ![p] = 0]
    /\ got' = [got EXCEPT ![p] = [e \in Events |-> 0]]
    /\ erred' = [erred EXCEPT ![p] = FALSE]
    /\ UNCHANGED table

-----------------------------------------------------------------------------
(* One DELETE of the garbage collector.  Module EventGC models which       *)
(* process may run it.                                                     *)

GcVictims == Lowest({e \in Visible : age[e] > Retention}, GcBatchSize)

Purge ==
    /\ Up # {}
    /\ GcVictims # {}
    /\ st' = [e \in Events |-> IF e \in GcVictims THEN "purged" ELSE st[e]]
    /\ UNCHANGED <<id, age, nextId, poller>>

-----------------------------------------------------------------------------
Insert(e) == BeginInsert(e) \/ AssignId(e) \/ Commit(e) \/ Fail(e)

Poll(p) == PollOk(p) \/ PollError(p) \/ Deliver(p) \/ PollEnd(p)

Next ==
    \/ Tick
    \/ \E e \in Events : Insert(e)
    \/ \E p \in Procs : Start(p) \/ Poll(p) \/ Stop(p)
    \/ Purge

Spec == Init /\ [][Next]_vars

(* The clock runs, a begun INSERT ends, a poller whose ticker keeps firing *)
(* goes on, and the database answers a poll now and then however often it  *)
(* fails in between.                                                       *)
Fairness ==
    /\ WF_vars(Tick)
    /\ \A e \in Events : WF_vars(AssignId(e)) /\ WF_vars(Commit(e) \/ Fail(e))
    /\ \A p \in Procs :
        /\ SF_vars(PollOk(p))
        /\ WF_vars(Deliver(p))
        /\ WF_vars(PollEnd(p))

FairSpec == Spec /\ Fairness

-----------------------------------------------------------------------------
(* The assumption pollLag rests on: ids follow created_at, and an INSERT   *)
(* is over before its row is old enough to be read.                        *)
LagAssumption == OrderedStamps /\ InsertSpan =< PollLag

(* Nothing is left to do about e at p: it was handed to deliver, or its    *)
(* INSERT failed, or it outlived the retention.                            *)
Settled(p, e) == got[p][e] > 0 \/ st[e] \in {"failed", "purged"}

(* No event is lost behind a cursor: when runPoller has moved past an id   *)
(* (poller.go, cursor = next), the event of that id was delivered, or will *)
(* never be a row again.  An INSERT still in flight is never passed.       *)
CursorPassesSettled ==
    \A p \in Up, e \in Events :
        base[p] < id[e] /\ id[e] =< cursor[p] => Settled(p, e)

(* What a process has delivered has no gaps (pollQuery's ORDER BY id and   *)
(* created_at bound): below any delivered event, everything written since  *)
(* the process fixed its cursor is settled too.  This and the next formula *)
(* are what the refinement below rests on.                                 *)
GapFree ==
    \A p \in Up, e, f \in Events :
        got[p][e] > 0 /\ base[p] < id[f] /\ id[f] < id[e] => Settled(p, f)

(* The garbage collector (gc.go, ORDER BY id LIMIT) empties the table from *)
(* the front: below a purged row nothing is left, in the table or in an    *)
(* INSERT under way.                                                       *)
PurgedPrefix ==
    \A e, f \in Events :
        st[e] = "purged" /\ 0 < id[f] /\ id[f] < id[e] => st[f] \in {"failed", "purged"}

(* A process hands an event to deliver twice only after a poll of its own  *)
(* has failed (pollOnce then leaves the cursor behind what it delivered).  *)
AtMostOnce == \A p \in Procs, e \in Events : ~ erred[p] => got[p][e] =< 1

(* An event that is committed is delivered by every process that was up    *)
(* before its id was drawn, unless that process goes down.                 *)
EventuallyDelivered ==
    \A p \in Procs, e \in Events :
        (pc[p] # "down" /\ st[e] = "visible" /\ id[e] > base[p])
            ~> (pc[p] = "down" \/ got[p][e] > 0)

-----------------------------------------------------------------------------
(* The abstract log this relay implements.                                 *)

(* An INSERT without an id is not yet part of the log.                     *)
Fate(e) == IF st[e] = "stamped" THEN "none" ELSE st[e]

FO == INSTANCE FanOut WITH
    place <- id,
    fate <- [e \in Events |-> Fate(e)],
    last <- nextId - 1,
    on <- [p \in Procs |-> pc[p] # "down"],
    from <- base,
    heard <- [p \in Procs |-> {e \in Events : got[p][e] > 0}]

(* The relay (notify.go, poller.go, gc.go) is a log that every process     *)
(* hears in order and without gaps from the place it joined at: a process  *)
(* never delivers an event while an earlier one may still become visible,  *)
(* and rows leave the table from the front only.                           *)
ImplementsFanOut == FO!Spec
=============================================================================
