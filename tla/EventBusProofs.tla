--------------------------- MODULE EventBusProofs ---------------------------
(***************************************************************************)
(* Theorems about the relay of module EventBus, for every number of        *)
(* processes and events, every batch size and every timing; at the end     *)
(* those about its garbage collector, module EventGC.                      *)
(*                                                                         *)
(* The argument.  Ids are drawn in the order of created_at, so of two      *)
(* numbered events the one with the smaller id is at least as old, and     *)
(* every INSERT still without an id is younger than both (StampOrder).  A  *)
(* readable row is older than PollLag, hence than InsertSpan, so every     *)
(* INSERT with a smaller id is over (Young).  A poll that takes the lowest *)
(* readable rows therefore leaves nothing behind that could still appear.  *)
(***************************************************************************)
EXTENDS EventBus, EventGC, FiniteSetTheorems, WellFoundedInduction, TLAPS

(* Ids come from the counter, and only rows that have drawn one have one.  *)
Counter ==
    \A e \in Events :
        /\ id[e] < nextId
        /\ st[e] \in {"none", "stamped"} => id[e] = 0
        /\ st[e] \in {"numbered", "visible", "purged"} => id[e] > 0

Distinct == \A e, f \in Events : id[e] = id[f] /\ id[e] > 0 => e = f

StampOrder ==
    \A e, f \in Events :
        /\ 0 < id[e] /\ id[e] < id[f] => age[f] =< age[e]
        /\ st[e] = "stamped" /\ 0 < id[f] => age[e] =< age[f]

Young == \A e \in Events : Pending(e) => age[e] =< InsertSpan

Down(p) ==
    pc[p] = "down" =>
        /\ base[p] = 0 /\ cursor[p] = 0 /\ batch[p] = {}
        /\ \A e \in Events : got[p][e] = 0

Known(p) == \A e \in Events : e \in batch[p] \/ got[p][e] > 0 => id[e] > 0

Cursors(p) == base[p] =< cursor[p] /\ cursor[p] < nextId /\ next[p] < nextId

Passed(p) ==
    \A e \in Events : base[p] < id[e] /\ id[e] =< cursor[p] => Settled(p, e)

(* Below a row of the batch, everything is in the batch or settled.        *)
Batched(p) ==
    \A e \in batch[p], f \in Events :
        base[p] < id[f] /\ id[f] < id[e] => f \in batch[p] \/ Settled(p, f)

(* So it is below the cursor a successful poll will set.                   *)
Reached(p) ==
    pc[p] = "ok" =>
        /\ cursor[p] =< next[p]
        /\ \A e \in Events :
            base[p] < id[e] /\ id[e] =< next[p] => e \in batch[p] \/ Settled(p, e)

Gaps(p) ==
    \A e, f \in Events :
        got[p][e] > 0 /\ base[p] < id[f] /\ id[f] < id[e] => Settled(p, f)

TableInv == Counter /\ Distinct /\ StampOrder /\ Young /\ PurgedPrefix

PollerInv(p) ==
    /\ Down(p) /\ Known(p) /\ Cursors(p)
    /\ Passed(p) /\ Batched(p) /\ Reached(p) /\ Gaps(p)

Inv == TypeOK /\ TableInv /\ \A p \in Procs : PollerInv(p)

-----------------------------------------------------------------------------
(* A bounded non-empty set of naturals has a largest element.              *)
LEMMA NatMax ==
    ASSUME NEW T \in SUBSET Nat, T # {}, NEW n \in Nat, \A t \in T : t =< n
    PROVE  \E m \in T : \A t \in T : t =< m
<1> DEFINE D == {n - t : t \in T}
           R == {ss \in Nat \X Nat : ss[1] < ss[2]}
<1>1. D \subseteq Nat
    <2>1. \A t \in T : t \in Nat /\ n - t \in Nat
        OBVIOUS
    <2>2. QED
        BY <2>1
<1>2. D # {}
    <2>1. PICK t \in T : TRUE
        OBVIOUS
    <2>2. n - t \in D
        OBVIOUS
    <2>3. QED
        BY <2>2
<1>3. IsWellFoundedOn(R, Nat)
    <2>1. R = OpToRel(<, Nat)
        BY DEF OpToRel
    <2>2. QED
        BY <2>1, NatLessThanWellFounded
<1>4. PICK x \in D : \A y \in D : ~ (<<y, x>> \in R)
    <2> HIDE DEF D, R
    <2> QED
        BY <1>1, <1>2, <1>3, WFMin
<1>5. \A y \in D : x =< y
    <2>1. TAKE y \in D
    <2>2. x \in Nat /\ y \in Nat
        BY <1>1
    <2>3. y < x => <<y, x>> \in R
        BY <2>2
    <2>4. QED
        BY <2>2, <2>3, <1>4
<1>6. PICK m \in T : x = n - m
    OBVIOUS
<1>7. \A t \in T : t =< m
    <2>1. TAKE t \in T
    <2>2. n - t \in D
        OBVIOUS
    <2>3. n - m =< n - t
        BY <1>5, <1>6, <2>2
    <2>4. QED
        BY <2>3
<1>8. QED
    BY <1>7

(* MaxIdOf is the id of one of the rows and bounds them all.               *)
LEMMA MaxIdOfRows ==
    ASSUME TypeOK, Counter, NEW S \in SUBSET Events, S # {}, NEW low
    PROVE  /\ \E e \in S : MaxIdOf(S, low) = id[e]
           /\ \A e \in S : id[e] =< MaxIdOf(S, low)
<1> DEFINE T == {id[e] : e \in S}
<1>1. T \in SUBSET Nat /\ T # {} /\ \A t \in T : t =< nextId
    BY DEF TypeOK, Counter
<1>2. \E m \in T : \A t \in T : t =< m
    BY <1>1, NatMax DEF TypeOK
<1>3. \E i \in T : \A e \in S : id[e] =< i
    BY <1>2
<1>4. MaxIdOf(S, low) = CHOOSE i \in T : \A e \in S : id[e] =< i
    BY DEF MaxIdOf
<1>5. MaxIdOf(S, low) \in T /\ \A e \in S : id[e] =< MaxIdOf(S, low)
    BY <1>3, <1>4
<1>6. QED
    BY <1>5

(* LIMIT cuts a prefix: with a row, Lowest has every lower row of the set. *)
LEMMA LowestPrefix ==
    ASSUME TypeOK, NEW S \in SUBSET Events, NEW n \in Nat,
           NEW e \in Lowest(S, n), NEW f \in S, id[f] < id[e]
    PROVE  f \in Lowest(S, n)
<1> DEFINE B(x) == {g \in S : id[g] < id[x]}
<1>1. e \in Events /\ f \in Events
    BY DEF Lowest
<1>2. B(f) \in SUBSET B(e)
    BY <1>1 DEF TypeOK
<1>3. IsFiniteSet(S)
    BY FS_Subset, EventsAssumption
<1>4. IsFiniteSet(B(e)) /\ IsFiniteSet(B(f))
    BY <1>3, FS_Subset
<1>5. Cardinality(B(f)) =< Cardinality(B(e))
    BY <1>2, <1>4, FS_Subset
<1>6. Cardinality(B(e)) \in Nat /\ Cardinality(B(f)) \in Nat
    BY <1>4, FS_CardinalityType
<1>7. Cardinality(B(e)) < n
    BY DEF Lowest
<1>8. Cardinality(B(f)) < n
    BY <1>5, <1>6, <1>7
<1>9. QED
    BY <1>8 DEF Lowest

LEMMA InitialCursorBelow ==
    ASSUME TypeOK, Counter
    PROVE  InitialCursor \in Nat /\ InitialCursor < nextId
<1>1. CASE Visible = {}
    BY <1>1 DEF InitialCursor, MaxIdOf, TypeOK
<1>2. CASE Visible # {}
    <2>1. PICK e \in Visible : InitialCursor = id[e]
        BY <1>2, MaxIdOfRows DEF InitialCursor, Visible
    <2>2. QED
        BY <2>1 DEF Visible, TypeOK, Counter
<1>3. QED
    BY <1>1, <1>2

(* What a poll reads are visible rows past the cursor.                     *)
LEMMA ReadRows ==
    ASSUME NEW p \in Procs, NEW n \in Nat
    PROVE  Lowest(Readable(p), n) \in SUBSET Visible
BY DEF Lowest, Readable

(* The position a read ends at lies below the counter.                     *)
LEMMA NextBelow ==
    ASSUME TypeOK, Counter, NEW rows \in SUBSET Visible, rows # {}, NEW low
    PROVE  MaxIdOf(rows, low) \in Nat /\ MaxIdOf(rows, low) < nextId
<1>1. PICK e \in rows : MaxIdOf(rows, low) = id[e]
    BY MaxIdOfRows DEF Visible
<1>2. QED
    BY <1>1 DEF Visible, TypeOK, Counter

-----------------------------------------------------------------------------
(* Types and ids.  Counter is part of the induction because a cursor is a  *)
(* number only if the table has a largest id.                              *)
LEMMA TypeStep == TypeOK /\ Counter /\ [Next]_vars => TypeOK' /\ Counter'
<1> SUFFICES ASSUME TypeOK, Counter, [Next]_vars
             PROVE  TypeOK' /\ Counter'
    OBVIOUS
<1> USE DEF TypeOK, Counter
<1>1. CASE Tick
    BY <1>1, TimesAssumption DEF Tick, Aged, MaxAge, poller
<1>2. ASSUME NEW e \in Events, BeginInsert(e)
      PROVE  TypeOK' /\ Counter'
    BY <1>2, TimesAssumption DEF BeginInsert, MaxAge, poller, Stages
<1>3. ASSUME NEW e \in Events, AssignId(e)
      PROVE  TypeOK' /\ Counter'
    BY <1>3 DEF AssignId, poller, Stages
<1>4. ASSUME NEW e \in Events, Commit(e)
      PROVE  TypeOK' /\ Counter'
    BY <1>4 DEF Commit, poller, Stages
<1>5. ASSUME NEW e \in Events, Fail(e)
      PROVE  TypeOK' /\ Counter'
    BY <1>5 DEF Fail, Pending, poller, Stages
<1>6. ASSUME NEW p \in Procs, Start(p)
      PROVE  TypeOK' /\ Counter'
    BY <1>6, InitialCursorBelow DEF Start, table
<1>7. ASSUME NEW p \in Procs, NEW n \in Nat, NEW result \in {"ok", "error"},
             Read(p, Lowest(Readable(p), n), result)
      PROVE  TypeOK' /\ Counter'
    <2> DEFINE rows == Lowest(Readable(p), n)
    <2>1. rows \in SUBSET Visible /\ rows # {}
        BY <1>7, ReadRows DEF Read
    <2>2. MaxIdOf(rows, cursor[p]) \in Nat
        BY <2>1, NextBelow
    <2>3. Visible \subseteq Events
        BY DEF Visible
    <2> HIDE DEF rows
    <2>4. Read(p, rows, result)
        BY <1>7 DEF rows
    <2>5. QED
        BY <2>1, <2>2, <2>3, <2>4 DEF Read, table
<1>8. ASSUME NEW p \in Procs, Deliver(p)
      PROVE  TypeOK' /\ Counter'
    BY <1>8 DEF Deliver, table
<1>9. ASSUME NEW p \in Procs, PollEnd(p)
      PROVE  TypeOK' /\ Counter'
    BY <1>9 DEF PollEnd, AfterPoll, table
<1>10. ASSUME NEW p \in Procs, Stop(p)
       PROVE  TypeOK' /\ Counter'
    BY <1>10 DEF Stop, table
<1>11. CASE Purge
    <2>1. GcVictims \subseteq Visible
        BY DEF GcVictims, Lowest
    <2>2. \A e \in GcVictims : e \in Events /\ id[e] > 0
        BY <2>1 DEF Visible
    <2>3. QED
        BY <1>11, <2>2 DEF Purge, poller, Stages
<1>12. CASE UNCHANGED vars
    BY <1>12 DEF vars, table, poller
<1>13. ASSUME NEW p \in Procs, PollOk(p)
       PROVE  TypeOK' /\ Counter'
    BY <1>7, <1>13, SizesAssumption DEF PollOk
<1>14. ASSUME NEW p \in Procs, PollError(p)
       PROVE  TypeOK' /\ Counter'
    BY <1>7, <1>14, SizesAssumption DEF PollError
<1>15. QED
    BY <1>1, <1>2, <1>3, <1>4, <1>5, <1>6, <1>8, <1>9, <1>10, <1>11, <1>12,
       <1>13, <1>14 DEF Next, Insert, Poll

LEMMA TypeInit == Init => TypeOK /\ Counter
BY TimesAssumption DEF Init, TypeOK, Counter, Stages, MaxAge

(* Every state has its type, and ids come from the counter.                *)
THEOREM Typing == Spec => [](TypeOK /\ Counter)
BY TypeInit, TypeStep, PTL DEF Spec

-----------------------------------------------------------------------------
(* The table.  The poller leaves it alone.                                 *)
LEMMA TableStep ==
    ASSUME LagAssumption, TypeOK, TableInv, [Next]_vars
    PROVE  TableInv'
<1> USE DEF TypeOK, TableInv, Counter
<1>1. Counter'
    BY TypeStep
<1>2. CASE Tick
    <2>1. \A e \in Events : Aged(age[e]) \in 0 .. MaxAge
        BY TimesAssumption DEF Aged, MaxAge
    <2>2. \A e, f \in Events : age[f] =< age[e] => Aged(age[f]) =< Aged(age[e])
        BY TimesAssumption DEF Aged, MaxAge
    <2>3. \A e \in Events : st[e] # "none" => age'[e] = Aged(age[e])
        BY <1>2 DEF Tick
    <2>4. \A e \in Events : id[e] > 0 \/ st[e] = "stamped" => st[e] # "none"
        OBVIOUS
    <2>5. StampOrder'
        BY <1>2, <2>2, <2>3, <2>4 DEF Tick, StampOrder
    <2>6. Young'
        BY <1>2, <2>3, TimesAssumption DEF Tick, Young, Pending, Aged
    <2>7. Distinct' /\ PurgedPrefix'
        BY <1>2 DEF Tick, Distinct, PurgedPrefix
    <2>8. QED
        BY <1>1, <2>5, <2>6, <2>7
<1>3. ASSUME NEW e \in Events, BeginInsert(e)
      PROVE  TableInv'
    <2>1. StampOrder' /\ Young'
        BY <1>3, TimesAssumption DEF BeginInsert, StampOrder, Young, Pending, MaxAge
    <2>2. Distinct' /\ PurgedPrefix'
        BY <1>3 DEF BeginInsert, Distinct, PurgedPrefix
    <2>3. QED
        BY <1>1, <2>1, <2>2
<1>4. ASSUME NEW e \in Events, AssignId(e)
      PROVE  TableInv'
    <2>1. \A f \in Events : st[f] = "stamped" => age[f] =< age[e]
        BY <1>4 DEF AssignId, LagAssumption
    <2>2. StampOrder'
        BY <1>4, <2>1 DEF AssignId, StampOrder
    <2>3. Young' /\ Distinct' /\ PurgedPrefix'
        BY <1>4 DEF AssignId, Young, Pending, Distinct, PurgedPrefix
    <2>4. QED
        BY <1>1, <2>2, <2>3
<1>5. ASSUME NEW e \in Events, Commit(e)
      PROVE  TableInv'
    BY <1>1, <1>5 DEF Commit, StampOrder, Young, Pending, Distinct, PurgedPrefix
<1>6. ASSUME NEW e \in Events, Fail(e)
      PROVE  TableInv'
    BY <1>1, <1>6 DEF Fail, StampOrder, Young, Pending, Distinct, PurgedPrefix
<1>7. CASE Purge
    <2> DEFINE Old == {e \in Visible : age[e] > Retention}
    <2>1. Old \in SUBSET Events /\ GcVictims = Lowest(Old, GcBatchSize)
        BY DEF Visible, GcVictims
    <2>2. \A e \in GcVictims : e \in Old
        BY <2>1 DEF Lowest
    <2>3. StampOrder' /\ Young' /\ Distinct'
        BY <1>7, <2>2 DEF Purge, StampOrder, Young, Pending, Distinct, Visible
    <2>4. ASSUME NEW e \in Events, NEW f \in Events,
                 st'[e] = "purged", 0 < id[f], id[f] < id[e]
          PROVE  st'[f] \in {"failed", "purged"}
        <3>1. CASE st[e] = "purged"
            BY <1>7, <2>4, <3>1 DEF Purge, PurgedPrefix
        <3>2. CASE e \in GcVictims
            <4>1. age[f] > Retention
                BY <2>2, <2>4, <3>2, TimesAssumption DEF StampOrder, MaxAge
            <4>2. ~ Pending(f)
                BY <4>1, TimesAssumption DEF Young, LagAssumption, MaxAge
            <4>3. CASE st[f] = "visible"
                <5>1. f \in Old
                    BY <4>1, <4>3 DEF Visible
                <5>2. f \in GcVictims
                    BY <2>1, <2>4, <3>2, <5>1, LowestPrefix, SizesAssumption
                <5>3. QED
                    BY <1>7, <5>2 DEF Purge
            <4>4. CASE st[f] \in {"failed", "purged"}
                BY <1>7, <4>4 DEF Purge
            <4>5. QED
                BY <2>4, <4>2, <4>3, <4>4 DEF Pending, Stages
        <3>3. QED
            BY <1>7, <2>4, <3>1, <3>2 DEF Purge
    <2>5. PurgedPrefix'
        BY <1>7, <2>4 DEF Purge, PurgedPrefix
    <2>6. QED
        BY <1>1, <2>3, <2>5
<1>8. CASE UNCHANGED table
    BY <1>1, <1>8 DEF table, StampOrder, Young, Pending, Distinct, PurgedPrefix
<1>9. ASSUME NEW p \in Procs, Start(p) \/ Poll(p) \/ Stop(p)
      PROVE  UNCHANGED table
    BY <1>9 DEF Start, Poll, PollOk, PollError, Read, Deliver, PollEnd, Stop
<1>10. QED
    BY <1>2, <1>3, <1>4, <1>5, <1>6, <1>7, <1>8, <1>9 DEF Next, Insert, vars

-----------------------------------------------------------------------------
(* The pollers.                                                            *)

(* Ids of numbered rows stay; what was settled stays settled as long as    *)
(* the process lives.                                                      *)
LEMMA SettledStays ==
    ASSUME TypeOK, Counter, [Next]_vars, NEW p \in Procs, ~ Stop(p), NEW e \in Events
    PROVE  /\ id[e] > 0 => id'[e] = id[e]
           /\ Settled(p, e) => Settled(p, e)'
           /\ id'[e] # id[e] => id'[e] = nextId
           /\ nextId' >= nextId
<1> USE DEF TypeOK, Counter
<1>1. st[e] \in {"failed", "purged"} => st'[e] = st[e]
    BY DEF Next, Insert, Poll, vars, table, poller, Tick, BeginInsert, AssignId,
           Commit, Fail, Pending, Start, PollOk, PollError, Read, Deliver,
           PollEnd, Stop, Purge, GcVictims, Lowest, Visible
<1>2. got[p][e] > 0 => got'[p][e] > 0
    BY DEF Next, Insert, Poll, vars, table, poller, Tick, BeginInsert, AssignId,
           Commit, Fail, Start, PollOk, PollError, Read, Deliver,
           PollEnd, Stop, Purge
<1>3. /\ id[e] > 0 => id'[e] = id[e]
      /\ id'[e] # id[e] => id'[e] = nextId
      /\ nextId' >= nextId
    BY DEF Next, Insert, Poll, vars, table, poller, Tick, BeginInsert, AssignId,
           Commit, Fail, Start, PollOk, PollError, Read, Deliver,
           PollEnd, Stop, Purge
<1>4. QED
    BY <1>1, <1>2, <1>3 DEF Settled

(* The heart of the matter: a poll never reads past an event that may yet  *)
(* appear.                                                                 *)
LEMMA ReadLeavesNothing ==
    ASSUME LagAssumption, TypeOK, TableInv, NEW p \in Procs, Passed(p),
           NEW n \in Nat, NEW e \in Lowest(Readable(p), n),
           NEW f \in Events, base[p] < id[f], id[f] < id[e]
    PROVE  f \in Lowest(Readable(p), n) \/ Settled(p, f)
<1> USE DEF TypeOK, TableInv, Counter
<1>1. e \in Readable(p) /\ e \in Events
    BY DEF Lowest, Readable, Visible
<1>2. CASE id[f] =< cursor[p]
    BY <1>2 DEF Passed
<1>3. CASE cursor[p] < id[f]
    <2>1. age[e] =< age[f]
        BY <1>1 DEF StampOrder
    <2>2. age[f] > PollLag
        BY <1>1, <2>1, TimesAssumption DEF Readable, MaxAge
    <2>3. ~ Pending(f)
        BY <2>2, TimesAssumption DEF Young, LagAssumption, MaxAge
    <2>4. CASE st[f] = "visible"
        <3>1. f \in Readable(p)
            BY <1>3, <2>2, <2>4 DEF Readable, Visible
        <3>2. Readable(p) \in SUBSET Events
            BY DEF Readable, Visible
        <3>3. QED
            BY <3>1, <3>2, LowestPrefix
    <2>5. CASE st[f] \in {"failed", "purged"}
        BY <2>5 DEF Settled
    <2>6. QED
        BY <2>3, <2>4, <2>5 DEF Pending, Stages
<1>4. QED
    BY <1>2, <1>3

(* A step that leaves the poller of p alone.                               *)
LEMMA PollerUntouched ==
    ASSUME TypeOK, Counter, TypeOK', [Next]_vars, NEW p \in Procs, ~ Stop(p),
           PollerInv(p),
           pc'[p] = pc[p], cursor'[p] = cursor[p], base'[p] = base[p],
           batch'[p] = batch[p], next'[p] = next[p], got'[p] = got[p]
    PROVE  PollerInv(p)'
<1> USE DEF TypeOK, Counter, PollerInv
<1>1. ASSUME NEW e \in Events
      PROVE  /\ id[e] > 0 => id'[e] = id[e]
             /\ Settled(p, e) => Settled(p, e)'
             /\ id'[e] # id[e] => id'[e] = nextId
             /\ nextId' >= nextId
    BY SettledStays
<1>2. nextId' >= nextId
    BY DEF Next, Insert, Poll, vars, table, poller, Tick, BeginInsert, AssignId,
           Commit, Fail, Start, PollOk, PollError, Read, Deliver,
           PollEnd, Stop, Purge
<1>3. Down(p)' /\ Known(p)' /\ Cursors(p)'
    BY <1>1, <1>2 DEF Down, Known, Cursors
<1>4. Passed(p)'
    <2>1. SUFFICES ASSUME NEW e \in Events, base[p] < id'[e], id'[e] =< cursor[p]
                   PROVE  Settled(p, e)'
        BY DEF Passed
    <2>2. cursor[p] < nextId /\ cursor[p] \in Nat /\ nextId \in Nat
        BY DEF Cursors
    <2>3. id'[e] = id[e]
        BY <1>1, <2>1, <2>2
    <2>4. QED
        BY <1>1, <2>1, <2>3 DEF Passed
<1>5. Batched(p)'
    <2>1. SUFFICES ASSUME NEW e \in batch[p], NEW f \in Events,
                          base[p] < id'[f], id'[f] < id'[e]
                   PROVE  f \in batch[p] \/ Settled(p, f)'
        BY DEF Batched
    <2>2. id'[e] = id[e] /\ id[e] < nextId /\ id[f] \in Nat
        BY <1>1 DEF Known
    <2>3. id'[f] = id[f]
        BY <1>1, <2>1, <2>2
    <2>4. QED
        BY <1>1, <2>1, <2>2, <2>3 DEF Batched
<1>6. Reached(p)'
    <2>1. SUFFICES ASSUME pc[p] = "ok", NEW e \in Events,
                          base[p] < id'[e], id'[e] =< next[p]
                   PROVE  e \in batch[p] \/ Settled(p, e)'
        BY DEF Reached
    <2>2. id'[e] = id[e]
        BY <1>1, <2>1 DEF Cursors
    <2>3. QED
        BY <1>1, <2>1, <2>2 DEF Reached
<1>7. Gaps(p)'
    <2>1. SUFFICES ASSUME NEW e \in Events, NEW f \in Events, got[p][e] > 0,
                          base[p] < id'[f], id'[f] < id'[e]
                   PROVE  Settled(p, f)'
        BY DEF Gaps
    <2>2. id'[e] = id[e] /\ id[e] < nextId /\ id[f] \in Nat
        BY <1>1, <2>1 DEF Known
    <2>3. id'[f] = id[f]
        BY <1>1, <2>1, <2>2
    <2>4. QED
        BY <1>1, <2>1, <2>2, <2>3 DEF Gaps
<1>8. QED
    BY <1>3, <1>4, <1>5, <1>6, <1>7

LEMMA ReadStep ==
    ASSUME LagAssumption, TypeOK, TableInv, TypeOK', NEW p \in Procs, PollerInv(p),
           NEW n \in Nat, NEW result \in {"ok", "error"},
           Read(p, Lowest(Readable(p), n), result)
    PROVE  PollerInv(p)'
<1> DEFINE rows == Lowest(Readable(p), n)
<1>1. rows \in SUBSET Visible /\ rows # {}
    BY ReadRows DEF Read
<1>2. /\ \E e \in rows : MaxIdOf(rows, cursor[p]) = id[e]
      /\ \A e \in rows : id[e] =< MaxIdOf(rows, cursor[p])
      /\ MaxIdOf(rows, cursor[p]) < nextId
    BY <1>1, MaxIdOfRows, NextBelow DEF Visible, TableInv
<1>3. \A e \in rows, f \in Events :
          base[p] < id[f] /\ id[f] < id[e] => f \in rows \/ Settled(p, f)
    BY ReadLeavesNothing DEF PollerInv
<1>4. \A e \in rows : e \in Events /\ id[e] > cursor[p] /\ st[e] = "visible"
    BY DEF Lowest, Readable, Visible
<1> HIDE DEF rows
<1>5. /\ pc[p] = "idle" /\ pc'[p] = result /\ batch'[p] = rows
      /\ next'[p] = MaxIdOf(rows, cursor[p])
      /\ cursor'[p] = cursor[p] /\ base'[p] = base[p] /\ got'[p] = got[p]
      /\ st' = st /\ id' = id /\ nextId' = nextId
    BY DEF Read, table, TypeOK, rows
<1>6. \A e \in Events : Settled(p, e)' <=> Settled(p, e)
    BY <1>5 DEF Settled
<1> USE DEF TypeOK, TableInv, Counter, PollerInv
<1>7. Down(p)' /\ Known(p)' /\ Cursors(p)'
    BY <1>2, <1>4, <1>5 DEF Down, Known, Cursors
<1>8. Passed(p)' /\ Gaps(p)'
    BY <1>5, <1>6 DEF Passed, Gaps
<1>9. Batched(p)'
    BY <1>3, <1>5, <1>6 DEF Batched
<1>10. Reached(p)'
    <2>1. PICK top \in rows : MaxIdOf(rows, cursor[p]) = id[top]
        BY <1>2
    <2>2. cursor[p] =< id[top] /\ top \in Events
        BY <1>4, <2>1
    <2>3. ASSUME NEW e \in Events, base[p] < id[e], id[e] =< id[top]
          PROVE  e \in rows \/ Settled(p, e)
        <3>1. id[e] \in Nat /\ id[top] \in Nat
            BY <2>2
        <3>2. CASE id[e] # id[top]
            <4>1. id[e] < id[top]
                <5> HIDE DEF TypeOK, TableInv, Counter, PollerInv
                <5> QED
                    BY <2>3, <3>1, <3>2
            <4>2. QED
                BY <1>3, <2>3, <4>1
        <3>3. CASE id[e] = id[top]
            <4>1. e = top
                BY <2>2, <2>3, <3>3 DEF Distinct, Cursors
            <4>2. QED
                BY <4>1
        <3>4. QED
            BY <3>2, <3>3
    <2>4. QED
        BY <1>5, <1>6, <2>1, <2>2, <2>3 DEF Reached
<1>11. QED
    BY <1>7, <1>8, <1>9, <1>10

LEMMA DeliverStep ==
    ASSUME TypeOK, Counter, TypeOK', NEW p \in Procs, PollerInv(p), Deliver(p)
    PROVE  PollerInv(p)'
<1> USE DEF TypeOK, Counter, PollerInv
<1>1. PICK e \in batch[p] :
          /\ \A f \in batch[p] : id[e] =< id[f]
          /\ batch' = [batch EXCEPT ![p] = @ \ {e}]
          /\ got' = [got EXCEPT ![p][e] = IF @ < 2 THEN @ + 1 ELSE @]
    BY DEF Deliver
<1>2. e \in Events /\ got'[p][e] > 0 /\ batch'[p] = batch[p] \ {e}
    BY <1>1
<1>3. \A f \in Events : f # e => got'[p][f] = got[p][f]
    BY <1>1
<1>4. /\ pc[p] # "down" /\ pc' = pc /\ cursor' = cursor /\ base' = base
      /\ next' = next /\ st' = st /\ id' = id /\ nextId' = nextId
    BY DEF Deliver, table
<1>5. \A f \in Events : Settled(p, f) \/ f = e => Settled(p, f)'
    BY <1>2, <1>3, <1>4 DEF Settled
<1>6. Down(p)' /\ Known(p)' /\ Cursors(p)'
    BY <1>2, <1>3, <1>4 DEF Down, Known, Cursors
<1>7. Passed(p)' /\ Batched(p)' /\ Reached(p)'
    BY <1>2, <1>4, <1>5 DEF Passed, Batched, Reached
<1>8. Gaps(p)'
    <2>1. \A f \in Events :
              base[p] < id[f] /\ id[f] < id[e] => Settled(p, f)
        BY <1>1, <1>2 DEF Batched
    <2>2. QED
        BY <1>2, <1>3, <1>4, <1>5, <2>1 DEF Gaps
<1>9. QED
    BY <1>6, <1>7, <1>8

LEMMA PollEndStep ==
    ASSUME TypeOK, Counter, TypeOK', NEW p \in Procs, PollerInv(p), PollEnd(p)
    PROVE  PollerInv(p)'
<1> USE DEF TypeOK, Counter, PollerInv
<1>1. /\ pc[p] \in {"ok", "error"} /\ batch[p] = {} /\ pc'[p] = "idle"
      /\ cursor'[p] = AfterPoll(p) /\ next'[p] = 0 /\ base'[p] = base[p]
      /\ batch'[p] = {} /\ got'[p] = got[p]
      /\ st' = st /\ id' = id /\ nextId' = nextId
    BY DEF PollEnd, table
<1>2. \A e \in Events : Settled(p, e)' <=> Settled(p, e)
    BY <1>1 DEF Settled
<1>3. Down(p)' /\ Known(p)' /\ Cursors(p)'
    BY <1>1 DEF Down, Known, Cursors, AfterPoll, Reached
<1>4. Passed(p)'
    BY <1>1, <1>2 DEF Passed, Reached, AfterPoll
<1>5. Batched(p)' /\ Reached(p)' /\ Gaps(p)'
    BY <1>1, <1>2 DEF Batched, Reached, Gaps
<1>6. QED
    BY <1>3, <1>4, <1>5

LEMMA StartStep ==
    ASSUME TypeOK, Counter, TypeOK', NEW p \in Procs, PollerInv(p), Start(p)
    PROVE  PollerInv(p)'
<1> USE DEF TypeOK, Counter, PollerInv
<1>1. /\ pc'[p] = "idle" /\ cursor'[p] = InitialCursor /\ base'[p] = InitialCursor
      /\ batch'[p] = {} /\ next'[p] = next[p] /\ nextId' = nextId
      /\ \A e \in Events : got'[p][e] = 0
    BY DEF Start, Down, table
<1>2. InitialCursor < nextId /\ InitialCursor \in Nat
    BY InitialCursorBelow
<1>3. QED
    BY <1>1, <1>2 DEF Down, Known, Cursors, Passed, Batched, Reached, Gaps

LEMMA StopStep ==
    ASSUME TypeOK, Counter, TypeOK', NEW p \in Procs, PollerInv(p), Stop(p)
    PROVE  PollerInv(p)'
<1> USE DEF TypeOK, Counter, PollerInv
<1>1. /\ pc'[p] = "down" /\ cursor'[p] = 0 /\ base'[p] = 0 /\ batch'[p] = {}
      /\ next'[p] = 0 /\ id' = id /\ nextId' = nextId
      /\ \A e \in Events : got'[p][e] = 0
    BY DEF Stop, table
<1>2. QED
    BY <1>1 DEF Down, Known, Cursors, Passed, Batched, Reached, Gaps

-----------------------------------------------------------------------------
LEMMA InvInit == LagAssumption /\ Init => Inv
<1> SUFFICES ASSUME Init PROVE Inv
    OBVIOUS
<1>1. TypeOK /\ Counter
    BY TypeInit
<1>2. Distinct /\ StampOrder /\ Young /\ PurgedPrefix
    BY DEF Init, Distinct, StampOrder, Young, Pending, PurgedPrefix
<1>3. ASSUME NEW p \in Procs
      PROVE  PollerInv(p)
    BY DEF Init, PollerInv, Down, Known, Cursors, Passed, Batched, Reached, Gaps
<1>4. QED
    BY <1>1, <1>2, <1>3 DEF Inv, TableInv

LEMMA InvStep == LagAssumption /\ Inv /\ [Next]_vars => Inv'
<1> SUFFICES ASSUME LagAssumption, Inv, [Next]_vars
             PROVE  Inv'
    OBVIOUS
<1>1. TypeOK /\ Counter /\ TableInv
    BY DEF Inv, TableInv
<1>2. TypeOK' /\ TableInv'
    BY <1>1, TypeStep, TableStep
<1>3. ASSUME NEW p \in Procs
      PROVE  PollerInv(p)'
    <2>1. PollerInv(p)
        BY DEF Inv
    <2>2. CASE Start(p)
        BY <1>1, <1>2, <2>1, <2>2, StartStep
    <2>3. CASE Stop(p)
        BY <1>1, <1>2, <2>1, <2>3, StopStep
    <2>4. CASE PollOk(p)
        <3>1. BatchSize \in Nat
            BY SizesAssumption
        <3>2. QED
            BY <1>1, <1>2, <2>1, <2>4, <3>1, ReadStep DEF PollOk
    <2>5. CASE PollError(p)
        <3>1. PICK n \in 1 .. BatchSize : Read(p, Lowest(Readable(p), n), "error")
            BY <2>5 DEF PollError
        <3>2. n \in Nat
            BY SizesAssumption
        <3>3. QED
            BY <1>1, <1>2, <2>1, <3>1, <3>2, ReadStep
    <2>6. CASE Deliver(p)
        BY <1>1, <1>2, <2>1, <2>6, DeliverStep
    <2>7. CASE PollEnd(p)
        BY <1>1, <1>2, <2>1, <2>7, PollEndStep
    <2>8. CASE ~ (Start(p) \/ Stop(p) \/ Poll(p))
        <3>1. /\ pc'[p] = pc[p] /\ cursor'[p] = cursor[p] /\ base'[p] = base[p]
              /\ batch'[p] = batch[p] /\ next'[p] = next[p] /\ got'[p] = got[p]
            <4>1. CASE UNCHANGED poller
                BY <4>1 DEF poller
            <4>2. ASSUME NEW q \in Procs, q # p, Start(q) \/ Poll(q) \/ Stop(q)
                  PROVE  /\ pc'[p] = pc[p] /\ cursor'[p] = cursor[p]
                         /\ base'[p] = base[p] /\ batch'[p] = batch[p]
                         /\ next'[p] = next[p] /\ got'[p] = got[p]
                BY <1>1, <4>2 DEF TypeOK, Start, Poll, PollOk, PollError, Read,
                                  Deliver, PollEnd, Stop
            <4>3. QED
                BY <2>8, <4>1, <4>2 DEF Next, vars, Tick, Insert, BeginInsert,
                                        AssignId, Commit, Fail, Purge
        <3>2. QED
            BY <1>1, <1>2, <2>1, <2>8, <3>1, PollerUntouched
    <2>9. QED
        BY <2>2, <2>3, <2>4, <2>5, <2>6, <2>7, <2>8 DEF Poll
<1>4. QED
    BY <1>2, <1>3 DEF Inv

(* Inv is an invariant of the relay.                                       *)
LEMMA InvAlways == ASSUME LagAssumption PROVE Spec => []Inv
<1>1. Init => Inv
    BY InvInit
<1>2. Inv /\ [Next]_vars => Inv'
    BY InvStep
<1>3. QED
    BY <1>1, <1>2, PTL DEF Spec

LEMMA InvImplies == Inv => CursorPassesSettled /\ GapFree /\ PurgedPrefix
BY DEF Inv, TableInv, PollerInv, Passed, Gaps, CursorPassesSettled, GapFree, Up

(* When ids follow created_at and no INSERT outlasts pollLag, no cursor    *)
(* ever passes an event that could still have to be delivered.             *)
THEOREM NoEventLost == LagAssumption => (Spec => []CursorPassesSettled)
<1>1. SUFFICES ASSUME LagAssumption PROVE Spec => []CursorPassesSettled
    OBVIOUS
<1>2. QED
    BY <1>1, InvAlways, InvImplies, PTL

(* Under the same assumption every process delivers without gaps.          *)
THEOREM DeliveryGapFree == LagAssumption => (Spec => []GapFree)
<1>1. SUFFICES ASSUME LagAssumption PROVE Spec => []GapFree
    OBVIOUS
<1>2. QED
    BY <1>1, InvAlways, InvImplies, PTL

(* Under the same assumption the table is purged from the front.           *)
THEOREM PurgeFromFront == LagAssumption => (Spec => []PurgedPrefix)
<1>1. SUFFICES ASSUME LagAssumption PROVE Spec => []PurgedPrefix
    OBVIOUS
<1>2. QED
    BY <1>1, InvAlways, InvImplies, PTL

-----------------------------------------------------------------------------
(* While no poll has failed, nothing is delivered twice, whatever the      *)
(* timing: what was delivered lies behind the cursor, or behind the next   *)
(* cursor of the poll that is still delivering.                            *)
Clean(p) ==
    /\ pc[p] # "error"
    /\ pc[p] = "ok" => cursor[p] =< next[p]
    /\ \A e \in batch[p] : got[p][e] = 0 /\ 0 < id[e] /\ id[e] =< next[p]
    /\ \A e \in Events :
        /\ got[p][e] =< 1
        /\ got[p][e] > 0 =>
            0 < id[e] /\ (id[e] =< cursor[p] \/ (pc[p] = "ok" /\ id[e] =< next[p]))

Once(p) ==
    /\ pc[p] = "down" =>
        ~ erred[p] /\ batch[p] = {} /\ \A e \in Events : got[p][e] = 0
    /\ ~ erred[p] => Clean(p)

LEMMA OnceStep ==
    ASSUME TypeOK, Counter, TypeOK', [Next]_vars, NEW p \in Procs, Once(p)
    PROVE  Once(p)'
<1> USE DEF TypeOK, Counter
<1>1. ASSUME pc'[p] = pc[p], cursor'[p] = cursor[p], batch'[p] = batch[p],
             next'[p] = next[p], got'[p] = got[p], erred'[p] = erred[p],
             \A e \in Events : id[e] > 0 => id'[e] = id[e]
      PROVE  Once(p)'
    BY <1>1 DEF Once, Clean
<1>2. CASE Start(p)
    BY <1>2 DEF Once, Clean, Start, table
<1>3. CASE Stop(p)
    BY <1>3 DEF Once, Clean, Stop, table
<1>4. CASE PollOk(p)
    <2> DEFINE rows == Lowest(Readable(p), BatchSize)
    <2>1. rows \in SUBSET Visible /\ rows # {}
        BY <1>4, ReadRows, SizesAssumption DEF PollOk, Read
    <2>2. \A e \in rows : id[e] =< MaxIdOf(rows, cursor[p])
        BY <2>1, MaxIdOfRows DEF Visible
    <2>3. \A e \in rows : e \in Events /\ id[e] > cursor[p] /\ id[e] > 0
        BY DEF Lowest, Readable, Visible
    <2> HIDE DEF rows
    <2>4. /\ pc[p] = "idle" /\ pc'[p] = "ok" /\ batch'[p] = rows
          /\ next'[p] = MaxIdOf(rows, cursor[p]) /\ cursor'[p] = cursor[p]
          /\ got'[p] = got[p] /\ id' = id /\ erred'[p] = erred[p]
        BY <1>4 DEF PollOk, Read, table, rows
    <2>5. CASE erred[p]
        BY <2>4, <2>5 DEF Once
    <2>6. CASE ~ erred[p]
        <3>1. Clean(p)
            BY <2>6 DEF Once
        <3>2. \A e \in rows : got[p][e] = 0
            <4>1. TAKE e \in rows
            <4>2. ~ (got[p][e] > 0)
                BY <2>3, <2>4, <3>1 DEF Clean
            <4>3. got[p][e] \in 0 .. 2
                BY <2>3
            <4>4. QED
                <5> HIDE DEF TypeOK, Counter
                <5> QED
                    BY <4>2, <4>3
        <3>3. \A e \in batch'[p] : got'[p][e] = 0 /\ 0 < id'[e] /\ id'[e] =< next'[p]
            BY <2>2, <2>3, <2>4, <3>2
        <3>4. \A e \in Events :
                  got'[p][e] =< 1 /\ (got'[p][e] > 0 => 0 < id'[e] /\ id'[e] =< cursor'[p])
            BY <2>4, <3>1 DEF Clean
        <3>5. cursor'[p] =< next'[p]
            <4>1. PICK e \in rows : TRUE
                BY <2>1
            <4>2. MaxIdOf(rows, cursor[p]) \in Nat
                BY <2>1, NextBelow
            <4>3. QED
                BY <2>2, <2>3, <2>4, <4>1, <4>2
        <3>6. QED
            BY <2>4, <3>3, <3>4, <3>5 DEF Once, Clean
    <2>7. QED
        BY <2>5, <2>6
<1>5. CASE PollError(p)
    <2>1. pc'[p] = "error" /\ erred'[p]
        BY <1>5 DEF PollError, Read
    <2>2. QED
        BY <2>1 DEF Once
<1>6. CASE Deliver(p)
    <2>1. PICK e \in batch[p] :
              /\ batch' = [batch EXCEPT ![p] = @ \ {e}]
              /\ got' = [got EXCEPT ![p][e] = IF @ < 2 THEN @ + 1 ELSE @]
        BY <1>6 DEF Deliver
    <2>2. pc' = pc /\ cursor' = cursor /\ next' = next /\ id' = id /\ erred' = erred
        BY <1>6 DEF Deliver, table
    <2>3. pc[p] # "down"
        BY <1>6 DEF Deliver
    <2>4. CASE erred[p]
        BY <2>2, <2>3, <2>4 DEF Once
    <2>5. CASE ~ erred[p]
        <3>1. Clean(p) /\ pc[p] = "ok"
            BY <1>6, <2>5 DEF Once, Clean, Deliver
        <3>2. e \in Events /\ got[p][e] = 0 /\ 0 < id[e] /\ id[e] =< next[p]
            BY <2>1, <3>1 DEF Clean
        <3>3. got'[p][e] = 1 /\ batch'[p] = batch[p] \ {e}
            BY <2>1, <3>2
        <3>4. \A f \in Events : f # e => got'[p][f] = got[p][f]
            BY <2>1, <3>2
        <3>5. \A f \in batch'[p] :
                  got'[p][f] = 0 /\ 0 < id'[f] /\ id'[f] =< next'[p]
            <4>1. TAKE f \in batch'[p]
            <4>2. f \in batch[p] /\ f # e /\ f \in Events
                BY <3>3, <4>1
            <4>3. QED
                BY <2>2, <3>1, <3>4, <4>2 DEF Clean
        <3>6. ASSUME NEW f \in Events
              PROVE  /\ got'[p][f] =< 1
                     /\ got'[p][f] > 0 =>
                         0 < id'[f] /\ (id'[f] =< cursor'[p] \/ id'[f] =< next'[p])
            <4>1. CASE f = e
                BY <2>2, <3>2, <3>3, <4>1
            <4>2. CASE f # e
                BY <2>2, <3>1, <3>4, <4>2 DEF Clean
            <4>3. QED
                BY <4>1, <4>2
        <3>7. pc'[p] = "ok" /\ cursor'[p] =< next'[p]
            BY <2>2, <3>1 DEF Clean
        <3>8. QED
            BY <3>5, <3>6, <3>7 DEF Once, Clean
    <2>6. QED
        BY <2>4, <2>5
<1>7. CASE PollEnd(p)
    <2>1. /\ pc'[p] = "idle" /\ cursor'[p] = AfterPoll(p) /\ erred'[p] = erred[p]
          /\ batch'[p] = {} /\ got'[p] = got[p] /\ id' = id /\ pc[p] \in {"ok", "error"}
        BY <1>7 DEF PollEnd, table
    <2>2. CASE erred[p]
        BY <2>1, <2>2 DEF Once
    <2>3. CASE ~ erred[p]
        <3>1. Clean(p) /\ pc[p] = "ok" /\ cursor'[p] = next[p]
            BY <2>1, <2>3 DEF Once, Clean, AfterPoll
        <3>2. \A e \in Events : got[p][e] > 0 => id[e] =< cursor'[p]
            BY <3>1 DEF Clean
        <3>3. QED
            BY <2>1, <3>1, <3>2 DEF Once, Clean
    <2>4. QED
        BY <2>2, <2>3
<1>8. CASE ~ (Start(p) \/ Stop(p) \/ Poll(p))
    <2>1. \A e \in Events : id[e] > 0 => id'[e] = id[e]
        BY SettledStays, <1>8
    <2>2. ASSUME NEW q \in Procs, q # p, Start(q) \/ Poll(q) \/ Stop(q)
          PROVE  /\ pc'[p] = pc[p] /\ cursor'[p] = cursor[p] /\ erred'[p] = erred[p]
                 /\ batch'[p] = batch[p] /\ next'[p] = next[p] /\ got'[p] = got[p]
        BY <2>2 DEF Start, Poll, PollOk, PollError, Read, Deliver, PollEnd, Stop
    <2>3. CASE UNCHANGED poller
        BY <1>1, <2>1, <2>3 DEF poller
    <2>4. UNCHANGED poller \/ \E q \in Procs : q # p /\ (Start(q) \/ Poll(q) \/ Stop(q))
        BY <1>8 DEF Next, vars, Tick, Insert, BeginInsert, AssignId, Commit, Fail, Purge
    <2>5. QED
        BY <1>1, <2>1, <2>2, <2>3, <2>4
<1>9. QED
    BY <1>2, <1>3, <1>4, <1>5, <1>6, <1>7, <1>8 DEF Poll

(* A process none of whose polls has failed hands no event over twice.     *)
THEOREM NoRedelivery == Spec => []AtMostOnce
<1> DEFINE OnceInv == TypeOK /\ Counter /\ \A p \in Procs : Once(p)
<1>1. Init => OnceInv
    BY TypeInit DEF Init, Once, Clean
<1>2. OnceInv /\ [Next]_vars => OnceInv'
    BY TypeStep, OnceStep
<1>3. OnceInv => AtMostOnce
    BY DEF Once, Clean, AtMostOnce
<1>4. QED
    BY <1>1, <1>2, <1>3, PTL DEF Spec

-----------------------------------------------------------------------------
(* The relay implements the log of module FanOut.  The invariant says why  *)
(* a delivered row has nothing left before it and why a purged row was the *)
(* first of the table; what is left is to name the abstract step of each   *)
(* action.                                                                 *)

Fates == [e \in Events |-> Fate(e)]
On == [p \in Procs |-> pc[p] # "down"]
Heard == [p \in Procs |-> {e \in Events : got[p][e] > 0}]

(* An abstract settled event is one heard, cancelled or expired.           *)
LEMMA SettledFate ==
    ASSUME NEW p \in Procs, NEW e \in Events, Settled(p, e)
    PROVE  e \in Heard[p] \/ Fates[e] \in FO!Gone
BY DEF Settled, Heard, Fates, Fate, FO!Gone

LEMMA InitRefines == Init => FO!Init
<1> SUFFICES ASSUME Init PROVE FO!Init
    OBVIOUS
<1>1. id = [e \in Events |-> 0] /\ nextId - 1 = 0 /\ base = [p \in Procs |-> 0]
    BY DEF Init
<1>2. Fates = [e \in Events |-> "none"]
    BY DEF Init, Fates, Fate
<1>3. On = [p \in Procs |-> FALSE]
    BY DEF Init, On
<1>4. Heard = [p \in Procs |-> {}]
    <2>1. \A p \in Procs : {e \in Events : got[p][e] > 0} = {}
        BY DEF Init
    <2>2. QED
        BY <2>1 DEF Heard
<1>5. QED
    BY <1>1, <1>2, <1>3, <1>4 DEF FO!Init, Fates, On, Heard

(* The steps of the abstract log are those of EventBus.                    *)
LEMMA LogSteps ==
    ASSUME TypeOK, Counter, NEW e \in Events, Insert(e)
    PROVE  FO!Write(e) \/ UNCHANGED FO!vars
<1> USE DEF TypeOK, Fate
<1>1. UNCHANGED FO!ears
    BY DEF Insert, BeginInsert, AssignId, Commit, Fail, poller, FO!ears
<1>2. CASE BeginInsert(e)
    <2>1. Fates' = Fates
        BY <1>2 DEF BeginInsert, Fates
    <2>2. QED
        BY <1>1, <1>2, <2>1 DEF BeginInsert, Fates, FO!vars, FO!log
<1>3. CASE AssignId(e)
    <2>1. Fates' = [Fates EXCEPT ![e] = "numbered"] /\ Fates[e] = "none"
        BY <1>3 DEF AssignId, Fates
    <2>2. nextId - 1 + 1 = nextId /\ nextId' - 1 = nextId
        BY <1>3 DEF AssignId
    <2>3. FO!Enter(e)
        BY <1>1, <1>3, <2>1, <2>2 DEF AssignId, Fates, FO!Enter
    <2>4. QED
        BY <2>3 DEF FO!Write
<1>4. CASE Commit(e)
    <2>1. Fates' = [Fates EXCEPT ![e] = "visible"] /\ Fates[e] = "numbered"
        BY <1>4 DEF Commit, Fates
    <2>2. FO!Appear(e)
        BY <1>1, <1>4, <2>1 DEF Commit, Fates, FO!Appear
    <2>3. QED
        BY <2>2 DEF FO!Write
<1>5. CASE Fail(e)
    <2>1. Fates' = [Fates EXCEPT ![e] = "failed"] /\ Fates[e] \in {"none", "numbered"}
        BY <1>5 DEF Fail, Pending, Fates
    <2>2. FO!Cancel(e)
        BY <1>1, <1>5, <2>1 DEF Fail, Fates, FO!Cancel
    <2>3. QED
        BY <2>2 DEF FO!Write
<1>6. QED
    BY <1>2, <1>3, <1>4, <1>5 DEF Insert

(* Purging removes a front of the log, since nothing is left below a purged *)
(* row afterwards.                                                         *)
LEMMA PurgeStep ==
    ASSUME TypeOK, Counter, PurgedPrefix', Purge
    PROVE  FO!Expire(GcVictims)
<1> USE DEF TypeOK, Fate
<1>1. \A e \in GcVictims : e \in Events /\ st[e] = "visible"
    BY DEF GcVictims, Lowest, Visible
<1>2. /\ st' = [e \in Events |-> IF e \in GcVictims THEN "purged" ELSE st[e]]
      /\ UNCHANGED <<id, nextId, poller>>
    BY DEF Purge
<1>3. Fates' = [e \in Events |-> IF e \in GcVictims THEN "purged" ELSE Fates[e]]
    BY <1>2 DEF Fates
<1>4. ASSUME NEW e \in GcVictims, NEW f \in Events, 0 < id[f], id[f] < id[e]
      PROVE  f \in GcVictims \/ Fates[f] \in FO!Gone
    <2>1. st'[e] = "purged"
        BY <1>1, <1>2
    <2>2. st'[f] \in {"failed", "purged"}
        BY <1>1, <1>2, <1>4, <2>1 DEF PurgedPrefix
    <2>3. f \in GcVictims \/ st[f] \in {"failed", "purged"}
        BY <1>2, <2>2
    <2>4. QED
        BY <2>3 DEF Fates, FO!Gone
<1>5. UNCHANGED FO!ears
    BY <1>2 DEF poller, FO!ears
<1>6. \A e \in GcVictims : Fates[e] = "visible"
    BY <1>1 DEF Fates
<1>7. QED
    BY <1>2, <1>3, <1>4, <1>5, <1>6 DEF Fates, FO!Expire

-----------------------------------------------------------------------------
(* The steps of a process that are steps of the abstract log.              *)
LEMMA StartJoins ==
    ASSUME TypeOK, Counter, NEW p \in Procs, Start(p)
    PROVE  FO!Listen(p)
<1> USE DEF TypeOK
<1>1. InitialCursor \in Nat /\ InitialCursor < nextId
    BY InitialCursorBelow
<1>2. PICK here \in 0 .. nextId - 1 : here = InitialCursor
    BY <1>1
<1>3. \A e \in Visible : id[e] =< InitialCursor
    BY MaxIdOfRows DEF InitialCursor, Visible
<1>4. \A e \in Events : Fates[e] = "visible" => id[e] =< InitialCursor
    BY <1>3 DEF Fates, Fate, Visible
<1>5. /\ pc[p] = "down" /\ On' = [On EXCEPT ![p] = TRUE] /\ ~ On[p]
      /\ base' = [base EXCEPT ![p] = InitialCursor]
      /\ UNCHANGED <<st, id, nextId, got>>
    BY DEF Start, On, table
<1>6. Heard' = Heard /\ Fates' = Fates
    BY <1>5 DEF Heard, Fates, Fate
<1>7. FO!Join(p, here)
    BY <1>1, <1>2, <1>4, <1>5, <1>6 DEF FO!Join, FO!log, On, Heard, Fates
<1>8. QED
    BY <1>7 DEF FO!Listen

LEMMA StopLeaves ==
    ASSUME TypeOK, NEW p \in Procs, Stop(p)
    PROVE  FO!Listen(p)
<1> USE DEF TypeOK
<1>1. /\ On[p] /\ On' = [On EXCEPT ![p] = FALSE]
      /\ base' = [base EXCEPT ![p] = 0]
      /\ UNCHANGED <<st, id, nextId>>
    BY DEF Stop, On, table
<1>2. Fates' = Fates
    BY <1>1 DEF Fates, Fate
<1>3. Heard' = [Heard EXCEPT ![p] = {}]
    <2>1. \A q \in Procs, e \in Events : got'[q][e] > 0 <=> got[q][e] > 0 /\ q # p
        BY DEF Stop
    <2>2. \A q \in Procs : Heard'[q] = IF q = p THEN {} ELSE Heard[q]
        BY <2>1 DEF Heard
    <2>3. QED
        BY <2>2 DEF Heard
<1>4. FO!Leave(p)
    BY <1>1, <1>2, <1>3 DEF FO!Leave, FO!log, On, Heard, Fates
<1>5. QED
    BY <1>4 DEF FO!Listen

(* The first delivery of a row is a step of the log, another one none.     *)
LEMMA DeliverHears ==
    ASSUME TypeOK, Counter, NEW p \in Procs, PollerInv(p), Deliver(p),
           \A e \in batch[p] : st[e] \in {"visible", "purged"},
           \A e \in batch[p] : base[p] < id[e]
    PROVE  FO!Listen(p) \/ UNCHANGED FO!vars
<1> USE DEF TypeOK
<1>1. PICK e \in batch[p] :
          /\ \A f \in batch[p] : id[e] =< id[f]
          /\ got' = [got EXCEPT ![p][e] = IF @ < 2 THEN @ + 1 ELSE @]
    BY DEF Deliver
<1>2. e \in Events /\ got'[p][e] > 0
    BY <1>1, SMTT(30)
<1>3. /\ UNCHANGED <<st, id, nextId, pc, base>> /\ pc[p] # "down"
      /\ Fates' = Fates /\ On' = On /\ On[p]
    BY DEF Deliver, table, Fates, Fate, On
<1>4. Heard' = [Heard EXCEPT ![p] = @ \union {e}]
    <2>1. \A q \in Procs, f \in Events :
              got'[q][f] > 0 <=> got[q][f] > 0 \/ (q = p /\ f = e)
        BY <1>1, <1>2
    <2> HIDE DEF TypeOK
    <2>2. \A q \in Procs : Heard'[q] = IF q = p THEN Heard[p] \union {e} ELSE Heard[q]
        BY <1>2, <2>1 DEF Heard
    <2>3. QED
        BY <2>2 DEF Heard
<1>5. CASE e \in Heard[p]
    <2>1. Heard' = Heard
        BY <1>4, <1>5 DEF Heard
    <2>2. QED
        BY <1>3, <2>1 DEF FO!vars, FO!log, FO!ears, Fates, On, Heard
<1>6. CASE e \notin Heard[p]
    <2>1. ASSUME NEW f \in Events, base[p] < id[f], id[f] < id[e]
          PROVE  f \in Heard[p] \/ Fates[f] \in FO!Gone
        <3>1. f \notin batch[p]
            BY <1>1, <2>1
        <3>2. Settled(p, f)
            BY <1>1, <2>1, <3>1 DEF PollerInv, Batched
        <3>3. QED
            BY <3>2, SettledFate
    <2>2. FO!UpTo(p, e)
        BY <2>1 DEF FO!UpTo, Heard, Fates
    <2>3. Fates[e] \in {"visible", "purged"} /\ base[p] < id[e]
        BY <1>1, <1>2 DEF Fates, Fate
    <2>4. FO!Hear(p, e)
        BY <1>2, <1>3, <1>4, <1>6, <2>2, <2>3 DEF FO!Hear, FO!log, Fates, On, Heard
    <2>5. QED
        BY <1>2, <2>4 DEF FO!Listen
<1>7. QED
    BY <1>5, <1>6

(* The other steps of a poller, and time, do not touch the log.            *)
LEMMA StepsUnseen ==
    ASSUME TypeOK, Tick \/ UNCHANGED vars \/ \E p \in Procs :
                       PollOk(p) \/ PollError(p) \/ PollEnd(p)
    PROVE  UNCHANGED FO!vars
<1> USE DEF TypeOK
<1>1. UNCHANGED <<st, id, nextId, base, got>>
    BY DEF Tick, vars, table, poller, PollOk, PollError, Read, PollEnd
<1>2. \A p \in Procs : pc'[p] = "down" <=> pc[p] = "down"
    BY DEF Tick, vars, table, poller, PollOk, PollError, Read, PollEnd
<1>3. On' = On /\ Fates' = Fates /\ Heard' = Heard
    BY <1>1, <1>2 DEF On, Fates, Fate, Heard
<1>4. QED
    BY <1>1, <1>3 DEF FO!vars, FO!log, FO!ears, On, Fates, Heard

-----------------------------------------------------------------------------
(* Rows of a batch were visible when they were read, past the cursor and   *)
(* so past the place the process joined at.                                *)
Taken(p) ==
    \A e \in batch[p] : st[e] \in {"visible", "purged"} /\ base[p] < id[e]

RInv == Inv /\ \A p \in Procs : Taken(p)

LEMMA TakenStep ==
    ASSUME Inv, [Next]_vars, NEW p \in Procs, Taken(p)
    PROVE  Taken(p)'
<1>1. TypeOK /\ Counter /\ PollerInv(p)
    BY DEF Inv, TableInv
<1> USE <1>1 DEF TypeOK
<1>2. ASSUME NEW e \in Events, st[e] \in {"visible", "purged"}
      PROVE  st'[e] \in {"visible", "purged"} /\ id'[e] = id[e]
    BY <1>2 DEF Next, Insert, Poll, vars, table, poller, Tick, BeginInsert, AssignId,
           Commit, Fail, Pending, Start, PollOk, PollError, Read, Deliver,
           PollEnd, Stop, Purge
<1>3. CASE batch'[p] \subseteq batch[p] /\ base'[p] = base[p]
    BY <1>2, <1>3 DEF Taken
<1>4. CASE batch'[p] = {}
    BY <1>4 DEF Taken
<1>5. ASSUME NEW n \in Nat, NEW result, Read(p, Lowest(Readable(p), n), result)
      PROVE  Taken(p)'
    <2>1. \A e \in Lowest(Readable(p), n) : st[e] = "visible" /\ id[e] > cursor[p] /\ e \in Events
        BY DEF Lowest, Readable, Visible
    <2>2. base[p] =< cursor[p]
        BY DEF PollerInv, Cursors
    <2>3. UNCHANGED <<st, id, base>> /\ batch'[p] = Lowest(Readable(p), n)
        BY <1>5 DEF Read, table
    <2>4. QED
        BY <2>1, <2>2, <2>3 DEF Taken
<1>6. CASE Start(p)
    BY <1>6 DEF Start, PollerInv, Down, Taken
<1>7. CASE PollOk(p) \/ PollError(p)
    <2>1. \E n \in Nat : Read(p, Lowest(Readable(p), n), "ok")
                      \/ Read(p, Lowest(Readable(p), n), "error")
        BY <1>7, SizesAssumption DEF PollOk, PollError
    <2>2. QED
        BY <1>5, <2>1
<1>8. CASE Deliver(p) \/ PollEnd(p) \/ Stop(p)
    BY <1>3, <1>4, <1>8 DEF Deliver, PollEnd, Stop
<1>9. CASE ~ (Start(p) \/ Poll(p) \/ Stop(p))
    <2>1. batch'[p] = batch[p] /\ base'[p] = base[p]
        <3>1. ASSUME NEW q \in Procs, q # p, Start(q) \/ Poll(q) \/ Stop(q)
              PROVE  batch'[p] = batch[p] /\ base'[p] = base[p]
            BY <3>1 DEF Start, Poll, PollOk, PollError, Read, Deliver, PollEnd, Stop
        <3>2. CASE UNCHANGED poller
            BY <3>2 DEF poller
        <3>3. UNCHANGED poller \/ \E q \in Procs : q # p /\ (Start(q) \/ Poll(q) \/ Stop(q))
            BY <1>9 DEF Next, vars, Tick, Insert, BeginInsert, AssignId, Commit, Fail, Purge
        <3>4. QED
            BY <3>1, <3>2, <3>3
    <2>2. QED
        BY <1>3, <2>1
<1>10. QED
    BY <1>6, <1>7, <1>8, <1>9 DEF Poll

LEMMA StepRefines ==
    ASSUME LagAssumption, RInv, [Next]_vars
    PROVE  [FO!Next]_(FO!vars)
<1>1. TypeOK /\ Counter /\ PurgedPrefix' /\ \A p \in Procs : PollerInv(p) /\ Taken(p)
    BY InvStep DEF RInv, Inv, TableInv
<1>2. ASSUME NEW e \in Events, Insert(e)
      PROVE  [FO!Next]_(FO!vars)
    BY <1>1, <1>2, LogSteps DEF FO!Next
<1>3. CASE Purge
    <2>1. GcVictims \in SUBSET Events
        BY DEF GcVictims, Lowest, Visible
    <2>2. QED
        BY <1>1, <1>3, <2>1, PurgeStep DEF FO!Next
<1>4. ASSUME NEW p \in Procs, Start(p) \/ Stop(p) \/ Deliver(p)
      PROVE  [FO!Next]_(FO!vars)
    <2>1. FO!Listen(p) \/ UNCHANGED FO!vars
        BY <1>1, <1>4, StartJoins, StopLeaves, DeliverHears DEF Taken
    <2>2. QED
        BY <2>1 DEF FO!Next
<1>5. CASE Tick \/ UNCHANGED vars \/ \E p \in Procs : PollOk(p) \/ PollError(p) \/ PollEnd(p)
    BY <1>1, <1>5, StepsUnseen
<1>6. QED
    BY <1>2, <1>3, <1>4, <1>5 DEF Next, Poll

(* When ids follow created_at and no INSERT outlasts pollLag, the relay of *)
(* notify.go, poller.go and gc.go is a log that every process hears in     *)
(* order and without gaps from where it joined.                            *)
THEOREM Refinement == LagAssumption => (Spec => ImplementsFanOut)
<1>1. SUFFICES ASSUME LagAssumption PROVE Spec => ImplementsFanOut
    OBVIOUS
<1>2. Init => RInv
    BY <1>1, InvInit DEF RInv, Taken, Init
<1>3. RInv /\ [Next]_vars => RInv'
    BY <1>1, InvStep, TakenStep DEF RInv
<1>4. RInv /\ [Next]_vars => [FO!Next]_(FO!vars)
    BY <1>1, StepRefines
<1>5. QED
    BY <1>2, <1>3, <1>4, InitRefines, PTL DEF Spec, ImplementsFanOut, FO!Spec
-----------------------------------------------------------------------------
(***************************************************************************)
(* Theorems about the garbage collector (module EventGC), for any number   *)
(* of processes, server sessions, rows and failures.                       *)
(*                                                                         *)
(* The argument.  A connection is in the hands of one pass at a time       *)
(* (ConnTaken).  A pass that deletes or releases holds the lock with its   *)
(* connection (Holding), and where the server still runs a DELETE the      *)
(* session has the lock as well: a pass is in it, or its client has gone   *)
(* and the session cannot end before the statement has (Deleting).  So two *)
(* running DELETEs would be in one session.  How often a session has the   *)
(* lock is bounded by the releases that failed (Depth).                    *)
(***************************************************************************)
Working == {"delete", "deleting", "release"}

ConnTaken ==
    /\ \A p \in Collectors :
        /\ pass[p] \in Working \union {"lock"} <=> conn[p] # None
        /\ conn[p] # None => sess[conn[p]] = "taken" /\ owner[conn[p]] = p
    /\ \A s \in Sessions :
        /\ sess[s] \in {"pooled", "taken"} => owner[s] \in Collectors
        /\ sess[s] = "taken" => conn[owner[s]] = s

Holding ==
    /\ \A p \in Collectors : pass[p] \in Working => holder = conn[p]
    /\ holder # None => sess[holder] # "unused"

Deleting ==
    \A s \in running :
        /\ holder = s
        /\ sess[s] \in {"taken", "orphan"}
        /\ sess[s] = "taken" => pass[owner[s]] = "deleting"

Spare(s) == sess[s] = "pooled" \/ (sess[s] = "taken" /\ pass[owner[s]] = "lock")

Depth ==
    /\ holder = None <=> depth = 0
    /\ depth =< faults + 1
    /\ holder # None /\ Spare(holder) => depth =< faults

Rows == old + fresh =< MaxRows

GcInv == GcTypeOK /\ ConnTaken /\ Holding /\ Deleting /\ Depth /\ Rows

-----------------------------------------------------------------------------
LEMMA TakeConnStep ==
    ASSUME GcInv, NEW p \in Collectors, TakeConn(p)
    PROVE  GcInv'
<1>1. GcTypeOK'
    BY GcAssumption DEF GcInv, GcTypeOK, ConnTaken, Depth, Rows, Working, TakeConn, MayTake, procVars, lockVars, troubles, Answered
<1>2. ConnTaken'
    BY GcAssumption DEF GcInv, GcTypeOK, ConnTaken, Working, TakeConn, MayTake, procVars, lockVars, troubles, Answered
<1>3. Holding'
    BY GcAssumption DEF GcInv, GcTypeOK, ConnTaken, Holding, Working, TakeConn, MayTake, procVars, lockVars, troubles, Answered
<1>4. Deleting'
    BY GcAssumption DEF GcInv, GcTypeOK, ConnTaken, Holding, Deleting, Working, TakeConn, MayTake, procVars, lockVars, troubles, Answered
<1>5. Depth'
    BY GcAssumption DEF GcInv, GcTypeOK, ConnTaken, Holding, Depth, Spare, Working, TakeConn, MayTake, procVars, lockVars, troubles, Answered
<1>6. Rows'
    BY GcAssumption DEF GcInv, GcTypeOK, Rows, Working, TakeConn, MayTake, procVars, lockVars, troubles, Answered
<1>7. QED
    BY <1>1, <1>2, <1>3, <1>4, <1>5, <1>6 DEF GcInv

LEMMA GetLockStep ==
    ASSUME GcInv, NEW p \in Collectors, GetLock(p)
    PROVE  GcInv'
<1>1. GcTypeOK'
    <2>1. /\ LockFree(conn[p]) /\ pass[p] = "lock" /\ depth' = depth + 1 /\ holder' = conn[p]
          /\ pass' = [pass EXCEPT ![p] = "delete"]
        BY DEF GetLock, Answered
    <2>2. conn[p] \in Sessions /\ sess[conn[p]] = "taken" /\ owner[conn[p]] = p
        BY <2>1 DEF GcInv, GcTypeOK, ConnTaken
    <2>3. depth =< faults
        BY <2>1, <2>2 DEF LockFree, GcInv, GcTypeOK, Depth, Spare
    <2>4. depth' \in 0 .. MaxFaults + 1
        BY <2>1, <2>3, GcAssumption DEF GcInv, GcTypeOK
    <2>5. QED
        BY <2>1, <2>2, <2>4 DEF GetLock, troubles, GcInv, GcTypeOK
<1>2. ConnTaken'
    BY GcAssumption DEF GcInv, GcTypeOK, ConnTaken, Working, GetLock, LockFree, procVars, lockVars, troubles, Answered
<1>3. Holding'
    BY GcAssumption DEF GcInv, GcTypeOK, ConnTaken, Holding, Working, GetLock, LockFree, procVars, lockVars, troubles, Answered
<1>4. Deleting'
    BY GcAssumption DEF GcInv, GcTypeOK, ConnTaken, Holding, Deleting, Working, GetLock, LockFree, procVars, lockVars, troubles, Answered
<1>5. Depth'
    <2>1. /\ LockFree(conn[p]) /\ pass[p] = "lock" /\ depth' = depth + 1 /\ holder' = conn[p]
          /\ pass' = [pass EXCEPT ![p] = "delete"] /\ UNCHANGED <<owner, sess, faults>>
        BY DEF GetLock, Answered, troubles
    <2>2. conn[p] \in Sessions /\ sess[conn[p]] = "taken" /\ owner[conn[p]] = p
        BY <2>1 DEF GcInv, GcTypeOK, ConnTaken
    <2>3. depth =< faults /\ depth \in Nat /\ faults \in Nat
        BY <2>1, <2>2, GcAssumption DEF LockFree, GcInv, GcTypeOK, Depth, Spare
    <2>4. ~ Spare(holder)'
        BY <2>1, <2>2 DEF Spare, GcInv, GcTypeOK
    <2>5. holder' # None /\ depth' # 0 /\ depth' =< faults' + 1
        BY <2>1, <2>2, <2>3, GcAssumption
    <2>6. QED
        BY <2>4, <2>5 DEF Depth
<1>6. Rows'
    BY GcAssumption DEF GcInv, GcTypeOK, Rows, Working, GetLock, LockFree, procVars, lockVars, troubles, Answered
<1>7. QED
    BY <1>1, <1>2, <1>3, <1>4, <1>5, <1>6 DEF GcInv

LEMMA GiveUpStep ==
    ASSUME GcInv, NEW p \in Collectors, GiveUp(p)
    PROVE  GcInv'
<1>1. GcTypeOK'
    BY GcAssumption DEF GcInv, GcTypeOK, ConnTaken, Depth, Rows, Working, GiveUp, LockFree, BackToPool, procVars, lockVars, troubles, Answered
<1>2. ConnTaken'
    BY GcAssumption DEF GcInv, GcTypeOK, ConnTaken, Working, GiveUp, LockFree, BackToPool, procVars, lockVars, troubles, Answered
<1>3. Holding'
    BY GcAssumption DEF GcInv, GcTypeOK, ConnTaken, Holding, Working, GiveUp, LockFree, BackToPool, procVars, lockVars, troubles, Answered
<1>4. Deleting'
    BY GcAssumption DEF GcInv, GcTypeOK, ConnTaken, Holding, Deleting, Working, GiveUp, LockFree, BackToPool, procVars, lockVars, troubles, Answered
<1>5. Depth'
    BY GcAssumption DEF GcInv, GcTypeOK, ConnTaken, Holding, Depth, Spare, Working, GiveUp, LockFree, BackToPool, procVars, lockVars, troubles, Answered
<1>6. Rows'
    BY GcAssumption DEF GcInv, GcTypeOK, Rows, Working, GiveUp, LockFree, BackToPool, procVars, lockVars, troubles, Answered
<1>7. QED
    BY <1>1, <1>2, <1>3, <1>4, <1>5, <1>6 DEF GcInv

LEMMA LockFailsStep ==
    ASSUME GcInv, NEW p \in Collectors, LockFails(p)
    PROVE  GcInv'
<1>1. GcTypeOK'
    BY GcAssumption DEF GcInv, GcTypeOK, ConnTaken, Depth, Rows, Working, LockFails, BackToPool, Fault, Costs, procVars, lockVars, troubles, Answered
<1>2. ConnTaken'
    BY GcAssumption DEF GcInv, GcTypeOK, ConnTaken, Working, LockFails, BackToPool, Fault, Costs, procVars, lockVars, troubles, Answered
<1>3. Holding'
    BY GcAssumption DEF GcInv, GcTypeOK, ConnTaken, Holding, Working, LockFails, BackToPool, Fault, Costs, procVars, lockVars, troubles, Answered
<1>4. Deleting'
    BY GcAssumption DEF GcInv, GcTypeOK, ConnTaken, Holding, Deleting, Working, LockFails, BackToPool, Fault, Costs, procVars, lockVars, troubles, Answered
<1>5. Depth'
    BY GcAssumption DEF GcInv, GcTypeOK, ConnTaken, Holding, Depth, Spare, Working, LockFails, BackToPool, Fault, Costs, procVars, lockVars, troubles, Answered
<1>6. Rows'
    BY GcAssumption DEF GcInv, GcTypeOK, Rows, Working, LockFails, BackToPool, Fault, Costs, procVars, lockVars, troubles, Answered
<1>7. QED
    BY <1>1, <1>2, <1>3, <1>4, <1>5, <1>6 DEF GcInv

LEMMA BeginDeleteStep ==
    ASSUME GcInv, NEW p \in Collectors, BeginDelete(p)
    PROVE  GcInv'
<1>1. GcTypeOK'
    BY GcAssumption DEF GcInv, GcTypeOK, ConnTaken, Depth, Rows, Working, BeginDelete, procVars, lockVars, troubles, Answered
<1>2. ConnTaken'
    BY GcAssumption DEF GcInv, GcTypeOK, ConnTaken, Working, BeginDelete, procVars, lockVars, troubles, Answered
<1>3. Holding'
    BY GcAssumption DEF GcInv, GcTypeOK, ConnTaken, Holding, Working, BeginDelete, procVars, lockVars, troubles, Answered
<1>4. Deleting'
    BY GcAssumption DEF GcInv, GcTypeOK, ConnTaken, Holding, Deleting, Working, BeginDelete, procVars, lockVars, troubles, Answered
<1>5. Depth'
    BY GcAssumption DEF GcInv, GcTypeOK, ConnTaken, Holding, Depth, Spare, Working, BeginDelete, procVars, lockVars, troubles, Answered
<1>6. Rows'
    BY GcAssumption DEF GcInv, GcTypeOK, Rows, Working, BeginDelete, procVars, lockVars, troubles, Answered
<1>7. QED
    BY <1>1, <1>2, <1>3, <1>4, <1>5, <1>6 DEF GcInv

LEMMA EndDeleteStep ==
    ASSUME GcInv, NEW p \in Collectors, EndDelete(p)
    PROVE  GcInv'
<1>1. GcTypeOK'
    BY GcAssumption DEF GcInv, GcTypeOK, ConnTaken, Depth, Rows, Working, EndDelete, Deleted, procVars, lockVars, troubles, Answered
<1>2. ConnTaken'
    BY GcAssumption DEF GcInv, GcTypeOK, ConnTaken, Working, EndDelete, Deleted, procVars, lockVars, troubles, Answered
<1>3. Holding'
    BY GcAssumption DEF GcInv, GcTypeOK, ConnTaken, Holding, Working, EndDelete, Deleted, procVars, lockVars, troubles, Answered
<1>4. Deleting'
    BY GcAssumption DEF GcInv, GcTypeOK, ConnTaken, Holding, Deleting, Working, EndDelete, Deleted, procVars, lockVars, troubles, Answered
<1>5. Depth'
    BY GcAssumption DEF GcInv, GcTypeOK, ConnTaken, Holding, Depth, Spare, Working, EndDelete, Deleted, procVars, lockVars, troubles, Answered
<1>6. Rows'
    BY GcAssumption DEF GcInv, GcTypeOK, Rows, Working, EndDelete, Deleted, procVars, lockVars, troubles, Answered
<1>7. QED
    BY <1>1, <1>2, <1>3, <1>4, <1>5, <1>6 DEF GcInv

LEMMA DeleteFailsStep ==
    ASSUME GcInv, NEW p \in Collectors, DeleteFails(p)
    PROVE  GcInv'
<1>1. GcTypeOK'
    BY GcAssumption DEF GcInv, GcTypeOK, ConnTaken, Depth, Rows, Working, DeleteFails, Fault, Costs, procVars, lockVars, troubles, Answered
<1>2. ConnTaken'
    BY GcAssumption DEF GcInv, GcTypeOK, ConnTaken, Working, DeleteFails, Fault, Costs, procVars, lockVars, troubles, Answered
<1>3. Holding'
    BY GcAssumption DEF GcInv, GcTypeOK, ConnTaken, Holding, Working, DeleteFails, Fault, Costs, procVars, lockVars, troubles, Answered
<1>4. Deleting'
    BY GcAssumption DEF GcInv, GcTypeOK, ConnTaken, Holding, Deleting, Working, DeleteFails, Fault, Costs, procVars, lockVars, troubles, Answered
<1>5. Depth'
    BY GcAssumption DEF GcInv, GcTypeOK, ConnTaken, Holding, Depth, Spare, Working, DeleteFails, Fault, Costs, procVars, lockVars, troubles, Answered
<1>6. Rows'
    BY GcAssumption DEF GcInv, GcTypeOK, Rows, Working, DeleteFails, Fault, Costs, procVars, lockVars, troubles, Answered
<1>7. QED
    BY <1>1, <1>2, <1>3, <1>4, <1>5, <1>6 DEF GcInv

LEMMA ReleaseStep ==
    ASSUME GcInv, NEW p \in Collectors, Release(p)
    PROVE  GcInv'
<1>1. GcTypeOK'
    <2>1. /\ pass[p] = "release" /\ depth' = depth - 1
          /\ holder' = IF depth' = 0 THEN None ELSE holder
          /\ sess' = [sess EXCEPT ![conn[p]] = "pooled"]
          /\ conn' = [conn EXCEPT ![p] = None]
        BY DEF Release, Answered, DepthReleased, BackToPool
    <2>2. holder = conn[p] /\ holder # None
        BY <2>1 DEF GcInv, GcTypeOK, Holding, ConnTaken, Working
    <2>3. depth # 0
        BY <2>2 DEF GcInv, Depth
    <2>4. depth' \in 0 .. MaxFaults + 1
        BY <2>1, <2>3, GcAssumption DEF GcInv, GcTypeOK
    <2>5. holder' \in Sessions \union {None}
        BY <2>1 DEF GcInv, GcTypeOK
    <2>6. QED
        BY <2>1, <2>4, <2>5 DEF Release, troubles, BackToPool, GcInv, GcTypeOK
<1>2. ConnTaken'
    BY GcAssumption DEF GcInv, GcTypeOK, ConnTaken, Working, Release, DepthReleased, BackToPool, procVars, lockVars, troubles, Answered
<1>3. Holding'
    BY GcAssumption DEF GcInv, GcTypeOK, ConnTaken, Holding, Working, Release, DepthReleased, BackToPool, procVars, lockVars, troubles, Answered
<1>4. Deleting'
    BY GcAssumption DEF GcInv, GcTypeOK, ConnTaken, Holding, Deleting, Working, Release, DepthReleased, BackToPool, procVars, lockVars, troubles, Answered
<1>5. Depth'
    BY GcAssumption DEF GcInv, GcTypeOK, ConnTaken, Holding, Depth, Spare, Working, Release, DepthReleased, BackToPool, procVars, lockVars, troubles, Answered
<1>6. Rows'
    BY GcAssumption DEF GcInv, GcTypeOK, Rows, Working, Release, DepthReleased, BackToPool, procVars, lockVars, troubles, Answered
<1>7. QED
    BY <1>1, <1>2, <1>3, <1>4, <1>5, <1>6 DEF GcInv

LEMMA ReleaseFailsStep ==
    ASSUME GcInv, NEW p \in Collectors, ReleaseFails(p)
    PROVE  GcInv'
<1>1. GcTypeOK'
    BY GcAssumption DEF GcInv, GcTypeOK, ConnTaken, Depth, Rows, Working, ReleaseFails, BackToPool, Fault, Costs, procVars, lockVars, troubles, Answered
<1>2. ConnTaken'
    BY GcAssumption DEF GcInv, GcTypeOK, ConnTaken, Working, ReleaseFails, BackToPool, Fault, Costs, procVars, lockVars, troubles, Answered
<1>3. Holding'
    BY GcAssumption DEF GcInv, GcTypeOK, ConnTaken, Holding, Working, ReleaseFails, BackToPool, Fault, Costs, procVars, lockVars, troubles, Answered
<1>4. Deleting'
    BY GcAssumption DEF GcInv, GcTypeOK, ConnTaken, Holding, Deleting, Working, ReleaseFails, BackToPool, Fault, Costs, procVars, lockVars, troubles, Answered
<1>5. Depth'
    BY GcAssumption DEF GcInv, GcTypeOK, ConnTaken, Holding, Depth, Spare, Working, ReleaseFails, BackToPool, Fault, Costs, procVars, lockVars, troubles, Answered
<1>6. Rows'
    BY GcAssumption DEF GcInv, GcTypeOK, Rows, Working, ReleaseFails, BackToPool, Fault, Costs, procVars, lockVars, troubles, Answered
<1>7. QED
    BY <1>1, <1>2, <1>3, <1>4, <1>5, <1>6 DEF GcInv

LEMMA LoseConnStep ==
    ASSUME GcInv, NEW p \in Collectors, LoseConn(p)
    PROVE  GcInv'
<1>1. GcTypeOK'
    BY GcAssumption DEF GcInv, GcTypeOK, ConnTaken, Depth, Rows, Working, LoseConn, LockUnknown, Abandon, LockFree, Fault, Costs, procVars, lockVars, troubles, Answered
<1>2. ConnTaken'
    BY GcAssumption DEF GcInv, GcTypeOK, ConnTaken, Working, LoseConn, LockUnknown, Abandon, LockFree, Fault, Costs, procVars, lockVars, troubles, Answered
<1>3. Holding'
    BY GcAssumption DEF GcInv, GcTypeOK, ConnTaken, Holding, Working, LoseConn, LockUnknown, Abandon, LockFree, Fault, Costs, procVars, lockVars, troubles, Answered
<1>4. Deleting'
    BY GcAssumption DEF GcInv, GcTypeOK, ConnTaken, Holding, Deleting, Working, LoseConn, LockUnknown, Abandon, LockFree, Fault, Costs, procVars, lockVars, troubles, Answered
<1>5. Depth'
    BY GcAssumption DEF GcInv, GcTypeOK, ConnTaken, Holding, Depth, Spare, Working, LoseConn, LockUnknown, Abandon, LockFree, Fault, Costs, procVars, lockVars, troubles, Answered
<1>6. Rows'
    BY GcAssumption DEF GcInv, GcTypeOK, Rows, Working, LoseConn, LockUnknown, Abandon, LockFree, Fault, Costs, procVars, lockVars, troubles, Answered
<1>7. QED
    BY <1>1, <1>2, <1>3, <1>4, <1>5, <1>6 DEF GcInv

LEMMA CancelStep ==
    ASSUME GcInv, NEW p \in Collectors, Cancel(p)
    PROVE  GcInv'
<1>1. GcTypeOK'
    <2>1. /\ conn[p] \in Sessions /\ sess[conn[p]] = "taken" /\ owner[conn[p]] = p
          /\ pass[p] = "lock" => depth =< faults \/ holder = None \/ ~ LockFree(conn[p])
        BY DEF Cancel, GcInv, GcTypeOK, ConnTaken, Depth, Spare, LockFree, Working
    <2>2. depth' \in 0 .. MaxFaults + 1 /\ holder' \in Sessions \union {None}
        BY <2>1, GcAssumption DEF Cancel, LockUnknown, LockFree, GcInv, GcTypeOK, Depth, lockVars
    <2>3. QED
        BY <2>1, <2>2 DEF Cancel, Abandon, troubles, GcInv, GcTypeOK
<1>2. ConnTaken'
    BY GcAssumption DEF GcInv, GcTypeOK, ConnTaken, Working, Cancel, LockUnknown, LockFree, Abandon, procVars, lockVars, troubles, Answered
<1>3. Holding'
    BY GcAssumption DEF GcInv, GcTypeOK, ConnTaken, Holding, Working, Cancel, LockUnknown, LockFree, Abandon, procVars, lockVars, troubles, Answered
<1>4. Deleting'
    BY GcAssumption DEF GcInv, GcTypeOK, ConnTaken, Holding, Deleting, Working, Cancel, LockUnknown, LockFree, Abandon, procVars, lockVars, troubles, Answered
<1>5. Depth'
    BY GcAssumption DEF GcInv, GcTypeOK, ConnTaken, Holding, Depth, Spare, Working, Cancel, LockUnknown, LockFree, Abandon, procVars, lockVars, troubles, Answered
<1>6. Rows'
    BY GcAssumption DEF GcInv, GcTypeOK, Rows, Working, Cancel, LockUnknown, LockFree, Abandon, procVars, lockVars, troubles, Answered
<1>7. QED
    BY <1>1, <1>2, <1>3, <1>4, <1>5, <1>6 DEF GcInv

LEMMA ReleaseTimesOutStep ==
    ASSUME GcInv, NEW p \in Collectors, ReleaseTimesOut(p)
    PROVE  GcInv'
<1>1. GcTypeOK'
    BY GcAssumption DEF GcInv, GcTypeOK, ConnTaken, Depth, Rows, Working, ReleaseTimesOut, ReleaseLockTimeout, Abandon, procVars, lockVars, troubles, Answered
<1>2. ConnTaken'
    BY GcAssumption DEF GcInv, GcTypeOK, ConnTaken, Working, ReleaseTimesOut, ReleaseLockTimeout, Abandon, procVars, lockVars, troubles, Answered
<1>3. Holding'
    BY GcAssumption DEF GcInv, GcTypeOK, ConnTaken, Holding, Working, ReleaseTimesOut, ReleaseLockTimeout, Abandon, procVars, lockVars, troubles, Answered
<1>4. Deleting'
    BY GcAssumption DEF GcInv, GcTypeOK, ConnTaken, Holding, Deleting, Working, ReleaseTimesOut, ReleaseLockTimeout, Abandon, procVars, lockVars, troubles, Answered
<1>5. Depth'
    BY GcAssumption DEF GcInv, GcTypeOK, ConnTaken, Holding, Depth, Spare, Working, ReleaseTimesOut, ReleaseLockTimeout, Abandon, procVars, lockVars, troubles, Answered
<1>6. Rows'
    BY GcAssumption DEF GcInv, GcTypeOK, Rows, Working, ReleaseTimesOut, ReleaseLockTimeout, Abandon, procVars, lockVars, troubles, Answered
<1>7. QED
    BY <1>1, <1>2, <1>3, <1>4, <1>5, <1>6 DEF GcInv

LEMMA SigTermStep ==
    ASSUME GcInv, NEW p \in Collectors, SigTerm(p)
    PROVE  GcInv'
<1>1. GcTypeOK'
    BY GcAssumption DEF GcInv, GcTypeOK, ConnTaken, Depth, Rows, Working, SigTerm, procVars, lockVars, troubles, Answered
<1>2. ConnTaken'
    BY GcAssumption DEF GcInv, GcTypeOK, ConnTaken, Working, SigTerm, procVars, lockVars, troubles, Answered
<1>3. Holding'
    BY GcAssumption DEF GcInv, GcTypeOK, ConnTaken, Holding, Working, SigTerm, procVars, lockVars, troubles, Answered
<1>4. Deleting'
    BY GcAssumption DEF GcInv, GcTypeOK, ConnTaken, Holding, Deleting, Working, SigTerm, procVars, lockVars, troubles, Answered
<1>5. Depth'
    BY GcAssumption DEF GcInv, GcTypeOK, ConnTaken, Holding, Depth, Spare, Working, SigTerm, procVars, lockVars, troubles, Answered
<1>6. Rows'
    BY GcAssumption DEF GcInv, GcTypeOK, Rows, Working, SigTerm, procVars, lockVars, troubles, Answered
<1>7. QED
    BY <1>1, <1>2, <1>3, <1>4, <1>5, <1>6 DEF GcInv

LEMMA ExitStep ==
    ASSUME GcInv, NEW p \in Collectors, Exit(p)
    PROVE  GcInv'
<1>1. GcTypeOK'
    BY GcAssumption DEF GcInv, GcTypeOK, ConnTaken, Depth, Rows, Working, Exit, Orphaned, procVars, lockVars, troubles, Answered
<1>2. ConnTaken'
    BY GcAssumption DEF GcInv, GcTypeOK, ConnTaken, Working, Exit, Orphaned, procVars, lockVars, troubles, Answered
<1>3. Holding'
    BY GcAssumption DEF GcInv, GcTypeOK, ConnTaken, Holding, Working, Exit, Orphaned, procVars, lockVars, troubles, Answered
<1>4. Deleting'
    BY GcAssumption DEF GcInv, GcTypeOK, ConnTaken, Holding, Deleting, Working, Exit, Orphaned, procVars, lockVars, troubles, Answered
<1>5. Depth'
    BY GcAssumption DEF GcInv, GcTypeOK, ConnTaken, Holding, Depth, Spare, Working, Exit, Orphaned, procVars, lockVars, troubles, Answered
<1>6. Rows'
    BY GcAssumption DEF GcInv, GcTypeOK, Rows, Working, Exit, Orphaned, procVars, lockVars, troubles, Answered
<1>7. QED
    BY <1>1, <1>2, <1>3, <1>4, <1>5, <1>6 DEF GcInv

LEMMA CrashStep ==
    ASSUME GcInv, NEW p \in Collectors, Crash(p)
    PROVE  GcInv'
<1>1. GcTypeOK'
    BY GcAssumption DEF GcInv, GcTypeOK, ConnTaken, Depth, Rows, Working, Crash, Orphaned, Fault, Costs, procVars, lockVars, troubles, Answered
<1>2. ConnTaken'
    BY GcAssumption DEF GcInv, GcTypeOK, ConnTaken, Working, Crash, Orphaned, Fault, Costs, procVars, lockVars, troubles, Answered
<1>3. Holding'
    BY GcAssumption DEF GcInv, GcTypeOK, ConnTaken, Holding, Working, Crash, Orphaned, Fault, Costs, procVars, lockVars, troubles, Answered
<1>4. Deleting'
    BY GcAssumption DEF GcInv, GcTypeOK, ConnTaken, Holding, Deleting, Working, Crash, Orphaned, Fault, Costs, procVars, lockVars, troubles, Answered
<1>5. Depth'
    BY GcAssumption DEF GcInv, GcTypeOK, ConnTaken, Holding, Depth, Spare, Working, Crash, Orphaned, Fault, Costs, procVars, lockVars, troubles, Answered
<1>6. Rows'
    BY GcAssumption DEF GcInv, GcTypeOK, Rows, Working, Crash, Orphaned, Fault, Costs, procVars, lockVars, troubles, Answered
<1>7. QED
    BY <1>1, <1>2, <1>3, <1>4, <1>5, <1>6 DEF GcInv

LEMMA RestartStep ==
    ASSUME GcInv, NEW p \in Collectors, Restart(p)
    PROVE  GcInv'
<1>1. GcTypeOK'
    BY GcAssumption DEF GcInv, GcTypeOK, ConnTaken, Depth, Rows, Working, Restart, procVars, lockVars, troubles, Answered
<1>2. ConnTaken'
    BY GcAssumption DEF GcInv, GcTypeOK, ConnTaken, Working, Restart, procVars, lockVars, troubles, Answered
<1>3. Holding'
    BY GcAssumption DEF GcInv, GcTypeOK, ConnTaken, Holding, Working, Restart, procVars, lockVars, troubles, Answered
<1>4. Deleting'
    BY GcAssumption DEF GcInv, GcTypeOK, ConnTaken, Holding, Deleting, Working, Restart, procVars, lockVars, troubles, Answered
<1>5. Depth'
    BY GcAssumption DEF GcInv, GcTypeOK, ConnTaken, Holding, Depth, Spare, Working, Restart, procVars, lockVars, troubles, Answered
<1>6. Rows'
    BY GcAssumption DEF GcInv, GcTypeOK, Rows, Working, Restart, procVars, lockVars, troubles, Answered
<1>7. QED
    BY <1>1, <1>2, <1>3, <1>4, <1>5, <1>6 DEF GcInv

LEMMA OrphanDeletesStep ==
    ASSUME GcInv, NEW s \in Sessions, OrphanDeletes(s)
    PROVE  GcInv'
<1>1. GcTypeOK'
    BY GcAssumption DEF GcInv, GcTypeOK, ConnTaken, Depth, Rows, Working, OrphanDeletes, Deleted, procVars, lockVars, troubles, Answered
<1>2. ConnTaken'
    BY GcAssumption DEF GcInv, GcTypeOK, ConnTaken, Working, OrphanDeletes, Deleted, procVars, lockVars, troubles, Answered
<1>3. Holding'
    BY GcAssumption DEF GcInv, GcTypeOK, ConnTaken, Holding, Working, OrphanDeletes, Deleted, procVars, lockVars, troubles, Answered
<1>4. Deleting'
    BY GcAssumption DEF GcInv, GcTypeOK, ConnTaken, Holding, Deleting, Working, OrphanDeletes, Deleted, procVars, lockVars, troubles, Answered
<1>5. Depth'
    BY GcAssumption DEF GcInv, GcTypeOK, ConnTaken, Holding, Depth, Spare, Working, OrphanDeletes, Deleted, procVars, lockVars, troubles, Answered
<1>6. Rows'
    BY GcAssumption DEF GcInv, GcTypeOK, Rows, Working, OrphanDeletes, Deleted, procVars, lockVars, troubles, Answered
<1>7. QED
    BY <1>1, <1>2, <1>3, <1>4, <1>5, <1>6 DEF GcInv

LEMMA EndSessionStep ==
    ASSUME GcInv, NEW s \in Sessions, EndSession(s)
    PROVE  GcInv'
<1>1. GcTypeOK'
    BY GcAssumption DEF GcInv, GcTypeOK, ConnTaken, Depth, Rows, Working, EndSession, procVars, lockVars, troubles, Answered
<1>2. ConnTaken'
    BY GcAssumption DEF GcInv, GcTypeOK, ConnTaken, Working, EndSession, procVars, lockVars, troubles, Answered
<1>3. Holding'
    BY GcAssumption DEF GcInv, GcTypeOK, ConnTaken, Holding, Working, EndSession, procVars, lockVars, troubles, Answered
<1>4. Deleting'
    BY GcAssumption DEF GcInv, GcTypeOK, ConnTaken, Holding, Deleting, Working, EndSession, procVars, lockVars, troubles, Answered
<1>5. Depth'
    BY GcAssumption DEF GcInv, GcTypeOK, ConnTaken, Holding, Depth, Spare, Working, EndSession, procVars, lockVars, troubles, Answered
<1>6. Rows'
    BY GcAssumption DEF GcInv, GcTypeOK, Rows, Working, EndSession, procVars, lockVars, troubles, Answered
<1>7. QED
    BY <1>1, <1>2, <1>3, <1>4, <1>5, <1>6 DEF GcInv

LEMMA RowExpiresStep ==
    ASSUME GcInv, RowExpires
    PROVE  GcInv'
<1>1. GcTypeOK'
    BY GcAssumption DEF GcInv, GcTypeOK, ConnTaken, Depth, Rows, Working, RowExpires, procVars, lockVars, troubles, Answered
<1>2. ConnTaken'
    BY GcAssumption DEF GcInv, GcTypeOK, ConnTaken, Working, RowExpires, procVars, lockVars, troubles, Answered
<1>3. Holding'
    BY GcAssumption DEF GcInv, GcTypeOK, ConnTaken, Holding, Working, RowExpires, procVars, lockVars, troubles, Answered
<1>4. Deleting'
    BY GcAssumption DEF GcInv, GcTypeOK, ConnTaken, Holding, Deleting, Working, RowExpires, procVars, lockVars, troubles, Answered
<1>5. Depth'
    BY GcAssumption DEF GcInv, GcTypeOK, ConnTaken, Holding, Depth, Spare, Working, RowExpires, procVars, lockVars, troubles, Answered
<1>6. Rows'
    BY GcAssumption DEF GcInv, GcTypeOK, Rows, Working, RowExpires, procVars, lockVars, troubles, Answered
<1>7. QED
    BY <1>1, <1>2, <1>3, <1>4, <1>5, <1>6 DEF GcInv

LEMMA SilenceStep ==
    ASSUME GcInv, FallSilent \/ SpeakAgain
    PROVE  GcInv'
<1>1. GcTypeOK'
    <2>1. faults' \in 0 .. MaxFaults
        BY GcAssumption DEF GcInv, GcTypeOK, FallSilent, SpeakAgain, Costs
    <2>2. silent' \in BOOLEAN
        BY Zenon DEF FallSilent, SpeakAgain
    <2>3. QED
        BY <2>1, <2>2 DEF GcInv, GcTypeOK, FallSilent, SpeakAgain, procVars, lockVars
<1>2. ConnTaken'
    BY GcAssumption DEF GcInv, GcTypeOK, ConnTaken, Working, FallSilent, SpeakAgain, Costs, procVars, lockVars, troubles, Answered
<1>3. Holding'
    BY GcAssumption DEF GcInv, GcTypeOK, ConnTaken, Holding, Working, FallSilent, SpeakAgain, Costs, procVars, lockVars, troubles, Answered
<1>4. Deleting'
    BY GcAssumption DEF GcInv, GcTypeOK, ConnTaken, Holding, Deleting, Working, FallSilent, SpeakAgain, Costs, procVars, lockVars, troubles, Answered
<1>5. Depth'
    BY GcAssumption DEF GcInv, GcTypeOK, ConnTaken, Holding, Depth, Spare, Working, FallSilent, SpeakAgain, Costs, procVars, lockVars, troubles, Answered
<1>6. Rows'
    BY GcAssumption DEF GcInv, GcTypeOK, Rows, Working, FallSilent, SpeakAgain, Costs, procVars, lockVars, troubles, Answered
<1>7. QED
    BY <1>1, <1>2, <1>3, <1>4, <1>5, <1>6 DEF GcInv

-----------------------------------------------------------------------------
LEMMA GcInvInit == GcInit => GcInv
<1> SUFFICES ASSUME GcInit PROVE GcInv
    OBVIOUS
<1>1. GcTypeOK
    <2>1. silent \in BOOLEAN
        BY Zenon DEF GcInit
    <2>2. QED
        BY <2>1, GcAssumption DEF GcInit, GcTypeOK
<1>2. ConnTaken /\ Holding /\ Deleting
    BY DEF GcInit, ConnTaken, Holding, Deleting, Working
<1>3. Depth /\ Rows
    BY GcAssumption DEF GcInit, Depth, Rows
<1>4. QED
    BY <1>1, <1>2, <1>3 DEF GcInv

LEMMA GcInvStep == GcInv /\ [GcNext]_gcVars => GcInv'
<1> SUFFICES ASSUME GcInv, [GcNext]_gcVars PROVE GcInv'
    OBVIOUS
<1>1. ASSUME NEW p \in Collectors, Pass(p)
      PROVE  GcInv'
    BY <1>1, TakeConnStep, GetLockStep, GiveUpStep, BeginDeleteStep, EndDeleteStep, ReleaseStep,
        CancelStep, ReleaseTimesOutStep, ExitStep DEF Pass
<1>2. ASSUME NEW p \in Collectors, LockFails(p) \/ DeleteFails(p) \/ ReleaseFails(p) \/ LoseConn(p)
      PROVE  GcInv'
    BY <1>2, LockFailsStep, DeleteFailsStep, ReleaseFailsStep, LoseConnStep
<1>3. ASSUME NEW p \in Collectors, SigTerm(p) \/ Crash(p) \/ Restart(p)
      PROVE  GcInv'
    BY <1>3, SigTermStep, CrashStep, RestartStep
<1>4. ASSUME NEW s \in Sessions, OrphanDeletes(s) \/ EndSession(s)
      PROVE  GcInv'
    BY <1>4, OrphanDeletesStep, EndSessionStep
<1>5. CASE FallSilent \/ SpeakAgain \/ RowExpires
    BY <1>5, SilenceStep, RowExpiresStep
<1>6. CASE UNCHANGED gcVars
    <2>1. GcTypeOK' /\ ConnTaken' /\ Holding' /\ Deleting'
        BY <1>6 DEF gcVars, procVars, lockVars, troubles, Answered, GcInv, GcTypeOK, ConnTaken, Holding, Deleting
    <2>2. Depth' /\ Rows'
        BY <1>6 DEF gcVars, procVars, lockVars, troubles, Answered, GcInv, Depth, Spare, Rows
    <2>3. QED
        BY <2>1, <2>2 DEF GcInv
<1>7. QED
    BY <1>1, <1>2, <1>3, <1>4, <1>5, <1>6 DEF GcNext

(* The invariant holds of all processes and sessions.                      *)
THEOREM GcInvariant == GcSpec => []GcInv
<1>1. QED
    BY GcInvInit, GcInvStep, PTL DEF GcSpec

(* Types: the lock is taken at most once more often than something failed, *)
(* and no more rows are deleted than expired.                              *)
THEOREM GcTyping == GcSpec => []GcTypeOK
<1>1. GcInv => GcTypeOK
    BY DEF GcInv
<1>2. QED
    BY <1>1, GcInvariant, PTL

(* Two DELETEs of the garbage collector never run at a time (gc.go:10).    *)
THEOREM OneDeleteAtATime == GcSpec => []OneDelete
<1>1. GcInv => OneDelete
    <2>1. SUFFICES ASSUME GcInv PROVE Cardinality(running) =< 1
        BY DEF OneDelete
    <2>2. \A s \in running : s = holder
        BY <2>1 DEF GcInv, Deleting
    <2>3. CASE running = {}
        BY <2>3, FS_EmptySet
    <2>4. CASE running # {}
        <3>1. running = {holder}
            BY <2>2, <2>4
        <3>2. QED
            BY <3>1, FS_Singleton
    <2>5. QED
        BY <2>3, <2>4
<1>2. QED
    BY <1>1, GcInvariant, PTL

(* Whoever deletes or releases has the lock, and the lock is never free    *)
(* while a DELETE runs, be its client alive or not (gc.go:34-53).          *)
LockHeld == Holding /\ (running # {} => holder # None)

THEOREM DeletesUnderLock == GcSpec => []LockHeld
<1>1. GcInv => LockHeld
    BY GcAssumption DEF GcInv, GcTypeOK, Deleting, LockHeld
<1>2. QED
    BY <1>1, GcInvariant, PTL
=============================================================================
