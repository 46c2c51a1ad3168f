-------------------------- MODULE NotifyOnceProofs ---------------------------
(***************************************************************************)
(* Proofs about NotifyOnce, for every number of requests and keys, every   *)
(* number of attempts and any failures.                                    *)
(*                                                                         *)
(* What the gap lock guarantees is an invariant about locks, not about     *)
(* rows: whoever stands between the NOT EXISTS and the INSERT holds a gap  *)
(* with its own key in it, and no key of a gap that is held has a row.     *)
(* Only its single holder can insert a key, so it inserts the first row.   *)
(* That two writers lose nothing rests on who is ahead of a pause, and on  *)
(* pauses that outlast the INSERTs they are there for.                     *)
(***************************************************************************)
EXTENDS NotifyOnce, FiniteSetTheorems, WellFoundedInduction, TLAPS

(* The locks: an INSERT to be run has its gap, and held gaps have no rows. *)
GapIsMine ==
    \A r \in Requests :
        /\ pc[r] = "insert" => key[r] \in held[r]
        /\ \A k \in held[r] : notes[k] = 0

(* r has announced its notification, or is about to.                       *)
Told(r) == pc[r] = "deliver" \/ r \in published

ToldSingle == \A r, q \in Requests : Told(r) /\ Told(q) /\ key[r] = key[q] => r = q

(* Deleted for good: there is no notification about a post that is gone.   *)
NoneOfGone == \A k \in PostKeys : notes[k] > 0 => posted

IInv == TypeOK /\ GapIsMine /\ OneNote /\ ToldIsStored /\ ToldSingle /\ NoneOfGone

(* A key is in its own gap when it has no row, and a gap has no rows.      *)
LEMMA OwnGap ==
    ASSUME NEW present \in SUBSET Keys, NEW k \in Keys \ present
    PROVE  /\ k \in Gap(k, present)
           /\ Gap(k, present) \subseteq Keys \ present
<1>1. \A m \in present : ~ (k < m /\ m < k)
    BY NotifyAssumption DEF Keys, Gap
<1> QED
    BY <1>1 DEF Gap

(* What is not present has no row.                                         *)
LEMMA AbsentRow == TypeOK => \A k \in Keys \ Present : notes[k] = 0
<1> SUFFICES ASSUME TypeOK, NEW k \in Keys \ Present PROVE notes[k] = 0
    OBVIOUS
<1>1. notes[k] \in 0 .. 2
    BY DEF TypeOK
<1>2. ~ (notes[k] > 0)
    BY DEF Present
<1> QED
    BY <1>1, <1>2

(* The types are kept by every step.                                       *)
LEMMA TypingStep == TypeOK /\ [Next]_vars => TypeOK'
<1> SUFFICES ASSUME TypeOK, [Next]_vars PROVE TypeOK'
    OBVIOUS
<1> USE NotifyAssumption DEF TypeOK, Stages
<1>1. ASSUME NEW r \in Requests, Start(r) PROVE TypeOK'
    BY <1>1 DEF Start, Goto, job, rows
<1>2. ASSUME NEW r \in Requests, Check(r) PROVE TypeOK'
    BY <1>2 DEF Check, Goto, Respond, job, rows
<1>3. ASSUME NEW r \in Requests, WriteDeed(r) PROVE TypeOK'
    BY <1>3 DEF WriteDeed, Goto, job, rows
<1>4. ASSUME NEW r \in Requests, WriteRefused(r) PROVE TypeOK'
    BY <1>4 DEF WriteRefused, Goto, Respond, job, rows
<1>5. ASSUME NEW r \in Requests, WriteUndo(r) PROVE TypeOK'
    BY <1>5 DEF WriteUndo, Goto, job, rows
<1>6. ASSUME NEW r \in Requests, Count(r) PROVE TypeOK'
    BY <1>6 DEF Count, Goto, Respond, job, rows
<1>7. ASSUME NEW r \in Requests, SeekNote(r) PROVE TypeOK'
    BY <1>7 DEF SeekNote, SeekLocks, Gap, Goto, job, rows
<1>8. ASSUME NEW r \in Requests, InsertNote(r) PROVE TypeOK'
    BY <1>8 DEF InsertNote, StatementEnds, Goto, job, rows
<1>9. ASSUME NEW r \in Requests, InsertRefused(r) PROVE TypeOK'
    BY <1>9 DEF InsertRefused, StatementEnds, Lose, Goto, job, rows
<1>10. ASSUME NEW r \in Requests, Victim(r) PROVE TypeOK'
    BY <1>10 DEF Victim, Fault, TriesAgain, Lose, Goto, job, rows
<1>11. ASSUME NEW r \in Requests, PauseEnds(r) PROVE TypeOK'
    BY <1>11 DEF PauseEnds, Goto, job, rows
<1>12. ASSUME NEW r \in Requests, Deliver(r) PROVE TypeOK'
    BY <1>12 DEF Deliver, Goto, job, rows
<1>13. ASSUME NEW r \in Requests, CheckFails(r) PROVE TypeOK'
    BY <1>13 DEF CheckFails, Fault, Goto, Respond, job, rows
<1>14. ASSUME NEW r \in Requests, WriteFails(r) PROVE TypeOK'
    BY <1>14 DEF WriteFails, Fault, Goto, Respond, job, rows
<1>15. ASSUME NEW r \in Requests, CountFails(r) PROVE TypeOK'
    BY <1>15 DEF CountFails, Fault, Goto, Respond, job, rows
<1>16. ASSUME NEW r \in Requests, NotifyFails(r) PROVE TypeOK'
    BY <1>16 DEF NotifyFails, StatementEnds, Lose, Fault, Goto, job, rows
<1>17. ASSUME DeletePost PROVE TypeOK'
    <2> DEFINE W(r) == UNION {Gap(k, Present \ PostKeys) : k \in held[r]}
    <2>1. \A r \in Requests : W(r) \in SUBSET Keys
        BY DEF Gap
    <2>2. \A r \in Requests : W(r) # {} => held[r] # {}
        OBVIOUS
    <2>3. held' = [r \in Requests |-> W(r)] /\ pc' = pc
        BY <1>17 DEF DeletePost
    <2> HIDE DEF W
    <2>4. /\ held' \in [Requests -> SUBSET Keys]
          /\ \A r \in Requests : held'[r] # {} => pc'[r] = "insert"
        BY <2>1, <2>2, <2>3
    <2>5. deeds' \subseteq Keys /\ posted' \in BOOLEAN
        BY <1>17 DEF DeletePost
    <2>6. notes' \in [Keys -> 0 .. 2]
        BY <1>17 DEF DeletePost
    <2>7. UNCHANGED <<undo, key, pc, attempt, ahead, hasty, published, lost, answer, faults>>
        BY <1>17 DEF DeletePost, job
    <2> QED
        BY <2>4, <2>5, <2>6, <2>7
<1>18. ASSUME UNCHANGED vars PROVE TypeOK'
    BY <1>18 DEF vars, job, rows
<1> QED
    BY <1>1, <1>2, <1>3, <1>4, <1>5, <1>6, <1>7, <1>8, <1>9, <1>10, <1>11, <1>12,
       <1>13, <1>14, <1>15, <1>16, <1>17, <1>18 DEF Next, Step

-----------------------------------------------------------------------------
(* Steps that write and lock nothing, and announce nobody anew.            *)
Quiet ==
    /\ UNCHANGED <<job, notes, posted, held, published>>
    /\ \A r \in Requests : pc'[r] \in {"insert", "deliver"} => pc'[r] = pc[r]

LEMMA QuietStep == IInv /\ Quiet /\ TypeOK' => IInv'
    BY DEF IInv, Quiet, GapIsMine, OneNote, ToldIsStored, ToldSingle, NoneOfGone, Told, job

(* A statement that ends without a row.                                    *)
LEMMA EndStep ==
    ASSUME IInv, TypeOK', NEW r \in Requests,
           UNCHANGED <<job, notes, posted, published>>,
           held' = [held EXCEPT ![r] = {}],
           \A q \in Requests \ {r} : pc'[q] = pc[q],
           pc'[r] \notin {"insert", "deliver"}
    PROVE  IInv'
<1> USE DEF IInv, TypeOK
<1>1. GapIsMine'
    BY DEF GapIsMine, job
<1>2. OneNote' /\ NoneOfGone'
    BY DEF OneNote, NoneOfGone
<1>3. \A q \in Requests : Told(q)' => Told(q)
    BY DEF Told
<1>4. ToldIsStored'
    BY <1>3 DEF ToldIsStored, Told, job
<1>5. ToldSingle'
    BY <1>3 DEF ToldSingle, job
<1> QED
    BY <1>1, <1>2, <1>4, <1>5

(* A statement that ends with its row written: it is the first.            *)
LEMMA InsertStep ==
    ASSUME IInv, TypeOK', NEW r \in Requests,
           pc[r] = "insert", Blockers(r) = {}, TargetExists(r),
           UNCHANGED <<job, posted, published>>,
           notes' = [notes EXCEPT ![key[r]] = IF @ < 2 THEN @ + 1 ELSE @],
           held' = [held EXCEPT ![r] = {}],
           \A q \in Requests \ {r} : pc'[q] = pc[q],
           pc'[r] # "insert"
    PROVE  IInv'
<1> DEFINE k == key[r]
<1>0. k \in Keys /\ notes[k] = 0
    BY DEF IInv, TypeOK, GapIsMine
<1>1. k \in Keys /\ notes[k] = 0 /\ notes' = [notes EXCEPT ![k] = 1]
    BY <1>0
<1>2. \A q \in Requests \ {r} : k \notin held[q]
    BY DEF Blockers
<1>3. GapIsMine'
    BY <1>1, <1>2 DEF IInv, TypeOK, GapIsMine, job
<1>4. OneNote'
    BY <1>1 DEF IInv, TypeOK, OneNote
<1>5. NoneOfGone'
    BY <1>1, NotifyAssumption DEF IInv, TypeOK, NoneOfGone, TargetExists
<1>6. \A q \in Requests : Told(q)' => Told(q) \/ q = r
    BY DEF Told
<1>7. \A q \in Requests : Told(q) => key[q] # k
    BY <1>1 DEF IInv, ToldIsStored, Told, TargetExists
<1>8. ToldIsStored'
    <2> SUFFICES ASSUME NEW q \in Requests, Told(q)'
                 PROVE  notes'[key'[q]] > 0 \/ (key'[q] \in PostKeys /\ ~ posted')
        BY DEF ToldIsStored, Told
    <2>1. CASE q = r
        BY <1>1, <2>1 DEF IInv, TypeOK, job
    <2>2. CASE q # r
        <3>1. Told(q) /\ key[q] \in Keys
            BY <1>6, <2>2 DEF IInv, TypeOK
        <3>2. notes[key[q]] > 0 \/ (key[q] \in PostKeys /\ ~ posted)
            BY <3>1 DEF IInv, ToldIsStored, Told
        <3> QED
            BY <1>1, <1>7, <3>1, <3>2 DEF IInv, TypeOK, job
    <2> QED
        BY <2>1, <2>2
<1>9. ToldSingle'
    BY <1>6, <1>7 DEF IInv, ToldSingle, job
<1> QED
    BY <1>3, <1>4, <1>5, <1>8, <1>9 DEF IInv

(* The inductive step.                                                     *)
LEMMA Induction == IInv /\ [Next]_vars => IInv'
<1> SUFFICES ASSUME IInv, [Next]_vars PROVE IInv'
    OBVIOUS
<1>0. TypeOK /\ TypeOK'
    BY TypingStep DEF IInv
<1>1. ASSUME NEW r \in Requests,
             \/ Start(r) \/ Check(r) \/ WriteDeed(r) \/ WriteRefused(r) \/ WriteUndo(r)
             \/ Count(r) \/ PauseEnds(r) \/ CheckFails(r) \/ WriteFails(r) \/ CountFails(r)
      PROVE  IInv'
    <2>1. Quiet
        BY <1>0, <1>1 DEF Quiet, TypeOK, Start, Check, WriteDeed, WriteRefused, WriteUndo,
           Count, PauseEnds, CheckFails, WriteFails, CountFails, Goto, Respond, job, rows
    <2> QED
        BY <1>0, <2>1, QuietStep
<1>2. ASSUME NEW r \in Requests, SeekNote(r) PROVE IInv'
    <2>1. CASE notes[key[r]] > 0
        <3>1. Quiet
            BY <1>0, <1>2, <2>1 DEF Quiet, TypeOK, SeekNote, Goto, job, rows
        <3> QED
            BY <1>0, <3>1, QuietStep
    <2>2. CASE ~ (notes[key[r]] > 0)
        <3>1. key[r] \in Keys \ Present /\ Present \in SUBSET Keys
            BY <1>0, <2>2 DEF TypeOK, Present
        <3>2. /\ key[r] \in SeekLocks(key[r])
              /\ SeekLocks(key[r]) \subseteq Keys \ Present
            BY <3>1, OwnGap DEF SeekLocks
        <3>3. \A k \in SeekLocks(key[r]) : notes[k] = 0
            BY <1>0, <3>2, AbsentRow
        <3>4. /\ held' = [held EXCEPT ![r] = SeekLocks(key[r])]
              /\ pc' = [pc EXCEPT ![r] = "insert"]
              /\ UNCHANGED <<job, notes, posted, published>>
            BY <1>2, <2>2 DEF SeekNote, Goto, rows
        <3> HIDE DEF SeekLocks
        <3>5. GapIsMine'
            BY <1>0, <3>2, <3>3, <3>4 DEF IInv, TypeOK, GapIsMine, job
        <3>6. \A q \in Requests : Told(q)' => Told(q)
            BY <1>0, <3>4 DEF Told, TypeOK
        <3>7. ToldIsStored' /\ ToldSingle'
            BY <3>4, <3>6 DEF IInv, ToldIsStored, ToldSingle, Told, job
        <3>8. OneNote' /\ NoneOfGone'
            BY <3>4 DEF IInv, OneNote, NoneOfGone
        <3> QED
            BY <1>0, <3>5, <3>7, <3>8 DEF IInv
    <2> QED
        BY <2>1, <2>2
<1>3. ASSUME NEW r \in Requests, InsertNote(r) PROVE IInv'
    <2>1. /\ pc[r] = "insert" /\ Blockers(r) = {} /\ TargetExists(r)
          /\ UNCHANGED <<job, posted, published>>
          /\ notes' = [notes EXCEPT ![key[r]] = IF @ < 2 THEN @ + 1 ELSE @]
          /\ held' = [held EXCEPT ![r] = {}]
        BY <1>3 DEF InsertNote, StatementEnds
    <2>2. (\A q \in Requests \ {r} : pc'[q] = pc[q]) /\ pc'[r] # "insert"
        BY <1>0, <1>3 DEF InsertNote, Goto, TypeOK
    <2> QED
        BY <1>0, <2>1, <2>2, InsertStep
<1>4. ASSUME NEW r \in Requests, InsertRefused(r) PROVE IInv'
    <2>1. /\ UNCHANGED <<job, notes, posted, published>>
          /\ held' = [held EXCEPT ![r] = {}]
          /\ \A q \in Requests \ {r} : pc'[q] = pc[q]
          /\ pc'[r] \notin {"insert", "deliver"}
        BY <1>0, <1>4 DEF InsertRefused, StatementEnds, Lose, Goto, TypeOK, rows
    <2> QED
        BY <1>0, <2>1, EndStep
<1>5. ASSUME NEW r \in Requests, Victim(r) PROVE IInv'
    <2>1. /\ UNCHANGED <<job, notes, posted, published>>
          /\ held' = [held EXCEPT ![r] = {}]
          /\ \A q \in Requests \ {r} : pc'[q] = pc[q]
          /\ pc'[r] \notin {"insert", "deliver"}
        BY <1>0, <1>5 DEF Victim, Lose, Goto, TypeOK, rows
    <2> QED
        BY <1>0, <2>1, EndStep
<1>6. ASSUME NEW r \in Requests, NotifyFails(r) PROVE IInv'
    <2>1. CASE UNCHANGED notes
        <3>1. /\ UNCHANGED <<job, notes, posted, published>>
              /\ held' = [held EXCEPT ![r] = {}]
              /\ \A q \in Requests \ {r} : pc'[q] = pc[q]
              /\ pc'[r] \notin {"insert", "deliver"}
            BY <1>0, <1>6, <2>1 DEF NotifyFails, StatementEnds, Lose, Goto, TypeOK
        <3> QED
            BY <1>0, <3>1, EndStep
    <2>2. CASE ~ UNCHANGED notes
        <3>1. /\ pc[r] = "insert" /\ Blockers(r) = {} /\ TargetExists(r)
              /\ UNCHANGED <<job, posted, published>>
              /\ notes' = [notes EXCEPT ![key[r]] = IF @ < 2 THEN @ + 1 ELSE @]
              /\ held' = [held EXCEPT ![r] = {}]
            BY <1>6, <2>2 DEF NotifyFails, StatementEnds
        <3>2. (\A q \in Requests \ {r} : pc'[q] = pc[q]) /\ pc'[r] # "insert"
            BY <1>0, <1>6 DEF NotifyFails, Lose, Goto, TypeOK
        <3> QED
            BY <1>0, <3>1, <3>2, InsertStep
    <2> QED
        BY <2>1, <2>2
<1>7. ASSUME NEW r \in Requests, Deliver(r) PROVE IInv'
    <2>1. \A q \in Requests : Told(q)' <=> Told(q)
        BY <1>0, <1>7 DEF Deliver, Goto, Told, TypeOK
    <2>2. GapIsMine'
        BY <1>0, <1>7 DEF IInv, TypeOK, Deliver, Goto, GapIsMine, job, rows
    <2>3. ToldIsStored' /\ ToldSingle'
        BY <1>7, <2>1 DEF IInv, Deliver, ToldIsStored, ToldSingle, Told, job, rows
    <2>4. OneNote' /\ NoneOfGone'
        BY <1>7 DEF IInv, Deliver, OneNote, NoneOfGone, rows
    <2> QED
        BY <1>0, <2>2, <2>3, <2>4 DEF IInv
<1>8. ASSUME DeletePost PROVE IInv'
    <2> DEFINE P == Present \ PostKeys
    <2>1. /\ \A k \in Keys : notes'[k] = IF k \in PostKeys THEN 0 ELSE notes[k]
          /\ \A r \in Requests : held'[r] = UNION {Gap(k, P) : k \in held[r]}
          /\ posted' = FALSE /\ UNCHANGED <<job, pc, published>>
        BY <1>8 DEF DeletePost
    <2>2. \A r \in Requests : held[r] \subseteq Keys \ P
        BY <1>0 DEF IInv, TypeOK, GapIsMine, Present
    <2>3. P \in SUBSET Keys
        BY DEF Present
    <2>4. \A k \in Keys \ P : k \in Gap(k, P) /\ Gap(k, P) \subseteq Keys \ P
        BY <2>3, OwnGap
    <2>5. ASSUME NEW r \in Requests
          PROVE  held[r] \subseteq held'[r] /\ held'[r] \subseteq Keys \ P
        <3> HIDE DEF P
        <3>1. \A k \in held[r] : k \in Gap(k, P) /\ Gap(k, P) \subseteq Keys \ P
            BY <2>2, <2>4
        <3>2. held'[r] = UNION {Gap(k, P) : k \in held[r]}
            BY <2>1
        <3> QED
            BY <3>1, <3>2
    <2>6. \A k \in Keys \ P : notes'[k] = 0
        BY <1>0, <2>1, AbsentRow
    <2>7. GapIsMine'
        BY <2>1, <2>5, <2>6 DEF IInv, GapIsMine, job
    <2>8. OneNote' /\ NoneOfGone'
        BY <1>0, <2>1, NotifyAssumption DEF IInv, TypeOK, OneNote, NoneOfGone
    <2>9. ToldIsStored'
        BY <1>0, <2>1 DEF IInv, TypeOK, ToldIsStored, Told, job
    <2>10. ToldSingle'
        BY <2>1 DEF IInv, ToldSingle, Told, job
    <2> QED
        BY <1>0, <2>7, <2>8, <2>9, <2>10 DEF IInv
<1>9. ASSUME UNCHANGED vars PROVE IInv'
    <2>1. Quiet
        BY <1>9 DEF Quiet, vars, rows, job
    <2> QED
        BY <1>0, <2>1, QuietStep
<1> QED
    BY <1>1, <1>2, <1>3, <1>4, <1>5, <1>6, <1>7, <1>8, <1>9 DEF Next, Step

LEMMA Invariance == Spec => []IInv
<1>1. Init => IInv
    <2> SUFFICES ASSUME Init PROVE IInv
        OBVIOUS
    <2>1. TypeOK
        <3>1. /\ 1 \in 1 .. Attempts /\ 0 \in 0 .. MaxFaults
              /\ undo \in [Requests -> BOOLEAN] /\ key \in [Requests -> Keys]
            BY NotifyAssumption DEF Init
        <3>2. /\ pc \in [Requests -> Stages] /\ attempt \in [Requests -> 1 .. Attempts]
              /\ held \in [Requests -> SUBSET Keys] /\ \A r \in Requests : held[r] = {}
              /\ ahead \in [Requests -> SUBSET Requests]
              /\ answer \in [Requests -> {None, 200, 404, 500}]
            BY <3>1 DEF Init, Stages
        <3>3. notes \in [Keys -> 0 .. 2]
            BY DEF Init
        <3>4. /\ hasty \in BOOLEAN /\ posted \in BOOLEAN /\ deeds \subseteq Keys
              /\ published \subseteq Requests /\ lost \subseteq Requests
              /\ faults \in 0 .. MaxFaults
            BY <3>1 DEF Init
        <3> QED
            BY <3>1, <3>2, <3>3, <3>4 DEF TypeOK
    <2>2. GapIsMine /\ OneNote /\ ToldIsStored /\ ToldSingle /\ NoneOfGone
        BY DEF Init, GapIsMine, OneNote, ToldIsStored, ToldSingle, NoneOfGone, Told
    <2> QED
        BY <2>1, <2>2 DEF IInv
<1> QED
    BY <1>1, Induction, PTL DEF Spec

(* Induction over the natural numbers, for a set.                          *)
LEMMA NatInduct ==
    ASSUME NEW T, \A n \in Nat : (\A m \in 0 .. n - 1 : m \in T) => n \in T
    PROVE  \A n \in Nat : n \in T
<1> SUFFICES ASSUME Nat \ T # {} PROVE FALSE
    OBVIOUS
<1> DEFINE R == {e \in Nat \X Nat : e[1] < e[2]}
<1>1. IsWellFoundedOn(R, Nat)
    BY NatLessThanWellFounded DEF OpToRel
<1>2. PICK x \in Nat \ T : \A y \in Nat \ T : ~ (<<y, x>> \in R)
    <2> HIDE DEF R
    <2> QED
        BY <1>1, WFMin
<1>3. \A m \in 0 .. x - 1 : m \in Nat /\ <<m, x>> \in R
    OBVIOUS
<1>4. \A m \in 0 .. x - 1 : m \in T
    <2> HIDE DEF R
    <2> QED
        BY <1>2, <1>3
<1> QED
    BY <1>4

-----------------------------------------------------------------------------
(* What two writers cost each other.  The one that is rolled back pauses   *)
(* with the other's INSERT ahead of it; that one waits for nobody any      *)
(* more, and unless it is slower than the pause no statement that could    *)
(* block is left when r tries again.                                       *)
Writers == {r \in Requests : ~ undo[r]}

Calm == faults = 0 /\ posted /\ ~ hasty

AtMostTwo == \A r, q, p \in Writers : r = q \/ q = p \/ r = p

(* Who takes back writes no notification.                                  *)
UndoIsSilent ==
    \A r \in Requests : undo[r] => pc[r] \notin {"check", "seek", "insert", "pause", "deliver"}

Past(q) == pc[q] \in {"deliver", "count", "done"}

InFrontOf(q, r) == pc[r] = "pause" /\ q \in ahead[r] /\ pc[q] = "insert"

RolledBackOnce ==
    \A r, q \in Writers :
        r # q /\ attempt[r] > 1 => InFrontOf(q, r) \/ Past(q)

TwoInv ==
    Calm => /\ UndoIsSilent
            /\ AtMostTwo => RolledBackOnce /\ lost = {}

(* Who waits for nobody is in no deadlock.                                 *)
LEMMA DeadlockIsWaiting ==
    ASSUME NEW r \in Requests, Blockers(r) = {}
    PROVE  ~ Deadlocked(r)
<1> DEFINE E(f) == f = [n \in Nat |-> IF n = 0 THEN Blockers(r)
                            ELSE f[n - 1] \union UNION {Blockers(q) : q \in f[n - 1]}]
           none == [n \in Nat |-> {}]
           f == CHOOSE f : E(f)
           T == {n \in Nat : f[n] = {}}
<1>1. E(none)
    <2>1. \A n \in Nat : n # 0 => n - 1 \in Nat
        OBVIOUS
    <2>2. \A n \in Nat : n # 0 =>
              none[n - 1] \union UNION {Blockers(q) : q \in none[n - 1]} = {}
        BY <2>1
    <2> QED
        BY <2>2
<1>2. E(f)
    <2> HIDE DEF E, none
    <2> QED
        BY <1>1
<1>3. ASSUME NEW n \in Nat, \A m \in 0 .. n - 1 : m \in T
      PROVE  n \in T
    <2>1. f[n] = IF n = 0 THEN Blockers(r)
                 ELSE f[n - 1] \union UNION {Blockers(q) : q \in f[n - 1]}
        <3> HIDE DEF f
        <3> QED
            BY <1>2
    <2> HIDE DEF f
    <2>2. CASE n = 0
        BY <2>1, <2>2
    <2>3. CASE n # 0
        <3>1. f[n - 1] = {}
            BY <1>3, <2>3
        <3> QED
            BY <2>1, <2>3, <3>1
    <2> QED
        BY <2>2, <2>3
<1>4. \A n \in Nat : n \in T
    <2> HIDE DEF T
    <2> QED
        BY <1>3, NatInduct
<1>5. Cardinality(Requests) \in Nat
    BY NotifyAssumption, FS_CardinalityType
<1>6. f[Cardinality(Requests)] = {}
    <2> HIDE DEF f
    <2> QED
        BY <1>4, <1>5
<1> QED
    BY <1>6 DEF Deadlocked

LEMMA OnlyInsertHolds ==
    ASSUME TypeOK, NEW r \in Requests, Blockers(r) # {}
    PROVE  \E q \in Requests \ {r} : pc[q] = "insert"
    BY DEF TypeOK, Blockers

(* A set of two has no third element.                                      *)
LEMMA NoThird == Cardinality(Writers) =< 2 => AtMostTwo
<1> SUFFICES ASSUME NEW r \in Writers, NEW q \in Writers, NEW p \in Writers,
                    r # q, q # p, r # p
             PROVE  ~ (Cardinality(Writers) =< 2)
    BY DEF AtMostTwo
<1>1. IsFiniteSet(Writers)
    BY NotifyAssumption, FS_Subset DEF Writers
<1>2. IsFiniteSet({r}) /\ Cardinality({r}) = 1
    BY FS_Singleton
<1>3. IsFiniteSet({r, q}) /\ Cardinality({r, q}) = 2
    <2>1. {r, q} = {r} \union {q} /\ q \notin {r}
        OBVIOUS
    <2> QED
        BY <1>2, <2>1, FS_AddElement
<1>4. IsFiniteSet({r, q, p}) /\ Cardinality({r, q, p}) = 3
    <2>1. {r, q, p} = {r, q} \union {p} /\ p \notin {r, q}
        OBVIOUS
    <2> QED
        BY <1>3, <2>1, FS_AddElement
<1>5. {r, q, p} \subseteq Writers
    OBVIOUS
<1>6. Cardinality({r, q, p}) =< Cardinality(Writers) /\ Cardinality(Writers) \in Nat
    BY <1>1, <1>5, FS_Subset, FS_CardinalityType
<1> QED
    BY <1>4, <1>6

(* Steps that concern neither an INSERT nor its retries.                   *)
LEMMA AsideStep ==
    ASSUME TypeOK, TwoInv, NEW r \in Requests,
           UNCHANGED <<undo, attempt, ahead, lost>>, Calm' => Calm,
           \A q \in Requests \ {r} : pc'[q] = pc[q],
           pc[r] \notin {"pause", "insert"},
           Past(r) => Past(r)',
           undo[r] => pc'[r] \in {"write", "count", "done"}
    PROVE  TwoInv'
<1> SUFFICES ASSUME Calm' PROVE UndoIsSilent' /\ (AtMostTwo' => RolledBackOnce' /\ lost' = {})
    BY DEF TwoInv
<1>1. UndoIsSilent'
    BY DEF TwoInv, UndoIsSilent
<1>2. Writers' = Writers /\ AtMostTwo' = AtMostTwo
    BY DEF Writers, AtMostTwo
<1>3. ASSUME AtMostTwo PROVE RolledBackOnce'
    <2> SUFFICES ASSUME NEW p \in Writers, NEW q \in Writers, p # q, attempt[p] > 1
                 PROVE  InFrontOf(q, p)' \/ Past(q)'
        BY <1>2 DEF RolledBackOnce
    <2>1. InFrontOf(q, p) \/ Past(q)
        BY <1>3 DEF TwoInv, RolledBackOnce
    <2> QED
        BY <2>1 DEF InFrontOf, Past, Writers
<1> QED
    BY <1>1, <1>2, <1>3 DEF TwoInv

LEMMA TwoInvStep == TypeOK /\ TwoInv /\ [Next]_vars /\ Attempts >= 2 => TwoInv'
<1> SUFFICES ASSUME TypeOK, TwoInv, [Next]_vars, Attempts >= 2 PROVE TwoInv'
    OBVIOUS
<1>0. Attempts \in Nat /\ faults \in Nat
    BY NotifyAssumption DEF TypeOK
<1>1. ASSUME NEW r \in Requests,
             \/ Start(r) \/ Check(r) \/ WriteDeed(r) \/ WriteRefused(r) \/ WriteUndo(r)
             \/ Count(r) \/ SeekNote(r) \/ Deliver(r)
      PROVE  TwoInv'
    <2>1. CASE ~ Calm
        <3>1. UNCHANGED <<faults, posted, hasty>>
            BY <1>1 DEF Start, Check, WriteDeed, WriteRefused, WriteUndo, Count, SeekNote,
               Deliver, rows
        <3> QED
            BY <2>1, <3>1 DEF TwoInv, Calm
    <2>2. CASE Calm
        <3>1. UndoIsSilent
            BY <2>2 DEF TwoInv
        <3>2. /\ UNCHANGED <<undo, attempt, ahead, lost>>
              /\ \A q \in Requests \ {r} : pc'[q] = pc[q]
              /\ pc[r] \notin {"pause", "insert"}
              /\ Past(r) => Past(r)'
              /\ undo[r] => pc'[r] \in {"write", "count", "done"}
            BY <1>1, <3>1 DEF TypeOK, UndoIsSilent, Past, Start, Check, WriteDeed, WriteRefused,
               WriteUndo, Count, SeekNote, Deliver, Goto, Respond, job
        <3> QED
            BY <2>2, <3>2, AsideStep
    <2> QED
        BY <2>1, <2>2
<1>2. ASSUME NEW r \in Requests, PauseEnds(r) PROVE TwoInv'
    <2> SUFFICES ASSUME Calm'
                 PROVE  UndoIsSilent' /\ (AtMostTwo' => RolledBackOnce' /\ lost' = {})
        BY DEF TwoInv
    <2>1. /\ Calm /\ UNCHANGED <<undo, attempt, ahead, lost>>
          /\ pc' = [pc EXCEPT ![r] = "seek"] /\ pc[r] = "pause" /\ ahead[r] = {}
        BY <1>2 DEF PauseEnds, Calm, Goto, TypeOK, job, rows
    <2>2. UndoIsSilent'
        BY <2>1 DEF TypeOK, TwoInv, UndoIsSilent
    <2>3. Writers' = Writers /\ AtMostTwo' = AtMostTwo
        BY <2>1 DEF Writers, AtMostTwo
    <2>4. ASSUME AtMostTwo PROVE RolledBackOnce'
        <3> SUFFICES ASSUME NEW p \in Writers, NEW q \in Writers, p # q, attempt[p] > 1
                     PROVE  InFrontOf(q, p)' \/ Past(q)'
            BY <2>1, <2>3 DEF RolledBackOnce
        <3>1. InFrontOf(q, p) \/ Past(q)
            BY <2>1, <2>4 DEF TwoInv, RolledBackOnce
        <3> QED
            BY <2>1, <3>1 DEF TypeOK, InFrontOf, Past, Writers
    <2> QED
        BY <2>1, <2>2, <2>3, <2>4 DEF TwoInv
<1>3. ASSUME NEW r \in Requests, InsertNote(r) PROVE TwoInv'
    <2> SUFFICES ASSUME Calm'
                 PROVE  UndoIsSilent' /\ (AtMostTwo' => RolledBackOnce' /\ lost' = {})
        BY DEF TwoInv
    <2>1. /\ Calm /\ UNCHANGED <<undo, attempt, lost>>
          /\ pc' = [pc EXCEPT ![r] = "deliver"] /\ pc[r] = "insert"
          /\ ahead' = [q \in Requests |-> ahead[q] \ {r}]
        BY <1>3 DEF InsertNote, StatementEnds, Calm, Goto, job
    <2>2. UndoIsSilent'
        BY <2>1 DEF TypeOK, TwoInv, UndoIsSilent
    <2>3. Writers' = Writers /\ AtMostTwo' = AtMostTwo
        BY <2>1 DEF Writers, AtMostTwo
    <2>4. ASSUME AtMostTwo PROVE RolledBackOnce'
        <3> SUFFICES ASSUME NEW p \in Writers, NEW q \in Writers, p # q, attempt[p] > 1
                     PROVE  InFrontOf(q, p)' \/ Past(q)'
            BY <2>1, <2>3 DEF RolledBackOnce
        <3>1. InFrontOf(q, p) \/ Past(q)
            BY <2>1, <2>4 DEF TwoInv, RolledBackOnce
        <3> QED
            BY <2>1, <3>1 DEF TypeOK, InFrontOf, Past, Writers
    <2> QED
        BY <2>1, <2>2, <2>3, <2>4 DEF TwoInv
<1>4. ASSUME NEW r \in Requests, InsertRefused(r) PROVE TwoInv'
    BY <1>4 DEF InsertRefused, TargetExists, TwoInv, Calm, rows
<1>5. ASSUME NEW r \in Requests, Victim(r) PROVE TwoInv'
    <2> SUFFICES ASSUME Calm'
                 PROVE  UndoIsSilent' /\ (AtMostTwo' => RolledBackOnce' /\ lost' = {})
        BY DEF TwoInv
    <2>1. Calm /\ Deadlocked(r) /\ pc[r] = "insert"
        BY <1>0, <1>5 DEF Victim, Fault, Calm, rows
    <2>2. UndoIsSilent /\ r \in Writers
        BY <2>1 DEF TwoInv, UndoIsSilent, Writers
    <2>3. PICK q \in Requests \ {r} : pc[q] = "insert"
        BY <2>1, DeadlockIsWaiting, OnlyInsertHolds
    <2>4. q \in Writers /\ q # r
        BY <2>2, <2>3 DEF UndoIsSilent, Writers
    <2>5. UNCHANGED undo /\ Writers' = Writers /\ AtMostTwo' = AtMostTwo
        BY <1>5 DEF Victim, Writers, AtMostTwo, job
    <2>6. UndoIsSilent'
        BY <1>5, <2>2, <2>5 DEF Victim, Goto, Lose, TypeOK, UndoIsSilent, Writers
    <2>7. ASSUME AtMostTwo PROVE RolledBackOnce' /\ lost' = {}
        <3>1. RolledBackOnce /\ lost = {} /\ \A p \in Writers : p = r \/ p = q
            BY <2>1, <2>2, <2>4, <2>7 DEF TwoInv, AtMostTwo
        <3>2. ~ Past(q) /\ ~ Past(r)
            BY <2>1, <2>3 DEF Past
        <3>3. attempt[r] = 1 /\ attempt[q] = 1
            <4>1. ~ InFrontOf(q, r) /\ ~ InFrontOf(r, q)
                BY <2>1, <2>3 DEF InFrontOf
            <4>2. ~ (attempt[r] > 1) /\ ~ (attempt[q] > 1)
                BY <2>2, <2>4, <3>1, <3>2, <4>1 DEF RolledBackOnce
            <4> QED
                BY <2>2, <2>4, <4>2 DEF TypeOK, Writers
        <3>4. TriesAgain(r)
            BY <1>0, <3>3 DEF TriesAgain
        <3>5. /\ lost' = lost /\ pc' = [pc EXCEPT ![r] = "pause"]
              /\ attempt' = [attempt EXCEPT ![r] = 2]
              /\ ahead'[r] = {p \in Requests \ {r} : pc[p] = "insert"}
            BY <1>0, <1>5, <3>3, <3>4 DEF Victim, Goto
        <3>6. InFrontOf(q, r)'
            BY <2>3, <3>5 DEF InFrontOf, TypeOK
        <3>7. ~ (attempt'[q] > 1)
            BY <2>4, <3>3, <3>5 DEF TypeOK, Writers
        <3>8. RolledBackOnce'
            BY <2>5, <3>1, <3>6, <3>7 DEF RolledBackOnce
        <3> QED
            BY <3>1, <3>5, <3>8
    <2> QED
        BY <2>5, <2>6, <2>7
<1>6. ASSUME NEW r \in Requests, CheckFails(r) \/ WriteFails(r) \/ CountFails(r) \/ NotifyFails(r)
      PROVE  TwoInv'
    <2>1. faults' = faults + 1
        BY <1>6 DEF CheckFails, WriteFails, CountFails, NotifyFails, Fault
    <2> QED
        BY <1>0, <2>1 DEF TwoInv, Calm
<1>7. ASSUME DeletePost PROVE TwoInv'
    BY <1>7 DEF DeletePost, TwoInv, Calm
<1>8. ASSUME UNCHANGED vars PROVE TwoInv'
    BY <1>8 DEF vars, job, rows, TwoInv, Calm, UndoIsSilent, AtMostTwo, Writers, RolledBackOnce,
       InFrontOf, Past
<1> QED
    BY <1>1, <1>2, <1>3, <1>4, <1>5, <1>6, <1>7, <1>8 DEF Next, Step

-----------------------------------------------------------------------------
-----------------------------------------------------------------------------
(* Types, and that only an INSERT to be run holds a gap                    *)
(* (notification.go, insertNotificationOnce).                              *)
THEOREM NotifyTyping == Spec => []TypeOK
    BY Invariance, PTL DEF IInv

(* There is never a second notification of a kind, however many requests   *)
(* write it at the same time (notification.go, insertNotificationOnce).    *)
THEOREM NoSecondNote == Spec => []OneNote
    BY Invariance, PTL DEF IInv

(* What is announced is stored, or went with its post (notification.go,    *)
(* deliverNotification).                                                   *)
THEOREM AnnouncedIsStored == Spec => []ToldIsStored
    BY Invariance, PTL DEF IInv

(* Nobody is told twice, though likes are taken back and made again        *)
(* (notification.go, createNotificationOnce).                              *)
THEOREM NobodyToldTwice == Spec => []ToldOnce
<1>1. IInv => ToldOnce
    BY DEF IInv, TypeOK, ToldSingle, ToldOnce, Told
<1> QED
    BY <1>1, Invariance, PTL

(* Conflicts of two requests cost neither of them its notification, with   *)
(* two attempts or more, as long as a pause outlasts the rival's INSERT    *)
(* (notification.go, insertNotificationOnceRetry; notifyInsertAttempts is  *)
(* 5 there, and a rival that is too slow can use them all up).             *)
THEOREM TwoLoseNothing == Attempts >= 2 => (Spec => []ConflictsCostNothing)
<1> SUFFICES ASSUME Attempts >= 2 PROVE Spec => []ConflictsCostNothing
    OBVIOUS
<1>1. Init => TwoInv
    BY DEF Init, TwoInv, Calm, UndoIsSilent, RolledBackOnce, Writers
<1>2. TypeOK /\ TwoInv /\ [Next]_vars => TwoInv'
    BY TwoInvStep
<1>3. TwoInv => ConflictsCostNothing
    BY NoThird DEF TwoInv, Calm, ConflictsCostNothing, Writers
<1> QED
    BY <1>1, <1>2, <1>3, NotifyTyping, PTL DEF Spec
=============================================================================
