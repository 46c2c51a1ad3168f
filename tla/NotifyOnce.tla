----------------------------- MODULE NotifyOnce ------------------------------
(***************************************************************************)
(* Likes, follows and profile visits, and the notification each of them    *)
(* owes the other user (handler/like.go, user.go, footprint.go and         *)
(* createNotificationOnce of notification.go).                             *)
(*                                                                         *)
(* There is no unique key for notifications: post_id may be NULL.  One     *)
(* INSERT .. SELECT .. WHERE NOT EXISTS looks for the row and writes it.   *)
(* Its look-up locks the gap of the index in which the row would be, a     *)
(* lock that many statements can share and that all of them but its only   *)
(* holder wait for with their INSERT: concurrent writers meet in deadlocks *)
(* and are told apart by InnoDB, which rolls victims back.  Keys are       *)
(* numbered in the order of that index (idx_notifications_dedup).  Who     *)
(* likes a post of their own notifies nobody, and is left out.             *)
(***************************************************************************)
EXTENDS Integers, FiniteSets

CONSTANTS
    NumKeys,   \* the notifications there can be
    PostKeys,  \* those of likes: they are about a post, which may be deleted
    VisitKeys, \* those of visits: there is no taking back
    Requests,  \* each is one HTTP request (a bound)
    Attempts,  \* notifyInsertAttempts
    MaxFaults, \* lost connections and the like (a bound)
    None       \* no answer yet

Keys == 1 .. NumKeys

ASSUME NotifyAssumption ==
    /\ NumKeys \in Nat /\ Attempts \in Nat \ {0} /\ MaxFaults \in Nat
    /\ PostKeys \subseteq Keys /\ VisitKeys \subseteq Keys \ PostKeys
    /\ IsFiniteSet(Requests) /\ None \notin Nat

VARIABLES
    undo,      \* undo[r]: r is to take back a like or a follow
    key,       \* key[r]: the notification that is at stake
    pc,        \* pc[r]: what request r does next
    attempt,   \* attempt[r]: which run of the INSERT this is
    held,      \* held[r]: the keys in the gap its statement has locked
    ahead,     \* ahead[r]: statements still under way from when r was rolled back
    hasty,     \* a request tried again before those had ended
    posted,    \* the post has not been deleted
    deeds,     \* rows of likes, follows and footprints, by key
    notes,     \* notes[k]: rows of notifications with key k, up to 2
    published, \* requests that delivered their notification
    lost,      \* requests that gave up notifying
    answer,    \* answer[r]: the status of the response
    faults     \* failures so far

job == <<undo, key>>
rows == <<posted, deeds, notes>>
vars == <<job, pc, attempt, held, ahead, hasty, rows, published, lost, answer, faults>>

Stages == {"new", "check", "write", "seek", "insert", "pause", "deliver", "count", "done"}

TypeOK ==
    /\ undo \in [Requests -> BOOLEAN]
    /\ key \in [Requests -> Keys]
    /\ pc \in [Requests -> Stages]
    /\ attempt \in [Requests -> 1 .. Attempts]
    /\ held \in [Requests -> SUBSET Keys]
    /\ \A r \in Requests : held[r] # {} => pc[r] = "insert"
    /\ ahead \in [Requests -> SUBSET Requests] /\ hasty \in BOOLEAN
    /\ posted \in BOOLEAN
    /\ deeds \subseteq Keys
    /\ notes \in [Keys -> 0 .. 2]
    /\ published \subseteq Requests /\ lost \subseteq Requests
    /\ answer \in [Requests -> {None, 200, 404, 500}]
    /\ faults \in 0 .. MaxFaults

(* What a request is about is settled from the start.                      *)
Init ==
    /\ key \in [Requests -> Keys]
    /\ undo \in [Requests -> BOOLEAN]
    /\ \A r \in Requests : undo[r] => key[r] \notin VisitKeys
    /\ pc = [r \in Requests |-> "new"]
    /\ attempt = [r \in Requests |-> 1]
    /\ held = [r \in Requests |-> {}]
    /\ ahead = [r \in Requests |-> {}] /\ hasty = FALSE
    /\ posted = TRUE
    /\ deeds = {}
    /\ notes = [k \in Keys |-> 0]
    /\ published = {} /\ lost = {}
    /\ answer = [r \in Requests |-> None]
    /\ faults = 0

Fault == faults < MaxFaults /\ faults' = faults + 1

Goto(r, stage) == pc' = [pc EXCEPT ![r] = stage]

Respond(r, status) ==
    /\ Goto(r, "done")
    /\ answer' = [answer EXCEPT ![r] = status]

(* What key[r] refers to exists: users do, and the post while it is there. *)
TargetExists(r) == key[r] \in PostKeys => posted

-----------------------------------------------------------------------------
(* Like, Follow, GetProfile; Unlike and Unfollow.                          *)

(* Unlike and Unfollow have nothing to look up.                            *)
Start(r) ==
    /\ pc[r] = "new"
    /\ Goto(r, IF undo[r] THEN "write" ELSE "check")
    /\ UNCHANGED <<job, attempt, held, ahead, hasty, rows, published, lost, answer, faults>>

Check(r) ==
    /\ pc[r] = "check"
    /\ IF TargetExists(r) THEN Goto(r, "write") /\ UNCHANGED answer ELSE Respond(r, 404)
    /\ UNCHANGED <<job, attempt, held, ahead, hasty, rows, published, lost, faults>>

CheckFails(r) ==
    /\ pc[r] = "check"
    /\ Fault
    /\ Respond(r, 500)
    /\ UNCHANGED <<job, attempt, held, ahead, hasty, rows, published, lost>>

(* INSERT .. ON DUPLICATE KEY UPDATE: a like that is there is no error.    *)
WriteDeed(r) ==
    /\ pc[r] = "write" /\ ~ undo[r] /\ TargetExists(r)
    /\ deeds' = deeds \union {key[r]}
    /\ Goto(r, "seek")
    /\ UNCHANGED <<job, attempt, held, ahead, hasty, posted, notes, published, lost, answer, faults>>

(* The post went after it was looked up; the foreign key objects (1452).   *)
WriteRefused(r) ==
    /\ pc[r] = "write" /\ ~ undo[r] /\ ~ TargetExists(r)
    /\ Respond(r, 404)
    /\ UNCHANGED <<job, attempt, held, ahead, hasty, rows, published, lost, faults>>

UndoForgets(r) ==
    /\ pc[r] = "write" /\ undo[r]
    /\ deeds' = deeds \ {key[r]}
    /\ notes' = [notes EXCEPT ![key[r]] = 0]
    /\ Goto(r, "count")
    /\ UNCHANGED <<job, attempt, held, ahead, hasty, posted, published, lost, answer, faults>>

(* The DELETE leaves the notification where it is.                         *)
WriteUndo(r) ==
    /\ pc[r] = "write" /\ undo[r]
    /\ deeds' = deeds \ {key[r]}
    /\ Goto(r, "count")
    /\ UNCHANGED <<job, attempt, held, ahead, hasty, posted, notes, published, lost, answer, faults>>

(* A like or follow that fails is an error.  A footprint that fails is     *)
(* logged, and the notification is created nevertheless.                   *)
WriteFails(r) ==
    /\ pc[r] = "write"
    /\ Fault
    /\ IF key[r] \in VisitKeys THEN Goto(r, "seek") /\ UNCHANGED answer ELSE Respond(r, 500)
    /\ UNCHANGED <<job, attempt, held, ahead, hasty, rows, published, lost>>

(* The count of the likes is read, and the answer sent.                    *)
Count(r) ==
    /\ pc[r] = "count"
    /\ Respond(r, 200)
    /\ UNCHANGED <<job, attempt, held, ahead, hasty, rows, published, lost, faults>>

CountFails(r) ==
    /\ pc[r] = "count" /\ key[r] \in PostKeys
    /\ Fault
    /\ Respond(r, 500)
    /\ UNCHANGED <<job, attempt, held, ahead, hasty, rows, published, lost>>

-----------------------------------------------------------------------------
(* createNotificationOnce.                                                 *)

Present == {k \in Keys : notes[k] > 0}

(* The keys of the gap k is in, given the rows of the index.               *)
Gap(k, present) ==
    {l \in Keys \ present :
        \A m \in present : ~ (l < m /\ m < k) /\ ~ (k < m /\ m < l)}

NoGap(k) == {}

(* What the NOT EXISTS for an absent row of k locks under REPEATABLE READ. *)
SeekLocks(k) == Gap(k, Present)

(* The NOT EXISTS.  A row that is there ends the statement.                *)
SeekNote(r) ==
    /\ pc[r] = "seek"
    /\ IF notes[key[r]] > 0
       THEN Goto(r, "count") /\ UNCHANGED held
       ELSE Goto(r, "insert") /\ held' = [held EXCEPT ![r] = SeekLocks(key[r])]
    /\ UNCHANGED <<job, attempt, ahead, hasty, rows, published, lost, answer, faults>>

Blockers(r) == {q \in Requests \ {r} : key[r] \in held[q]}

(* The statement of r is over: its locks go, and nobody waits for it.      *)
StatementEnds(r) ==
    /\ held' = [held EXCEPT ![r] = {}]
    /\ ahead' = [q \in Requests |-> ahead[q] \ {r}]

(* Every run of the INSERT is a transaction of its own.                    *)
InsertNote(r) ==
    /\ pc[r] = "insert" /\ Blockers(r) = {} /\ TargetExists(r)
    /\ notes' = [notes EXCEPT ![key[r]] = IF @ < 2 THEN @ + 1 ELSE @]
    /\ StatementEnds(r)
    /\ Goto(r, "deliver")
    /\ UNCHANGED <<job, attempt, hasty, posted, deeds, published, lost, answer, faults>>

LoseAndDeliver(r) ==
    /\ Goto(r, "deliver")
    /\ UNCHANGED lost

(* r notifies nobody, logs why, and goes on to its answer.                 *)
Lose(r) ==
    /\ lost' = lost \union {r}
    /\ Goto(r, "count")

InsertRefused(r) ==
    /\ pc[r] = "insert" /\ Blockers(r) = {} /\ ~ TargetExists(r)
    /\ StatementEnds(r)
    /\ Lose(r)
    /\ UNCHANGED <<job, attempt, hasty, rows, published, answer, faults>>

OneTryLess(r) == attempt[r] < Attempts - 1
AlwaysAgain(r) == TRUE

TriesAgain(r) == attempt[r] < Attempts

(* r waits for itself in the end.                                          *)
Deadlocked(r) ==
    LET reach[n \in Nat] ==
            IF n = 0 THEN Blockers(r)
            ELSE reach[n - 1] \union UNION {Blockers(q) : q \in reach[n - 1]}
    IN  pc[r] = "insert" /\ r \in reach[Cardinality(Requests)]

(* InnoDB rolls r back, to break a deadlock or for a conflict outside of   *)
(* these keys, and the handler pauses before it tries again.               *)
Victim(r) ==
    /\ pc[r] = "insert"
    /\ (Deadlocked(r) /\ UNCHANGED faults) \/ Fault
    /\ held' = [held EXCEPT ![r] = {}]
    /\ ahead' = [q \in Requests |->
                    IF q = r /\ TriesAgain(r) THEN {p \in Requests \ {r} : pc[p] = "insert"}
                    ELSE ahead[q] \ {r}]
    /\ IF TriesAgain(r)
       THEN /\ attempt' = [attempt EXCEPT ![r] = IF @ < Attempts THEN @ + 1 ELSE @]
            /\ Goto(r, "pause")
            /\ UNCHANGED lost
       ELSE Lose(r) /\ UNCHANGED attempt
    /\ UNCHANGED <<job, hasty, rows, published, answer>>

(* The pause is over: a few milliseconds, which the INSERTs that were      *)
(* under way outlast or not.                                               *)
PauseEnds(r) ==
    /\ pc[r] = "pause"
    /\ Goto(r, "seek")
    /\ hasty' = (hasty \/ ahead[r] # {})
    /\ ahead' = [ahead EXCEPT ![r] = {}]
    /\ UNCHANGED <<job, attempt, held, rows, published, lost, answer, faults>>

(* Any other error is logged and not tried again: the client is gone, the  *)
(* connection breaks, or the statement was done and its answer is lost.    *)
NotifyFails(r) ==
    /\ pc[r] \in {"seek", "insert"}
    /\ Fault
    /\ StatementEnds(r)
    /\ Lose(r)
    /\ \/ UNCHANGED notes
       \/ /\ pc[r] = "insert" /\ Blockers(r) = {} /\ TargetExists(r)
          /\ notes' = [notes EXCEPT ![key[r]] = IF @ < 2 THEN @ + 1 ELSE @]
    /\ UNCHANGED <<job, attempt, hasty, posted, deeds, published, answer>>

(* deliverNotification: the own hub, and the row for the other processes.  *)
(* EventBus and StreamHub have what becomes of the two.                    *)
Deliver(r) ==
    /\ pc[r] = "deliver"
    /\ published' = published \union {r}
    /\ Goto(r, "count")
    /\ UNCHANGED <<job, attempt, held, ahead, hasty, rows, lost, answer, faults>>

-----------------------------------------------------------------------------
(* DeletePost: what refers to the post goes with it (migration 006).  The  *)
(* gaps around the rows that go become one.                                *)
DeletePost ==
    /\ posted
    /\ posted' = FALSE
    /\ deeds' = deeds \ PostKeys
    /\ notes' = [k \in Keys |-> IF k \in PostKeys THEN 0 ELSE notes[k]]
    /\ held' = [r \in Requests |-> UNION {Gap(k, Present \ PostKeys) : k \in held[r]}]
    /\ UNCHANGED <<job, pc, attempt, ahead, hasty, published, lost, answer, faults>>

-----------------------------------------------------------------------------
(* The steps a request goes on with.                                       *)
Step(r) ==
    \/ Check(r) \/ WriteDeed(r) \/ WriteRefused(r) \/ WriteUndo(r) \/ Count(r)
    \/ SeekNote(r) \/ InsertNote(r) \/ InsertRefused(r) \/ Victim(r) \/ PauseEnds(r)
    \/ Deliver(r)

Done == \A r \in Requests : pc[r] = "done"

Next ==
    \/ \E r \in Requests :
        \/ Start(r) \/ Step(r)
        \/ CheckFails(r) \/ WriteFails(r) \/ CountFails(r) \/ NotifyFails(r)
    \/ DeletePost
    \/ Done /\ UNCHANGED vars

Spec == Init /\ [][Next]_vars

(* Handlers go on, InnoDB grants locks and breaks deadlocks.               *)
Fairness == \A r \in Requests : WF_vars(Step(r))

FairSpec == Spec /\ Fairness

-----------------------------------------------------------------------------
(* However many requests like, visit or follow at the same time, and       *)
(* however often their INSERTs are run again, there is one notification of *)
(* a kind at most (concurrency_test.go:271-273, 348-350).                  *)
OneNote == \A k \in Keys : notes[k] =< 1

(* Nobody hears of the same like or follow twice: what is taken back and   *)
(* done again is not delivered again (like.go:48, user.go:147-148).        *)
ToldOnce ==
    \A r, q \in published : key[r] = key[q] => r = q

(* Lock conflicts alone never cost a notification where two requests write *)
(* to a gap at the same time and the one that is rolled back finds the     *)
(* other one done when it tries again, which notifyInsertBackoff is there  *)
(* for (notification.go:191-197) but cannot guarantee: a rival that is too *)
(* slow may be met again, until the attempts run out.  Three may roll each *)
(* other back in any case.                                                 *)
ConflictsCostNothing ==
    LET writers == {r \in Requests : ~ undo[r]}
    IN  faults = 0 /\ posted /\ ~ hasty /\ Cardinality(writers) =< 2 => lost = {}

(* Nobody is told of what is not in the list of notifications: the row is  *)
(* committed before its delivery begins, and stays, unless it goes with    *)
(* its post (notification.go:218-219).                                     *)
ToldIsStored ==
    \A r \in Requests :
        pc[r] = "deliver" \/ r \in published =>
            notes[key[r]] > 0 \/ (key[r] \in PostKeys /\ ~ posted)

(* Every request is answered: whoever waits for a gap gets it, or loses    *)
(* and comes to an end of its attempts.                                    *)
Answered == \A r \in Requests : pc[r] # "new" ~> pc[r] = "done"
=============================================================================
