------------------------------ MODULE RepostTx ------------------------------
(***************************************************************************)
(* Reposting and deleting posts (internal/handler/repost.go, DeletePost of *)
(* post.go) on InnoDB.                                                     *)
(*                                                                         *)
(* A repost is three rows written in one transaction: one of reposts, a    *)
(* row of posts that stands for it on the timeline (its copy), and one of  *)
(* notifications.  Requests of any processes run at the same time; what    *)
(* keeps them apart is the row and gap locks InnoDB takes for each         *)
(* statement and keeps to the end of the transaction.                      *)
(*                                                                         *)
(* A key stands for the rows a statement looks for and, where there are    *)
(* none, for their place in a gap between the rows of the table.  Several  *)
(* keys may share a gap.  A statement waits until all locks it wants are   *)
(* granted, and then takes effect in one step.                             *)
(***************************************************************************)
EXTENDS Integers, FiniteSets

CONSTANTS
    Users, Posts,   \* who reposts, and the posts there are to begin with
    Author,         \* Author[p]: who wrote post p
    Split,          \* reposts of long ago whose copy may have been deleted
    Requests,       \* each is one HTTP request (a bound)
    Ops,            \* Ops[u]: what the requests of user u do (a bound)
    Servers,        \* how the database may be set up
    MaxFaults,      \* lost connections and the like (a bound)
    None            \* no request, no answer

Operations == {"repost", "unrepost", "deletePost", "deleteCopy"}

ASSUME RepostAssumption ==
    /\ Author \in [Posts -> Users]
    /\ Split \subseteq [user : Users, post : Posts]
    /\ Ops \in [Users -> SUBSET Operations]
    /\ Servers \subseteq [repeatableRead : BOOLEAN, uniqueCopies : BOOLEAN]
    /\ \A s \in Servers : s.repeatableRead \/ s.uniqueCopies
    /\ MaxFaults \in Nat /\ None \notin Requests \union {200, 404, 500}
    /\ None \notin [op : Operations, user : Users, post : Posts]
    /\ IsFiniteSet(Requests)

(* The requests there can be.  Only authors delete: the DELETE of another  *)
(* user finds no row, like that of a post that is gone.                    *)
Jobs ==
    {j \in [op : Operations, user : Users, post : Posts] :
        j.op \in Ops[j.user] /\ (j.op = "deletePost" => j.user = Author[j.post])}

PostKey(p) == <<"post", p>>
RepostKey(j) == <<"repost", j.user, j.post>>
CopyKey(j) == <<"copy", j.user, j.post>>
NoteKey(j) == <<"note", j.user, j.post>>
KeysOf(j) == {PostKey(j.post), RepostKey(j), CopyKey(j), NoteKey(j)}
Pairs == [user : Users, post : Posts]
Keys == UNION {KeysOf(j) : j \in Pairs}

(* A row remembers the request that wrote it.                              *)
Row(k, r) == [key |-> k, by |-> r]
Rows == [key : Keys, by : Requests \union {None}]

VARIABLES
    server,    \* the isolation level, and whether migration 003 is applied
    job,       \* job[r]: what request r is to do
    pc,        \* pc[r]: the statement it is at
    attempt,   \* attempt[r]: which call of repostOnce this is
    rows,      \* the tables, uncommitted changes included
    fresh,     \* fresh[r]: rows r has inserted and not committed
    gone,      \* gone[r]: rows r has deleted and not committed
    held,      \* held[r]: the locks of its transaction
    answer,    \* answer[r]: the status of the response
    dropped,   \* pairs whose user deleted the copy as a post of their own
    faults     \* failures so far

request == <<server, job, attempt>>
tables == <<rows, fresh, gone, held>>
vars == <<request, pc, tables, answer, dropped, faults>>

Statements ==
    {"insRepost", "seekCopy", "insCopy", "seekNote", "insNote", "delRepost",
     "delCopy", "delPost", "cascade", "dropCopy", "commit"}

TypeOK ==
    /\ server \in Servers
    /\ job \in [Requests -> Jobs \union {None}]
    /\ pc \in [Requests -> Statements \union {"new", "lookup", "count", "done"}]
    /\ attempt \in [Requests -> 1 .. 2]
    /\ rows \subseteq Rows
    /\ fresh \in [Requests -> SUBSET Rows] /\ gone \in [Requests -> SUBSET Rows]
    /\ held \in [Requests -> SUBSET (Keys \X {"s", "x"})]
    /\ answer \in [Requests -> {None, 200, 404, 500}]
    /\ \A r \in Requests : pc[r] = "done" <=> answer[r] # None
    /\ dropped \subseteq Pairs
    /\ faults \in 0 .. MaxFaults

Init ==
    /\ server \in Servers
    /\ job = [r \in Requests |-> None]
    /\ pc = [r \in Requests |-> "new"]
    /\ attempt = [r \in Requests |-> 1]
    /\ dropped \in SUBSET Split
    /\ rows = {Row(PostKey(p), None) : p \in Posts}
              \union {Row(RepostKey(j), None) : j \in dropped}
    /\ fresh = [r \in Requests |-> {}] /\ gone = [r \in Requests |-> {}]
    /\ held = [r \in Requests |-> {}]
    /\ answer = [r \in Requests |-> None]
    /\ faults = 0

Fault == faults < MaxFaults /\ faults' = faults + 1

-----------------------------------------------------------------------------
(* Rows and locks.                                                         *)

RowsOf(k) == {x \in rows : x.key = k}
Has(k) == RowsOf(k) # {}
Committed == (rows \union UNION {gone[r] : r \in Requests}) \ UNION {fresh[r] : r \in Requests}

(* What the rows of reposts, copies and notifications of p hang on, and    *)
(* what an ON DELETE CASCADE has to lock: deletions not yet committed too. *)
ChildKeys(p) ==
    {k \in UNION {KeysOf(j) \ {PostKey(j.post)} : j \in {i \in Pairs : i.post = p}} :
        \E x \in rows \union UNION {gone[r] : r \in Requests} : x.key = k}

S(k) == <<k, "s">>
X(k) == <<k, "x">>

(* An INSERT checks its key first: a duplicate leaves a shared lock on it. *)
(* Then the foreign key locks the post.                                    *)
ToInsert(k, p) == IF Has(k) THEN {S(k)} ELSE {X(k), S(PostKey(p))}

(* A DELETE that finds no row still locks the gap.                         *)
ToDelete(k) == IF Has(k) THEN {X(k)} ELSE {S(k)}

ToSeekNoLock(k) == {}

(* The NOT EXISTS of an INSERT .. SELECT reads with shared next-key locks  *)
(* under REPEATABLE READ, and a snapshot under READ COMMITTED.             *)
ToSeek(k) == IF server.repeatableRead THEN {S(k)} ELSE {}

(* The locks the next statement of r wants.                                *)
Wants(r) ==
    LET j == job[r]
    IN  CASE pc[r] = "insRepost" -> ToInsert(RepostKey(j), j.post)
          [] pc[r] = "seekCopy" -> ToSeek(CopyKey(j))
          [] pc[r] = "insCopy" -> ToInsert(CopyKey(j), j.post)
          [] pc[r] = "seekNote" -> ToSeek(NoteKey(j))
          [] pc[r] = "insNote" -> ToInsert(NoteKey(j), j.post)
          [] pc[r] = "delRepost" -> ToDelete(RepostKey(j))
          [] pc[r] \in {"delCopy", "dropCopy"} -> ToDelete(CopyKey(j))
          [] pc[r] = "delPost" -> ToDelete(PostKey(j.post))
          [] pc[r] = "cascade" -> {X(k) : k \in ChildKeys(j.post)}
          [] OTHER -> {}

Blockers(r) ==
    {q \in Requests \ {r} :
        \E l \in Wants(r), h \in held[q] : l[1] = h[1] /\ "x" \in {l[2], h[2]}}

(* Gaps stay locked under REPEATABLE READ only.                            *)
Kept(r) == {l \in Wants(r) : server.repeatableRead \/ Has(l[1]) \/ l[2] = "x"}

(* A statement that reads a range, which is all but an INSERT that finds   *)
(* no duplicate, locks the gaps beside its rows as well.  Which other keys *)
(* of the table are in them depends on rows that are not modelled.         *)
Nearby(r) ==
    IF ~ server.repeatableRead THEN {}
    ELSE {k \in Keys :
            /\ ~ Has(k) /\ \A q \in Requests \ {r} : X(k) \notin held[q]
            /\ \E l \in Wants(r) :
                /\ l[1][1] = k[1] /\ k[1] # "post"
                /\ l[2] = "s" \/ Has(l[1])}

(* r waits for itself in the end.                                          *)
Deadlocked(r) ==
    LET reach[n \in Nat] ==
            IF n = 0 THEN Blockers(r)
            ELSE reach[n - 1] \union UNION {Blockers(q) : q \in reach[n - 1]}
    IN  r \in reach[Cardinality(Requests)]

(* A statement of r is granted its locks, inserts and deletes, and the     *)
(* request goes on at next.                                                *)
Execute(r, ins, del, next) ==
    /\ Blockers(r) = {}
    /\ rows' = (rows \ del) \union ins
    /\ fresh' = [fresh EXCEPT ![r] = @ \union ins]
    /\ gone' = [gone EXCEPT ![r] = @ \union del]
    /\ \E near \in SUBSET Nearby(r) :
          held' = [held EXCEPT ![r] = @ \union Kept(r) \union {S(k) : k \in near}]
    /\ pc' = [pc EXCEPT ![r] = next]
    /\ UNCHANGED <<request, answer, dropped, faults>>

Close(r) ==
    /\ fresh' = [fresh EXCEPT ![r] = {}]
    /\ gone' = [gone EXCEPT ![r] = {}]
    /\ held' = [held EXCEPT ![r] = {}]

Rollback(r) ==
    /\ rows' = (rows \ fresh[r]) \union gone[r]
    /\ Close(r)

Respond(r, status) ==
    /\ pc' = [pc EXCEPT ![r] = "done"]
    /\ answer' = [answer EXCEPT ![r] = status]

-----------------------------------------------------------------------------
(* Repost.                                                                 *)

(* A request comes in.  A repost first looks its post up, the others begin *)
(* with a statement that changes rows.                                     *)
Start(r, j) ==
    /\ pc[r] = "new"
    /\ job' = [job EXCEPT ![r] = j]
    /\ pc' = [pc EXCEPT ![r] =
                CASE j.op = "repost" -> "lookup" [] j.op = "unrepost" -> "delRepost"
                  [] j.op = "deletePost" -> "delPost" [] j.op = "deleteCopy" -> "dropCopy"]
    /\ UNCHANGED <<server, attempt, tables, answer, dropped, faults>>

(* SELECT user_id FROM posts, outside of the transaction.                  *)
Lookup(r) ==
    /\ pc[r] = "lookup"
    /\ IF \E x \in Committed : x.key = PostKey(job[r].post)
       THEN pc' = [pc EXCEPT ![r] = "insRepost"] /\ UNCHANGED answer
       ELSE Respond(r, 404)
    /\ UNCHANGED <<request, tables, dropped, faults>>

LookupFails(r) ==
    /\ pc[r] = "lookup"
    /\ Fault
    /\ Respond(r, 500)
    /\ UNCHANGED <<request, tables, dropped>>

DuplicateIsError(k) == FALSE

(* Error 1062 says that the row is there already, and nothing is wrong.    *)
DuplicateIsFine(k) == Has(k)

InsRepostAutocommit(r) ==
    LET k == RepostKey(job[r]) IN
    /\ pc[r] = "insRepost" /\ Blockers(r) = {}
    /\ Has(k) \/ Has(PostKey(job[r].post))
    /\ rows' = IF Has(k) THEN rows ELSE rows \union {Row(k, r)}
    /\ pc' = [pc EXCEPT ![r] = "seekCopy"]
    /\ UNCHANGED <<request, fresh, gone, held, answer, dropped, faults>>

(* repostOnce begins: INSERT INTO reposts.                                 *)
InsRepost(r) ==
    LET k == RepostKey(job[r]) IN
    /\ pc[r] = "insRepost"
    /\ IF Has(k) THEN DuplicateIsFine(k) ELSE Has(PostKey(job[r].post))
    /\ Execute(r, IF Has(k) THEN {} ELSE {Row(k, r)}, {}, "seekCopy")

(* A notification is for the first repost, and for the post of another.    *)
AfterCopy(r) ==
    IF Row(RepostKey(job[r]), r) \in fresh[r] /\ job[r].user # Author[job[r].post]
    THEN "seekNote" ELSE "commit"

(* What a NOT EXISTS sees.                                                 *)
Sees(r, k) ==
    \E x \in IF server.repeatableRead THEN rows ELSE (Committed \union fresh[r]) \ gone[r] : x.key = k

(* The unique key of migration 003 objects to a second copy.               *)
SecondCopy(k) == server.uniqueCopies /\ Has(k)

(* ensureRepostPost: the NOT EXISTS of the INSERT .. SELECT, and then its  *)
(* INSERT.                                                                 *)
SeekCopy(r) ==
    /\ pc[r] = "seekCopy"
    /\ Execute(r, {}, {}, IF Sees(r, CopyKey(job[r])) THEN AfterCopy(r) ELSE "insCopy")

InsCopy(r) ==
    LET k == CopyKey(job[r]) IN
    /\ pc[r] = "insCopy"
    /\ IF Has(k) THEN DuplicateIsFine(k) ELSE Has(PostKey(job[r].post))
    /\ Execute(r, IF SecondCopy(k) THEN {} ELSE {Row(k, r)}, {}, AfterCopy(r))

(* insertNotificationOnce on the transaction.                              *)
SeekNote(r) ==
    /\ pc[r] = "seekNote"
    /\ Execute(r, {}, {}, IF Sees(r, NoteKey(job[r])) THEN "commit" ELSE "insNote")

InsNoteAutocommit(r) ==
    /\ pc[r] = "insNote" /\ Has(PostKey(job[r].post)) /\ Blockers(r) = {}
    /\ rows' = rows \union {Row(NoteKey(job[r]), r)}
    /\ pc' = [pc EXCEPT ![r] = "commit"]
    /\ UNCHANGED <<request, fresh, gone, held, answer, dropped, faults>>

InsNote(r) ==
    /\ pc[r] = "insNote" /\ Has(PostKey(job[r].post))
    /\ Execute(r, {Row(NoteKey(job[r]), r)}, {}, "commit")

(* respondWriteError: only a post that is gone makes it a 404.             *)
WriteErrorStatus(k) == IF Has(k) THEN 500 ELSE 404

(* An INSERT fails for good: the foreign key finds no post (error 1452,    *)
(* isMissingPostError), or a duplicate is not tolerated.                   *)
Refused(r) ==
    LET k == CASE pc[r] = "insRepost" -> RepostKey(job[r])
               [] pc[r] = "insCopy" -> CopyKey(job[r])
               [] OTHER -> NoteKey(job[r])
    IN
    /\ pc[r] \in {"insRepost", "insCopy", "insNote"}
    /\ Blockers(r) = {}
    /\ IF Has(k) THEN ~ DuplicateIsFine(k) ELSE ~ Has(PostKey(job[r].post))
    /\ Rollback(r)
    /\ Respond(r, WriteErrorStatus(k))
    /\ UNCHANGED <<request, dropped, faults>>

(* The pairs whose copy r has written.                                     *)
Restored(r) == {j \in Pairs : Row(CopyKey(j), r) \in fresh[r]}

Commit(r) ==
    /\ pc[r] = "commit"
    /\ Close(r)
    /\ pc' = [pc EXCEPT ![r] = "count"]
    /\ dropped' = dropped \ Restored(r)
    /\ UNCHANGED <<request, rows, answer, faults>>

(* The COMMIT took effect but its answer was lost: the handler takes the   *)
(* operation for failed.                                                   *)
CommitLost(r) ==
    /\ pc[r] = "commit"
    /\ Fault
    /\ Close(r)
    /\ Respond(r, 500)
    /\ dropped' = dropped \ Restored(r)
    /\ UNCHANGED <<request, rows>>

(* After the commit a new notification is delivered, whose failure is only *)
(* logged, and both handlers count the reposts for their answer.           *)
Count(r) ==
    /\ pc[r] = "count"
    /\ Respond(r, 200)
    /\ UNCHANGED <<request, tables, dropped, faults>>

(* The SELECT COUNT fails: an error is answered for what is committed.     *)
CountFails(r) ==
    /\ pc[r] = "count"
    /\ Fault
    /\ Respond(r, 500)
    /\ UNCHANGED <<request, tables, dropped>>

-----------------------------------------------------------------------------
(* UnRepost and DeletePost.                                                *)

DelRepostAutocommit(r) ==
    /\ pc[r] = "delRepost" /\ Blockers(r) = {}
    /\ rows' = rows \ RowsOf(RepostKey(job[r]))
    /\ pc' = [pc EXCEPT ![r] = "delCopy"]
    /\ UNCHANGED <<request, fresh, gone, held, answer, dropped, faults>>

(* The two DELETEs are one transaction.                                    *)
DelRepost(r) ==
    /\ pc[r] = "delRepost"
    /\ Execute(r, {}, RowsOf(RepostKey(job[r])), "delCopy")

DelCopy(r) ==
    /\ pc[r] = "delCopy"
    /\ Execute(r, {}, RowsOf(CopyKey(job[r])), "commit")

(* DeletePost: the DELETE locks the row of the post ..                     *)
DelPost(r) ==
    /\ pc[r] = "delPost" /\ Has(PostKey(job[r].post))
    /\ Execute(r, {}, RowsOf(PostKey(job[r].post)), "cascade")

CascadeSparesNotes(p) == {k \in ChildKeys(p) : k[1] # "note"}

(* .. and all that hangs on it (migration 006), and is committed at once.  *)
CascadesTo(p) == ChildKeys(p)

Cascade(r) ==
    /\ pc[r] = "cascade" /\ Blockers(r) = {}
    /\ rows' = {x \in rows : x.key \notin CascadesTo(job[r].post)}
    /\ Close(r)
    /\ Respond(r, 200)
    /\ UNCHANGED <<request, dropped, faults>>

(* DeletePost of a copy, by the user whose copy it is.  The row of reposts *)
(* stays: it does not refer to the copy.                                   *)
DropCopy(r) ==
    /\ pc[r] = "dropCopy" /\ Blockers(r) = {}
    /\ \E x \in RowsOf(CopyKey(job[r])) : rows' = rows \ {x}
    /\ dropped' = dropped \union {[user |-> job[r].user, post |-> job[r].post]}
    /\ Respond(r, 200)
    /\ UNCHANGED <<request, fresh, gone, held, faults>>

(* No row is affected: "post not found or not yours".                      *)
NotFound(r) ==
    /\ \/ pc[r] = "delPost" /\ ~ Has(PostKey(job[r].post))
       \/ pc[r] = "dropCopy" /\ ~ Has(CopyKey(job[r]))
    /\ Blockers(r) = {}
    /\ Respond(r, 404)
    /\ UNCHANGED <<request, tables, dropped, faults>>

-----------------------------------------------------------------------------
(* Lock conflicts and failures.                                            *)

RetriesForever(r) == job[r].op = "repost"

(* Only Repost runs its transaction again, and only once.                  *)
Retries(r) == job[r].op = "repost" /\ attempt[r] = 1

(* InnoDB makes r the victim of a deadlock (1213), or, its locks being     *)
(* coarser than these keys, of a conflict with a neighbour (1213, 1467).   *)
Victim(r) ==
    /\ pc[r] \in Statements \ {"commit"}
    /\ (Deadlocked(r) /\ UNCHANGED faults) \/ Fault
    /\ Rollback(r)
    /\ IF Retries(r)
       THEN /\ attempt' = [attempt EXCEPT ![r] = 2]
            /\ pc' = [pc EXCEPT ![r] = "insRepost"]
            /\ UNCHANGED answer
       ELSE Respond(r, 500) /\ UNCHANGED attempt
    /\ UNCHANGED <<server, job, dropped>>

(* Any other error: the client goes away and its context with it, the      *)
(* connection breaks, a lock wait times out, the process dies.             *)
Abort(r) ==
    /\ pc[r] \in Statements
    /\ Fault
    /\ Rollback(r)
    /\ Respond(r, 500)
    /\ UNCHANGED <<request, dropped>>

-----------------------------------------------------------------------------
RepostStep(r) ==
    \/ Lookup(r) \/ InsRepost(r) \/ SeekCopy(r) \/ InsCopy(r) \/ SeekNote(r)
    \/ InsNote(r) \/ Refused(r)

Step(r) ==
    \/ RepostStep(r) \/ Commit(r) \/ Count(r)
    \/ DelRepost(r) \/ DelCopy(r) \/ DelPost(r) \/ Cascade(r) \/ DropCopy(r) \/ NotFound(r)
    \/ Victim(r)

Done == \A r \in Requests : pc[r] = "done"

Next ==
    \/ \E r \in Requests :
        \/ \E j \in Jobs : Start(r, j)
        \/ Step(r) \/ LookupFails(r) \/ CommitLost(r) \/ CountFails(r) \/ Abort(r)
    \/ Done /\ UNCHANGED vars

Spec == Init /\ [][Next]_vars

-----------------------------------------------------------------------------
CommittedRows(k) == {x \in Committed : x.key = k}

(* No copy is left without its row of reposts: it would show a repost that *)
(* the user has no way to take back (repost.go:160-161).                   *)
NoStrandedCopy ==
    \A j \in Pairs : CommittedRows(CopyKey(j)) # {} => CommittedRows(RepostKey(j)) # {}

(* A repost is on the timeline unless its user deleted the copy there:     *)
(* reposting and taking it back at the same time never splits the two      *)
(* (repost.go:89, "a split state").  It takes gap locks to keep that.      *)
RepostShown ==
    server.repeatableRead =>
        \A j \in Pairs :
            CommittedRows(RepostKey(j)) # {} => CommittedRows(CopyKey(j)) # {} \/ j \in dropped

(* Double clicks, tabs and retries never make a second copy or a second    *)
(* notification (repost_test.go:11-12, concurrency_test.go:148-151).       *)
OneOfEach ==
    \A j \in Pairs : \A k \in KeysOf(j) : Cardinality(CommittedRows(k)) =< 1

(* Nothing committed refers to a post that is gone (migration 006).        *)
NoOrphans ==
    \A j \in Pairs : \A k \in KeysOf(j) :
        CommittedRows(k) # {} => CommittedRows(PostKey(j.post)) # {}

(* The notification of a repost is committed together with the repost      *)
(* itself, never without (repost.go:71).                                   *)
CommittedTogether ==
    [][\A r \in Requests :
        LET note == Row(NoteKey(job[r]), r)
            repost == Row(RepostKey(job[r]), r)
        IN  job[r] # None /\ note \in Committed' \ Committed => repost \in Committed' \ Committed]_vars

(* Nothing happens but that one user reposts one post for the first time,  *)
(* any number of times at once.                                            *)
Burst ==
    /\ faults = 0
    /\ \A q, r \in Requests : job[q] # None =>
          /\ job[q].op = "repost" /\ job[r] \in {job[q], None}
          /\ Row(RepostKey(job[q]), None) \notin rows

(* Then no request ends in a server error: the losers find a duplicate     *)
(* (concurrency_test.go:151, 167).  Reposts of other users or posts may    *)
(* meet them in the gaps of copies and notifications, and where the copy   *)
(* alone was deleted all of them find a duplicate and meet at its INSERT;  *)
(* then the single retry may be lost as well.                              *)
LosersSucceed == Burst => \A r \in Requests : answer[r] # 500

(* The statements in their order, those of all operations together.        *)
Course == <<"new", "lookup", "insRepost", "seekCopy", "insCopy", "seekNote", "insNote",
            "delRepost", "delCopy", "delPost", "cascade", "dropCopy", "commit", "count", "done">>

(* Every step takes a request nearer to its answer, and throws it back to  *)
(* an earlier statement once at most, however often it is a victim         *)
(* (repost.go:42-48): as the steps never run out before all are answered   *)
(* (no deadlock), every request is answered.                               *)
OnlyForward ==
    [][LET Place(statement) == CHOOSE i \in DOMAIN Course : Course[i] = statement
       IN  \E r \in Requests :
            /\ \/ attempt'[r] > attempt[r]
               \/ attempt'[r] = attempt[r] /\ Place(pc'[r]) > Place(pc[r])
            /\ \A q \in Requests \ {r} : pc'[q] = pc[q] /\ attempt'[q] = attempt[q]]_vars
=============================================================================
