----------------------------- MODULE ThreadKeys ------------------------------
(***************************************************************************)
(* Replies and the delivery of replies to the viewers of a thread          *)
(* (handler/reply.go CreateReply, handler.go threadRootID, stream.go       *)
(* ThreadStream, post.go DeletePost), with one poller.                     *)
(*                                                                         *)
(* Replies and viewers find each other by a key, the root of the thread.   *)
(* Both sides look it up in the table of posts, each at its own time, keep *)
(* it, and never look again; in the meantime anyone may delete their posts *)
(* anywhere in the thread, and what replied to a deleted post stays.       *)
(***************************************************************************)
EXTENDS Integers, Sequences, FiniteSets

CONSTANTS
    NumPosts,  \* posts there are to begin with: ids 1 .. NumPosts
    Requests,  \* the calls of CreateReply (a bound)
    Viewers,   \* clients that open a stream, again and again
    MaxFaults  \* failing statements (a bound)

ASSUME ThreadAssumption ==
    /\ NumPosts \in Nat \ {0} /\ MaxFaults \in Nat
    /\ IsFiniteSet(Requests)

(* No post: what parent_post_id NULL and an id not drawn yet are here.     *)
NoPost == 0
Ids == 1 .. NumPosts + Cardinality(Requests)

VARIABLES
    parent,   \* parent[p]: parent_post_id, remembered beyond the deletion
    born,     \* the largest id
    alive,    \* the rows of posts
    pc,       \* pc[r]: the statement CreateReply is at
    target,   \* target[r]: the post replied to
    author,   \* author[r]: its author has been read
    root,     \* root[r]: the key that was looked up for it
    reply,    \* reply[r]: the post that was created
    log,      \* event rows, in order: which post, for whom
    at,       \* events the poller has handed over
    view,     \* view[v]: where the stream of v is
    watched,  \* watched[v]: the post whose thread v asked for
    known,    \* known[v]: that post was there then, or is the root
    key,      \* key[v]: what that was resolved to
    got,      \* got[v]: replies sent to v
    owed,     \* owed[v]: replies that were due to v when the poller had them
    notified, \* replies whose parent's author was notified
    intact,   \* no lookup failed, and no post inside a thread, with replies, went
    faults    \* failures so far

posts == <<parent, born, alive>>
replier == <<pc, target, author, root, reply>>
viewer == <<view, watched, known, key>>
poller == <<at, got, owed>>
vars == <<posts, replier, log, viewer, poller, notified, intact, faults>>

TypeOK ==
    /\ parent \in [Ids -> Ids \union {NoPost}]
    /\ born \in Ids /\ alive \subseteq 1 .. born
    /\ pc \in [Requests -> {"new", "root", "insert", "notify", "publish", "created", "refused"}]
    /\ target \in [Requests -> Ids \union {NoPost}]
    /\ author \in [Requests -> BOOLEAN]
    /\ root \in [Requests -> Ids \union {NoPost}]
    /\ reply \in [Requests -> Ids \union {NoPost}]
    /\ \A i \in 1 .. Len(log) : log[i].post \in 1 .. born /\ log[i].key \in Ids
    /\ at \in 0 .. Len(log)
    /\ view \in [Viewers -> {"closed", "resolved", "open"}]
    /\ watched \in [Viewers -> Ids \union {NoPost}]
    /\ known \in [Viewers -> BOOLEAN]
    /\ key \in [Viewers -> Ids \union {NoPost}]
    /\ got \in [Viewers -> SUBSET Ids] /\ owed \in [Viewers -> SUBSET Ids]
    /\ notified \subseteq Ids
    /\ intact \in BOOLEAN
    /\ faults \in 0 .. MaxFaults

(* Any forest of threads in which nothing has been deleted yet.            *)
Init ==
    /\ parent \in [Ids -> 0 .. NumPosts - 1]
    /\ \A p \in Ids : IF p > NumPosts THEN parent[p] = NoPost ELSE parent[p] < p
    /\ born = NumPosts /\ alive = 1 .. NumPosts
    /\ pc = [r \in Requests |-> "new"]
    /\ target = [r \in Requests |-> NoPost]
    /\ author = [r \in Requests |-> FALSE]
    /\ root = [r \in Requests |-> NoPost]
    /\ reply = [r \in Requests |-> NoPost]
    /\ log = <<>> /\ at = 0
    /\ view = [v \in Viewers |-> "closed"]
    /\ watched = [v \in Viewers |-> NoPost]
    /\ known = [v \in Viewers |-> FALSE]
    /\ key = [v \in Viewers |-> NoPost]
    /\ got = [v \in Viewers |-> {}] /\ owed = [v \in Viewers |-> {}]
    /\ notified = {}
    /\ intact = TRUE
    /\ faults = 0

Fault == faults < MaxFaults /\ faults' = faults + 1

-----------------------------------------------------------------------------
(* threadRootID.                                                           *)

(* The last row the recursive query reaches from a post that is there: the *)
(* root, or the highest ancestor below a gap.                              *)
Top(p) ==
    LET up[q \in Ids] == IF parent[q] \in alive THEN up[parent[q]] ELSE q
    IN  up[p]

TopItself(p) == Top(p)

NoCoalesce(p) == IF p \notin alive THEN p ELSE parent[Top(p)]

(* COALESCE(parent_post_id, id) of that row, or p without any row.         *)
ThreadRoot(p) ==
    IF p \notin alive THEN p
    ELSE IF parent[Top(p)] = NoPost THEN Top(p) ELSE parent[Top(p)]

(* What threadRootID returns when its query fails.                         *)
Fallback(p) == p

-----------------------------------------------------------------------------
(* CreateReply.                                                            *)

(* SELECT user_id of the parent, whatever id the client sent.  A missing   *)
(* row is left for the INSERT to find.                                     *)
ReadAuthor(r, p) ==
    /\ pc[r] = "new"
    /\ target' = [target EXCEPT ![r] = p]
    /\ author' = [author EXCEPT ![r] = p \in alive]
    /\ pc' = [pc EXCEPT ![r] = "root"]
    /\ UNCHANGED <<posts, root, reply, log, viewer, poller, notified, intact, faults>>

ReadRoot(r) ==
    /\ pc[r] = "root"
    /\ root' = [root EXCEPT ![r] = ThreadRoot(target[r])]
    /\ pc' = [pc EXCEPT ![r] = "insert"]
    /\ UNCHANGED <<posts, target, author, reply, log, viewer, poller, notified, intact, faults>>

ReadRootFails(r) ==
    /\ pc[r] = "root"
    /\ Fault
    /\ root' = [root EXCEPT ![r] = Fallback(target[r])]
    /\ pc' = [pc EXCEPT ![r] = "insert"]
    /\ intact' = FALSE
    /\ UNCHANGED <<posts, target, author, reply, log, viewer, poller, notified>>

(* The row of posts.                                                       *)
NewReply(r) ==
    /\ born' = born + 1
    /\ parent' = [parent EXCEPT ![born'] = target[r]]
    /\ alive' = alive \union {born'}

(* INSERT .. WHERE EXISTS: the parent is there, or no row is written.      *)
InsertReply(r) ==
    /\ pc[r] = "insert"
    /\ IF target[r] \in alive
       THEN /\ NewReply(r)
            /\ reply' = [reply EXCEPT ![r] = born']
            /\ pc' = [pc EXCEPT ![r] = "notify"]
       ELSE /\ pc' = [pc EXCEPT ![r] = "refused"]
            /\ UNCHANGED <<posts, reply>>
    /\ UNCHANGED <<target, author, root, log, viewer, poller, notified, intact, faults>>

(* A statement fails, with the row written if only its answer was lost:    *)
(* the client is told so, and nobody is told of the reply.                 *)
CreateFails(r) ==
    /\ pc[r] \in {"new", "insert"}
    /\ Fault
    /\ pc' = [pc EXCEPT ![r] = "refused"]
    /\ UNCHANGED posts \/ (pc[r] = "insert" /\ target[r] \in alive /\ NewReply(r))
    /\ UNCHANGED <<target, author, root, reply, log, viewer, poller, notified, intact>>

KnowsAuthorLate(r) == target[r] \in alive

(* Whom to notify was read before the INSERT.                              *)
KnowsAuthor(r) == author[r]

NotifyAuthor(r) ==
    /\ pc[r] = "notify"
    /\ notified' = IF KnowsAuthor(r) THEN notified \union {reply[r]} ELSE notified
    /\ pc' = [pc EXCEPT ![r] = "publish"]
    /\ UNCHANGED <<posts, target, author, root, reply, log, viewer, poller, intact, faults>>

(* createNotificationOnce only logs its errors.                            *)
NotifyFails(r) ==
    /\ pc[r] = "notify"
    /\ Fault
    /\ pc' = [pc EXCEPT ![r] = "publish"]
    /\ UNCHANGED <<posts, target, author, root, reply, log, viewer, poller, notified, intact>>

(* notify.PublishReply writes the event row.                               *)
PublishReply(r) ==
    /\ pc[r] = "publish"
    /\ log' = Append(log, [key |-> root[r], post |-> reply[r]])
    /\ pc' = [pc EXCEPT ![r] = "created"]
    /\ UNCHANGED <<posts, target, author, root, reply, viewer, poller, notified, intact, faults>>

PublishFails(r) ==
    /\ pc[r] = "publish"
    /\ Fault
    /\ pc' = [pc EXCEPT ![r] = "created"]
    /\ UNCHANGED <<posts, target, author, root, reply, log, viewer, poller, notified, intact>>

-----------------------------------------------------------------------------
(* ThreadStream.                                                           *)

Resolve(v, p) ==
    /\ view[v] = "closed"
    /\ watched' = [watched EXCEPT ![v] = p]
    /\ known' = [known EXCEPT ![v] = p \in alive \/ parent[p] = NoPost]
    /\ \/ key' = [key EXCEPT ![v] = ThreadRoot(p)] /\ UNCHANGED <<intact, faults>>
       \/ Fault /\ key' = [key EXCEPT ![v] = Fallback(p)] /\ intact' = FALSE
    /\ view' = [view EXCEPT ![v] = "resolved"]
    /\ UNCHANGED <<posts, replier, log, poller, notified>>

SubscribeThread(v) ==
    /\ view[v] = "resolved"
    /\ view' = [view EXCEPT ![v] = "open"]
    /\ UNCHANGED <<posts, replier, log, watched, known, key, poller, notified, intact, faults>>

(* The client closes its stream, or loses it and opens it again.           *)
CloseStream(v) ==
    /\ view[v] = "open"
    /\ view' = [view EXCEPT ![v] = "closed"]
    /\ watched' = [watched EXCEPT ![v] = NoPost]
    /\ known' = [known EXCEPT ![v] = FALSE]
    /\ key' = [key EXCEPT ![v] = NoPost]
    /\ UNCHANGED <<posts, replier, log, poller, notified, intact, faults>>

-----------------------------------------------------------------------------
(* The poller, and the authors of posts.                                   *)

(* The root of the thread p was written in, deleted or not.                *)
TrueRoot(p) ==
    LET up[q \in Ids] == IF parent[q] = NoPost THEN q ELSE up[parent[q]]
    IN  up[p]

SameThread(p, q) == TrueRoot(p) = TrueRoot(q)

(* Open streams for a post of the thread of p, one that was there when the *)
(* client named it, or the root.                                           *)
Audience(p) ==
    {v \in Viewers : view[v] = "open" /\ known[v] /\ SameThread(watched[v], p)}

(* bus.deliver: subscribers of the key get the reply as it is now.  A      *)
(* reply that is gone is given up.                                         *)
Deliver ==
    /\ at < Len(log)
    /\ at' = at + 1
    /\ LET e == log[at']
           sent == {v \in Viewers : view[v] = "open" /\ key[v] = e.key /\ e.post \in alive}
           due == IF e.post \in alive THEN Audience(e.post) ELSE {}
           Put(f, S) == [v \in Viewers |-> IF v \in S THEN f[v] \union {e.post} ELSE f[v]]
       IN  got' = Put(got, sent) /\ owed' = Put(owed, due)
    /\ UNCHANGED <<posts, replier, log, viewer, notified, intact, faults>>

(* hydrateReply failed twice: the bus gives the reply up.                  *)
GiveUp ==
    /\ at < Len(log)
    /\ Fault
    /\ at' = at + 1
    /\ intact' = FALSE
    /\ UNCHANGED <<posts, replier, log, viewer, got, owed, notified>>

(* DeletePost.  The row goes, the rows that refer to it as parent stay.    *)
DeletePost(p) ==
    /\ p \in alive
    /\ alive' = alive \ {p}
    /\ intact' = (intact /\ (parent[p] = NoPost \/ \A q \in Ids : parent[q] # p))
    /\ UNCHANGED <<parent, born, replier, log, viewer, poller, notified, faults>>

-----------------------------------------------------------------------------
Create(r) ==
    \/ \E p \in 1 .. born : ReadAuthor(r, p)
    \/ ReadRoot(r) \/ ReadRootFails(r) \/ InsertReply(r) \/ CreateFails(r)
    \/ NotifyAuthor(r) \/ NotifyFails(r) \/ PublishReply(r) \/ PublishFails(r)

Stream(v) ==
    \/ \E p \in 1 .. born : Resolve(v, p)
    \/ SubscribeThread(v) \/ CloseStream(v)

Next ==
    \/ \E r \in Requests : Create(r)
    \/ \E v \in Viewers : Stream(v)
    \/ Deliver \/ GiveUp
    \/ \E p \in Ids : DeletePost(p)

Spec == Init /\ [][Next]_vars

-----------------------------------------------------------------------------
(* Whatever post of a thread a stream was opened for, the replies to that  *)
(* thread arrive (docs/api.md:36-37).                                      *)
AllHear == \A v \in Viewers : owed[v] \subseteq got[v]

(* They do as long as posts with replies are only deleted at the root: the *)
(* key of a thread survives its root (handler.go, threadRootID), and who   *)
(* looked it up before and after the deletion still meet.                  *)
AllHearWhileIntact == intact => AllHear

(* No viewer is sent a reply of another thread, whatever is deleted and    *)
(* whichever lookup fails.                                                 *)
NoCrossTalk ==
    \A v \in Viewers :
        \A e \in {log[i] : i \in 1 .. Len(log)} :
            view[v] # "closed" /\ key[v] = e.key => SameThread(watched[v], e.post)

(* A reply that is created notifies the author of its parent, even if the  *)
(* parent goes in the middle of it (reply.go:33-34).                       *)
AuthorTold ==
    faults = 0 =>
        \A r \in Requests : pc[r] \in {"publish", "created"} => reply[r] \in notified
=============================================================================
