------------------------------ MODULE PostReads -------------------------------
(***************************************************************************)
(* Posts as they are answered (handler.go fetchPost, fetchPostsBulk,       *)
(* countReplies), and a thread that is read while others write (reply.go   *)
(* GetThread): the post, each ancestor, each list of replies and each      *)
(* reply is a statement of its own, outside of any transaction.            *)
(*                                                                         *)
(* Counts other than replies_count, names and contents are left out, and   *)
(* so is the order of replies: those of one level are fetched in any.      *)
(* Pages of posts are in module Lists.                                     *)
(***************************************************************************)
EXTENDS Integers, Sequences, FiniteSets, SequencesExt

CONSTANTS
    NumIds,         \* ids of posts: 1 .. NumIds (a bound)
    MaxThreadDepth, \* handler.maxThreadDepth
    MaxRepostDepth, \* handler.maxRepostDepth
    MaxRequests     \* posts created and deleted meanwhile (a bound)

ASSUME ReadsAssumption ==
    {NumIds, MaxThreadDepth, MaxRepostDepth, MaxRequests} \subseteq Nat

NoPost == 0
Ids == 1 .. NumIds
Ref == Ids \union {NoPost}

VARIABLES
    parent,    \* parent[p]: parent_post_id, remembered beyond the deletion
    original,  \* original[p]: original_post_id
    alive,     \* the rows of posts
    made,      \* posts that appeared since the client began
    lost,      \* posts that went since then
    requests,  \* requests of others so far
    at,        \* the statement GetThread is at, or how it answered
    flawed,    \* a statement failed, and the answer does not say so
    subject,   \* the post asked for
    ancestors, \* the ancestors so far, oldest first
    stack,     \* fetchReplyTree: for each level the replies still to fetch
    listing,   \* fetchReplyTree: the post whose replies are listed next
    tree       \* fetchReplyTree: the replies so far, with their level

posts == <<parent, original, alive, made, lost, requests>>
thread == <<subject, ancestors, stack, listing, tree>>
readVars == <<posts, at, flawed, thread>>

ReadTypeOK ==
    /\ parent \in [Ids -> Ref] /\ original \in [Ids -> Ref]
    /\ alive \subseteq Ids /\ made \subseteq Ids /\ lost \subseteq Ids \ alive
    /\ \A p \in alive : original[p] = NoPost \/ original[p] \in alive
    /\ requests \in 0 .. MaxRequests
    /\ at \in {"post", "ancestors", "replies", "answered", "refused"}
    /\ flawed \in BOOLEAN
    /\ subject \in Ids /\ listing \in Ref
    /\ ancestors \in Seq(Ids) /\ Len(ancestors) <= MaxThreadDepth
    /\ stack \in Seq(SUBSET Ids) /\ Len(stack) <= MaxThreadDepth
    /\ tree \subseteq Ids \X (1 .. MaxThreadDepth)

-----------------------------------------------------------------------------
(* The table of posts.  A row refers to earlier ones, as a reply to its    *)
(* parent or as a repost to its original.                                  *)
Earlier == {f \in [Ids -> Ref] : \A p \in Ids : f[p] < p}

ReadInit ==
    /\ parent \in Earlier /\ original \in Earlier
    /\ alive \in SUBSET Ids
    /\ \A p \in Ids :
        /\ parent[p] = NoPost \/ original[p] = NoPost
        /\ p \notin alive => parent[p] = NoPost /\ original[p] = NoPost
        /\ original[p] \in alive \union {NoPost}
    /\ made = {} /\ lost = {} /\ requests = 0
    /\ at = "post" /\ flawed = FALSE
    /\ subject \in alive
    /\ ancestors = <<>> /\ stack = <<>> /\ listing = NoPost /\ tree = {}

Request ==
    /\ requests < MaxRequests /\ at \notin {"answered", "refused"}
    /\ requests' = requests + 1
    /\ UNCHANGED <<at, flawed, thread>>

(* Ids that no row ever had.                                               *)
Unused == Ids \ (alive \union lost \union {parent[q] : q \in alive})

(* A post, a reply or a repost is committed.  Ids are drawn in order, but  *)
(* the transaction of a repost may commit after one that drew a later id.  *)
CreatePost(p, up, orig) ==
    /\ Request
    /\ p \in Unused
    /\ up = NoPost \/ orig = NoPost
    /\ up < p /\ orig < p
    /\ {up, orig} \subseteq alive \union {NoPost}
    /\ parent' = [parent EXCEPT ![p] = up]
    /\ original' = [original EXCEPT ![p] = orig]
    /\ alive' = alive \union {p} /\ made' = made \union {p}
    /\ UNCHANGED lost

CascadeNone(p) == {p}

(* A post and, by ON DELETE CASCADE, what reposted it and so on: the       *)
(* smallest set of posts with p that has the reposts of each of its posts. *)
Cascade(p) ==
    LET Falls(S) == p \in S /\ \A c \in alive : original[c] \in S => c \in S
    IN  {q \in Ids : \A S \in SUBSET Ids : Falls(S) => q \in S}

DeletePost(p) ==
    /\ Request
    /\ p \in alive
    /\ alive' = alive \ Cascade(p) /\ lost' = lost \union Cascade(p)
    /\ UNCHANGED <<parent, original, made>>

-----------------------------------------------------------------------------
(* One post, and many (fetchPost, fetchPostsBulk).                         *)

Children(p) == {q \in alive : parent[q] = p}

(* countReplies: the rows the recursive query reaches from each post.      *)
Below[p \in Ids] == Children(p) \union UNION {Below[c] : c \in Children(p)}

CountReplies(p) == Cardinality(Below[p])

RepliesCountsDirect(S) == [r \in S |-> Cardinality(Children(r))]

(* The rows of the query for all posts at once, each with the post it      *)
(* started from: in n steps, those at most n levels deeper than replies.   *)
RowsFrom(S) ==
    LET rows[n \in 0 .. NumIds] ==
            IF n = 0 THEN {e \in S \X alive : parent[e[2]] = e[1]}
            ELSE LET above == rows[n - 1]
                 IN  above \union {e \in S \X alive : <<e[1], parent[e[2]]>> \in above}
    IN  rows[NumIds]

(* applyRepliesCount                                                       *)
RepliesCounts(S) ==
    LET found == RowsFrom(S)
    IN  [r \in S |-> Cardinality({e \in found : e[1] = r})]

(* Whether the name of the one replied to is found.                        *)
HasReplyTo(p) == parent[p] # NoPost /\ parent[p] \in alive

(* fetchPost, with its original inside.                                    *)
Single[p \in Ids] ==
    [id |-> p, replies |-> CountReplies(p), replyTo |-> HasReplyTo(p),
     original |-> IF original[p] \in alive THEN <<Single[original[p]]>> ELSE <<>>]

(* 404, or the post.                                                       *)
GetPost(p) == IF p \in alive THEN <<Single[p]>> ELSE <<>>

Originals(S) == {original[p] : p \in S \intersect alive}

(* fetchPostsBulkDepth: the posts of S and, as long as n more calls are    *)
(* allowed, all their originals in one of them.                            *)
BulkDepth[n \in 0 .. MaxRepostDepth] ==
    [S \in SUBSET Ref |->
        LET counts == RepliesCounts(S \intersect alive)
        IN  [p \in S \intersect alive |->
                [id |-> p, replies |-> counts[p], replyTo |-> HasReplyTo(p),
                 original |->
                    IF n > 0 /\ original[p] \in alive
                    THEN <<BulkDepth[n - 1][Originals(S)][original[p]]>> ELSE <<>>]]]

Bulk(S) == BulkDepth[MaxRepostDepth][S]

-----------------------------------------------------------------------------
(* GetThread.                                                              *)

FetchSubject ==
    /\ at = "post" /\ subject \in alive
    /\ at' = "ancestors"
    /\ UNCHANGED <<posts, flawed, thread>>

(* 404, or 500 when the statement failed.                                  *)
RefuseThread ==
    /\ at = "post"
    /\ at' = "refused"
    /\ UNCHANGED <<posts, flawed, thread>>

(* What has been fetched of the way up, oldest first.                      *)
Chain == Append(ancestors, subject)

(* The next ancestor to fetch.                                             *)
Up == parent[Head(Chain)]

MoreAncestors == Up # NoPost /\ Len(ancestors) < MaxThreadDepth

(* The ancestors end at the root, at a gap, at the limit of the depth or   *)
(* at an error.                                                            *)
AncestorsEnd ==
    /\ at' = "replies" /\ listing' = subject
    /\ UNCHANGED <<posts, subject, ancestors, stack, tree>>

FetchAncestor ==
    /\ at = "ancestors" /\ MoreAncestors /\ Up \in alive
    /\ ancestors' = <<Up>> \o ancestors
    /\ UNCHANGED <<posts, at, flawed, subject, stack, listing, tree>>

StopAncestors ==
    /\ at = "ancestors"
    /\ ~ MoreAncestors \/ Up \notin alive
    /\ AncestorsEnd /\ UNCHANGED flawed

FetchAncestorFails ==
    /\ at = "ancestors" /\ MoreAncestors
    /\ AncestorsEnd /\ flawed' = TRUE

(* The depth of the call of fetchReplyTree is that of the stack.           *)
DeepEnough == Len(stack) >= MaxThreadDepth

ListReplies ==
    /\ at = "replies" /\ listing # NoPost
    /\ stack' = IF DeepEnough THEN stack ELSE Append(stack, Children(listing))
    /\ listing' = NoPost
    /\ UNCHANGED <<posts, at, flawed, subject, ancestors, tree>>

ListRepliesFails ==
    /\ at = "replies" /\ listing # NoPost /\ ~ DeepEnough
    /\ listing' = NoPost
    /\ flawed' = TRUE
    /\ UNCHANGED <<posts, at, subject, ancestors, stack, tree>>

Level == stack[Len(stack)]

StillDropped(q) == {}

(* The replies still to fetch after q: one that is gone by now is passed   *)
(* over.                                                                   *)
Still(q) == Level \ {q}

(* The next reply of the level, where q is one.                            *)
TakeReply(q) ==
    /\ at = "replies" /\ listing = NoPost /\ stack # <<>> /\ q \in Level
    /\ UNCHANGED <<posts, at, subject, ancestors>>

FetchReply(q) ==
    /\ TakeReply(q) /\ q \in alive
    /\ tree' = tree \union {<<q, Len(stack)>>} /\ listing' = q
    /\ stack' = [stack EXCEPT ![Len(stack)] = Level \ {q}]
    /\ UNCHANGED flawed

(* The reply is gone, or its statement failed.                             *)
FetchReplyFails(q) ==
    /\ TakeReply(q)
    /\ (q \notin alive /\ UNCHANGED flawed) \/ flawed' = TRUE
    /\ stack' = [stack EXCEPT ![Len(stack)] = Still(q)]
    /\ UNCHANGED <<listing, tree>>

ReturnLevel ==
    /\ at = "replies" /\ listing = NoPost /\ stack # <<>> /\ Level = {}
    /\ stack' = Front(stack)
    /\ UNCHANGED <<posts, at, flawed, subject, ancestors, listing, tree>>

AnswerThread ==
    /\ at = "replies" /\ listing = NoPost /\ stack = <<>>
    /\ at' = "answered"
    /\ UNCHANGED <<posts, flawed, thread>>

-----------------------------------------------------------------------------
OthersPost ==
    \/ \E p \in Ids, up, orig \in Ref : CreatePost(p, up, orig)
    \/ \E p \in Ids : DeletePost(p)

GetThread ==
    \/ FetchSubject \/ RefuseThread
    \/ FetchAncestor \/ StopAncestors \/ FetchAncestorFails
    \/ ListReplies \/ ListRepliesFails
    \/ \E q \in Ids : FetchReply(q) \/ FetchReplyFails(q)
    \/ ReturnLevel \/ AnswerThread

ReadNext == OthersPost \/ GetThread

ReadSpec == ReadInit /\ [][ReadNext]_readVars

-----------------------------------------------------------------------------
(* There from the beginning up to now.                                     *)
Steady == alive \ made

(* Each of the ancestors is the parent of the next, up to the limit of the *)
(* depth or to one that was not there all along.                           *)
AncestorsComplete ==
    /\ \A i \in 1 .. Len(Chain) - 1 : Chain[i] = parent[Chain[i + 1]]
    /\ Len(ancestors) = MaxThreadDepth \/ Up \notin Steady

(* Every reply that was there all along, to the subject or to a reply of   *)
(* the answer, is in it one level below, down to the limit of the depth.   *)
RepliesComplete ==
    \A e \in tree \union {<<subject, 0>>} :
        e[2] < MaxThreadDepth =>
            \A q \in Steady : parent[q] = e[1] => <<q, e[2] + 1>> \in tree

(* Whatever is written meanwhile, an answer without an error has every     *)
(* ancestor and every reply that was there all along and hangs together    *)
(* with the subject: a deletion costs at most what hung on the deleted     *)
(* post (reply.go:120-134, docs/api.md:348).                               *)
ThreadComplete ==
    at = "answered" /\ ~ flawed => AncestorsComplete /\ RepliesComplete

(* How many reposts are between a post and the one it shows.               *)
Nesting[p \in Ids] == IF original[p] = NoPost THEN 0 ELSE 1 + Nesting[original[p]]

(* A list shows a post as the request for that post alone would show it at *)
(* the same moment (handler.go:169-171), but for reposts of reposts beyond *)
(* the limit.                                                              *)
SameAsSingle ==
    \A S \in SUBSET Ids :
        LET bulk == Bulk(S)
        IN  \A p \in DOMAIN bulk : Nesting[p] <= MaxRepostDepth => <<bulk[p]>> = GetPost(p)
=============================================================================
