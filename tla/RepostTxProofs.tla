---------------------------- MODULE RepostTxProofs ---------------------------
(***************************************************************************)
(* Theorems about reposting and deleting (module RepostTx), for any        *)
(* number of users, posts, requests and failures.                          *)
(*                                                                         *)
(* The argument.  All that a transaction has written is behind exclusive   *)
(* locks of its own (Mine, Exclusive), so what it relies on in the tables  *)
(* stays as it is until it ends (Fits), and a rollback takes back nothing  *)
(* that another has built on.  The tables are good whichever of the open   *)
(* transactions commit and whichever do not: what they have deleted counts *)
(* as stored (Stored), what they have inserted counts as stored too, and   *)
(* a copy may lean on a repost that is not committed only if it will be    *)
(* committed with it (Paired).                                             *)
(*                                                                         *)
(* That a burst of reposts of one post by one user never fails             *)
(* (LosersSucceed) comes from the order in which they lock: whoever waits  *)
(* holds nothing (PeaceInv).                                               *)
(***************************************************************************)
EXTENDS RepostTx, FiniteSetTheorems, WellFoundedInduction, TLAPS

Writing == {"insRepost", "seekCopy", "insCopy", "seekNote", "insNote"}

(* Which operation a statement belongs to.                                 *)
Doing ==
    \A r \in Requests :
        /\ pc[r] # "new" => job[r] \in Jobs
        /\ pc[r] \in Writing \union {"lookup"} => job[r].op = "repost"
        /\ pc[r] \in {"delRepost", "delCopy"} => job[r].op = "unrepost"
        /\ pc[r] \in {"delPost", "cascade"} => job[r].op = "deletePost"
        /\ pc[r] = "dropCopy" => job[r].op = "deleteCopy"
        /\ pc[r] = "commit" => job[r].op \in {"repost", "unrepost"}

(* Where a transaction is.                                                 *)
Idle == {"new", "lookup", "insRepost", "delRepost", "delPost", "dropCopy", "count", "done"}
Reposting(r) ==
    pc[r] \in Writing \ {"insRepost"} \/ (pc[r] = "commit" /\ job[r].op = "repost")
PastCopy(r) ==
    pc[r] \in {"seekNote", "insNote"} \/ (pc[r] = "commit" /\ job[r].op = "repost")
Unreposting(r) == pc[r] = "delCopy" \/ (pc[r] = "commit" /\ job[r].op = "unrepost")

OwnRepost(r) == Row(RepostKey(job[r]), r)
OwnCopy(r) == Row(CopyKey(job[r]), r)
OwnNote(r) == Row(NoteKey(job[r]), r)

(* The rows that are there or may come back, and those that may yet go.    *)
Stored == rows \union UNION {gone[r] : r \in Requests}
Fresh == UNION {fresh[r] : r \in Requests}

(* Who holds a lock of a key, and who shuts all others out.                *)
Shuts(r, k) == X(k) \in held[r]
Shares(r, k) == X(k) \in held[r] \/ S(k) \in held[r]

Exclusive ==
    \A q, r \in Requests : q # r => \A k \in Keys : Shuts(q, k) => ~ Shares(r, k)

(* What a transaction has done so far, and the locks it has for it.        *)
Mine(r) ==
    /\ pc[r] \in Idle => fresh[r] = {} /\ gone[r] = {} /\ held[r] = {}
    /\ ~ Reposting(r) => fresh[r] = {}
    /\ Reposting(r) => gone[r] = {} /\ Shares(r, RepostKey(job[r]))
    /\ \A x \in fresh[r] : x \in {OwnRepost(r), OwnCopy(r), OwnNote(r)} /\ Shuts(r, x.key)
    /\ pc[r] \in {"seekNote", "insNote"} \/ (\E x \in fresh[r] : x = OwnNote(r)) =>
            OwnRepost(r) \in fresh[r]
    /\ \A x \in gone[r] :
        /\ Shuts(r, x.key)
        /\ \/ Unreposting(r) /\ x.key \in {RepostKey(job[r]), CopyKey(job[r])}
           \/ pc[r] = "cascade" /\ x.key = PostKey(job[r].post)
    /\ server.repeatableRead =>
        /\ pc[r] = "insCopy" \/ PastCopy(r) => Shares(r, CopyKey(job[r]))
        /\ Unreposting(r) => Shares(r, RepostKey(job[r]))

(* What it may rely on in the tables, because of its locks.                *)
Fits(r) ==
    /\ \A x \in fresh[r] : x \in rows
    /\ \A x \in gone[r] : x \notin rows
    /\ Reposting(r) => Has(RepostKey(job[r]))
    /\ server.repeatableRead =>
        /\ pc[r] = "insCopy" => ~ Has(CopyKey(job[r]))
        /\ PastCopy(r) => Has(CopyKey(job[r]))
        /\ Unreposting(r) => ~ Has(RepostKey(job[r]))

(* What it may rely on in all transactions.                                *)
Alone(r) ==
    /\ pc[r] = "insNote" => \A x \in Stored : x.key # NoteKey(job[r])
    /\ pc[r] = "commit" =>
        \A x \in gone[r], c \in Stored :
            x.key = RepostKey(job[r]) /\ c.key = CopyKey(job[r]) => c \in gone[r]

(* The tables.                                                             *)
Unique == \A x, y \in Stored : x.key = y.key => x = y

Rooted ==
    \A j \in Pairs, x \in Stored : x.key \in KeysOf(j) => \E y \in Stored : y.key = PostKey(j.post)

Paired ==
    \A j \in Pairs, c \in Stored : c.key = CopyKey(j) =>
        /\ \E y \in Stored : y.key = RepostKey(j)
        /\ \A r \in Requests : \A y \in fresh[r] : y.key = RepostKey(j) => c \in fresh[r]

Shown ==
    server.repeatableRead =>
        \A j \in Pairs, y \in Stored \ Fresh : y.key = RepostKey(j) =>
            j \in dropped \/ \E c \in Stored \ Fresh : c.key = CopyKey(j)

Tables == Unique /\ Rooted /\ Paired /\ Shown

Inv ==
    /\ TypeOK /\ Doing /\ Exclusive
    /\ \A r \in Requests : Mine(r) /\ Fits(r) /\ Alone(r)
    /\ Tables

(* A step of r leaves the other transactions alone, and the rows they have *)
(* locked.                                                                 *)
Acts(r) ==
    /\ server' = server
    /\ \A q \in Requests \ {r} :
        /\ pc'[q] = pc[q] /\ job'[q] = job[q]
        /\ fresh'[q] = fresh[q] /\ gone'[q] = gone[q] /\ held'[q] = held[q]
        /\ \A k : /\ X(k) \in held'[r] => ~ Shares(q, k)
                  /\ S(k) \in held'[r] => ~ Shuts(q, k)
        /\ \A x : Shares(q, x.key) => (x \in rows' <=> x \in rows)

-----------------------------------------------------------------------------
(* Keys, rows and locks.                                                   *)

PairOf(j) == [user |-> j.user, post |-> j.post]

LEMMA KeyKinds ==
    \A i, j, p, q :
        /\ RepostKey(i) = RepostKey(j) <=> i.user = j.user /\ i.post = j.post
        /\ CopyKey(i) = CopyKey(j) <=> i.user = j.user /\ i.post = j.post
        /\ NoteKey(i) = NoteKey(j) <=> i.user = j.user /\ i.post = j.post
        /\ PostKey(p) = PostKey(q) <=> p = q
        /\ RepostKey(i) # CopyKey(j) /\ RepostKey(i) # NoteKey(j) /\ CopyKey(i) # NoteKey(j)
        /\ PostKey(p) # RepostKey(j) /\ PostKey(p) # CopyKey(j) /\ PostKey(p) # NoteKey(j)
<1>1. \A i, j : /\ RepostKey(i) = RepostKey(j) <=> i.user = j.user /\ i.post = j.post
                /\ CopyKey(i) = CopyKey(j) <=> i.user = j.user /\ i.post = j.post
                /\ NoteKey(i) = NoteKey(j) <=> i.user = j.user /\ i.post = j.post
    BY DEF RepostKey, CopyKey, NoteKey
<1>2. \A p, q : PostKey(p) = PostKey(q) <=> p = q
    BY DEF PostKey
<1>3. \A j, p : /\ RepostKey(j)[1] = "repost" /\ CopyKey(j)[1] = "copy"
                /\ NoteKey(j)[1] = "note" /\ PostKey(p)[1] = "post"
    BY DEF RepostKey, CopyKey, NoteKey, PostKey
<1>4. \A i, j, p : /\ RepostKey(i) # CopyKey(j) /\ RepostKey(i) # NoteKey(j)
                   /\ CopyKey(i) # NoteKey(j) /\ PostKey(p) # RepostKey(j)
                   /\ PostKey(p) # CopyKey(j) /\ PostKey(p) # NoteKey(j)
    <2> SUFFICES ASSUME NEW i, NEW j, NEW p
                 PROVE  /\ RepostKey(i) # CopyKey(j) /\ RepostKey(i) # NoteKey(j)
                        /\ CopyKey(i) # NoteKey(j) /\ PostKey(p) # RepostKey(j)
                        /\ PostKey(p) # CopyKey(j) /\ PostKey(p) # NoteKey(j)
        OBVIOUS
    <2>1. /\ RepostKey(j)[1] = "repost" /\ CopyKey(j)[1] = "copy" /\ NoteKey(j)[1] = "note"
          /\ RepostKey(i)[1] = "repost" /\ CopyKey(i)[1] = "copy" /\ PostKey(p)[1] = "post"
        BY <1>3
    <2>2. QED
        BY <2>1
<1>5. QED
    BY <1>1, <1>2, <1>4

LEMMA KeysKnown ==
    /\ \A j \in Pairs : KeysOf(j) \subseteq Keys
    /\ \A j \in Jobs : /\ PairOf(j) \in Pairs /\ KeysOf(j) \subseteq Keys
                       /\ RepostKey(PairOf(j)) = RepostKey(j) /\ CopyKey(PairOf(j)) = CopyKey(j)
                       /\ NoteKey(PairOf(j)) = NoteKey(j) /\ PairOf(j).post = j.post
                       /\ j.op \in Operations /\ PairOf(j).user = j.user
                       /\ j.user \in Users /\ j.post \in Posts
<1>1. \A j \in Pairs : KeysOf(j) \subseteq Keys
    BY DEF Keys
<1>2. \A j \in Jobs : /\ PairOf(j) \in Pairs
                      /\ RepostKey(PairOf(j)) = RepostKey(j) /\ CopyKey(PairOf(j)) = CopyKey(j)
                      /\ NoteKey(PairOf(j)) = NoteKey(j) /\ PairOf(j).post = j.post
                      /\ j.op \in Operations /\ PairOf(j).user = j.user
                      /\ j.user \in Users /\ j.post \in Posts
    BY DEF Jobs, Pairs, PairOf, RepostKey, CopyKey, NoteKey
<1>3. \A j \in Jobs : KeysOf(PairOf(j)) = KeysOf(j)
    BY <1>2 DEF KeysOf
<1>4. QED
    BY <1>1, <1>2, <1>3

LEMMA JobOps ==
    ASSUME NEW j \in Jobs
    PROVE  j.op \in {"repost", "unrepost", "deletePost", "deleteCopy"}
BY DEF Jobs, Operations

LEMMA RowsApart ==
    \A k, m, q, r : /\ Row(k, r).key = k /\ Row(k, r).by = r
                    /\ Row(k, r) = Row(m, q) <=> k = m /\ r = q
BY DEF Row

LEMMA LocksApart ==
    \A k, m : /\ S(k) = S(m) <=> k = m
              /\ X(k) = X(m) <=> k = m
              /\ S(k) # X(m)
              /\ S(k)[1] = k /\ X(k)[1] = k /\ S(k)[2] = "s" /\ X(k)[2] = "x"
BY DEF S, X

LEMMA Granted ==
    ASSUME NEW r, Blockers(r) = {}, NEW q \in Requests, q # r, NEW k
    PROVE  /\ X(k) \in Wants(r) => ~ Shares(q, k)
           /\ S(k) \in Wants(r) => ~ Shuts(q, k)
<1>1. \A l \in Wants(r), h \in held[q] : ~ (l[1] = h[1] /\ "x" \in {l[2], h[2]})
    BY DEF Blockers
<1>2. QED
    BY <1>1, LocksApart DEF Shares, Shuts

LEMMA Keeps ==
    ASSUME NEW r
    PROVE  /\ Kept(r) \subseteq Wants(r)
           /\ \A k : X(k) \in Wants(r) => X(k) \in Kept(r)
           /\ \A k : S(k) \in Wants(r) /\ (server.repeatableRead \/ Has(k)) => S(k) \in Kept(r)
BY LocksApart DEF Kept

-----------------------------------------------------------------------------
(* Types.                                                                  *)

LEMMA WantsTyped ==
    ASSUME NEW r \in Requests, job[r] \in Jobs
    PROVE  Wants(r) \subseteq Keys \X {"s", "x"}
<1>1. KeysOf(job[r]) \subseteq Keys
    BY KeysKnown
<1>2. \A k \in Keys : S(k) \in Keys \X {"s", "x"} /\ X(k) \in Keys \X {"s", "x"}
    BY DEF S, X
<1>3. \A k \in Keys : /\ ToInsert(k, job[r].post) \subseteq Keys \X {"s", "x"}
                      /\ ToDelete(k) \subseteq Keys \X {"s", "x"}
                      /\ ToSeek(k) \subseteq Keys \X {"s", "x"}
    BY <1>1, <1>2 DEF ToInsert, ToDelete, ToSeek, KeysOf
<1>4. ChildKeys(job[r].post) \subseteq Keys
    BY DEF ChildKeys, Keys
<1>5. {RepostKey(job[r]), CopyKey(job[r]), NoteKey(job[r]), PostKey(job[r].post)} \subseteq Keys
    BY <1>1 DEF KeysOf
<1> HIDE DEF ToInsert, ToDelete, ToSeek, ChildKeys, Keys, S, X
<1>6. QED
    BY <1>2, <1>3, <1>4, <1>5 DEF Wants

LEMMA RowTyped ==
    ASSUME NEW r \in Requests, job[r] \in Jobs
    PROVE  \A k \in KeysOf(job[r]) : Row(k, r) \in Rows
BY KeysKnown DEF Row, Rows

(* The locks after a statement: those it wanted, and gaps nobody shuts.    *)
LEMMA HeldAfter ==
    ASSUME TypeOK, NEW r \in Requests, NEW ins, NEW del, NEW next,
           Execute(r, ins, del, next)
    PROVE  /\ \E near \in SUBSET Nearby(r) :
                held' = [held EXCEPT ![r] = @ \union Kept(r) \union {S(k) : k \in near}]
           /\ held[r] \union Kept(r) \subseteq held'[r]
           /\ \A q \in Requests \ {r} : held'[q] = held[q]
           /\ \A k : X(k) \in held'[r] => X(k) \in held[r] \union Kept(r)
           /\ \A k : S(k) \in held'[r] =>
                S(k) \in held[r] \union Kept(r) \/ \A q \in Requests \ {r} : ~ Shuts(q, k)
<1>1. PICK near \in SUBSET Nearby(r) :
        held' = [held EXCEPT ![r] = @ \union Kept(r) \union {S(k) : k \in near}]
    BY DEF Execute
<1>2. /\ held'[r] = held[r] \union Kept(r) \union {S(k) : k \in near}
      /\ \A q \in Requests \ {r} : held'[q] = held[q]
    BY <1>1 DEF TypeOK
<1>3. ASSUME NEW k, X(k) \in held'[r] PROVE X(k) \in held[r] \union Kept(r)
    BY <1>2, <1>3, LocksApart
<1>4. ASSUME NEW k, S(k) \in held'[r], S(k) \notin held[r] \union Kept(r)
      PROVE  \A q \in Requests \ {r} : ~ Shuts(q, k)
    <2>1. k \in Nearby(r)
        BY <1>2, <1>4, LocksApart
    <2>2. QED
        BY <2>1 DEF Nearby, Shuts
<1>5. QED
    BY <1>1, <1>2, <1>3, <1>4

LEMMA ExecuteTyped ==
    ASSUME TypeOK, NEW r \in Requests, job[r] \in Jobs, pc[r] # "done",
           NEW ins \in SUBSET Rows, NEW del \in SUBSET rows, NEW next \in Statements,
           Execute(r, ins, del, next)
    PROVE  TypeOK'
<1>1. Kept(r) \subseteq Keys \X {"s", "x"}
    BY WantsTyped, Keeps
<1>2. rows' \subseteq Rows
    BY DEF TypeOK, Execute
<1>3. /\ fresh' \in [Requests -> SUBSET Rows] /\ gone' \in [Requests -> SUBSET Rows]
      /\ held' \in [Requests -> SUBSET (Keys \X {"s", "x"})]
    <2>1. PICK near \in SUBSET Nearby(r) :
            held' = [held EXCEPT ![r] = @ \union Kept(r) \union {S(k) : k \in near}]
        BY HeldAfter
    <2>2. {S(k) : k \in near} \subseteq Keys \X {"s", "x"}
        BY DEF Nearby, S
    <2>3. held' \in [Requests -> SUBSET (Keys \X {"s", "x"})]
        BY <1>1, <2>1, <2>2 DEF TypeOK
    <2>4. QED
        BY <2>3 DEF TypeOK, Execute
<1>4. /\ pc' \in [Requests -> Statements \union {"new", "lookup", "count", "done"}]
      /\ \A q \in Requests : pc'[q] = "done" <=> answer'[q] # None
    BY DEF TypeOK, Execute, Statements
<1>5. QED
    BY <1>2, <1>3, <1>4 DEF TypeOK, Execute, request

LEMMA CloseTyped ==
    ASSUME TypeOK, NEW r \in Requests, Close(r)
    PROVE  /\ fresh' \in [Requests -> SUBSET Rows] /\ gone' \in [Requests -> SUBSET Rows]
           /\ held' \in [Requests -> SUBSET (Keys \X {"s", "x"})]
BY DEF TypeOK, Close

LEMMA RollbackTyped ==
    ASSUME TypeOK, NEW r \in Requests, Rollback(r)
    PROVE  /\ fresh' \in [Requests -> SUBSET Rows] /\ gone' \in [Requests -> SUBSET Rows]
           /\ held' \in [Requests -> SUBSET (Keys \X {"s", "x"})] /\ rows' \subseteq Rows
<1>1. rows' \subseteq Rows
    BY DEF TypeOK, Rollback
<1>2. QED
    BY <1>1, CloseTyped DEF Rollback

LEMMA RespondTyped ==
    ASSUME TypeOK, NEW r \in Requests, NEW status \in {200, 404, 500}, Respond(r, status)
    PROVE  /\ pc' \in [Requests -> Statements \union {"new", "lookup", "count", "done"}]
           /\ answer' \in [Requests -> {None, 200, 404, 500}]
           /\ \A q \in Requests : pc'[q] = "done" <=> answer'[q] # None
<1>1. status # None
    BY RepostAssumption
<1>2. QED
    BY <1>1 DEF TypeOK, Respond

LEMMA FaultTyped ==
    ASSUME TypeOK, Fault \/ UNCHANGED faults
    PROVE  faults' \in 0 .. MaxFaults
BY RepostAssumption DEF TypeOK, Fault

LEMMA TypeInit == Init => TypeOK /\ Doing
<1> SUFFICES ASSUME Init PROVE TypeOK /\ Doing
    OBVIOUS
<1>1. rows \subseteq Rows
    <2>1. \A p \in Posts : PostKey(p) \in Keys
        <3>1. SUFFICES ASSUME NEW p \in Posts PROVE PostKey(p) \in Keys
            OBVIOUS
        <3>2. [user |-> Author[p], post |-> p] \in Pairs
            BY RepostAssumption DEF Pairs
        <3>3. PostKey(p) \in KeysOf([user |-> Author[p], post |-> p])
            BY DEF KeysOf
        <3>4. QED
            BY <3>2, <3>3, KeysKnown
    <2>2. \A j \in dropped : RepostKey(j) \in Keys
        <3>1. dropped \subseteq Pairs
            BY RepostAssumption DEF Init, Pairs
        <3>2. QED
            BY <3>1, KeysKnown DEF KeysOf
    <2>3. QED
        BY <2>1, <2>2 DEF Init, Row, Rows
<1>2. 0 \in 0 .. MaxFaults
    BY RepostAssumption
<1>3. TypeOK
    <2>1. dropped \subseteq Pairs
        BY RepostAssumption DEF Init, Pairs
    <2>2. QED
        BY <1>1, <1>2, <2>1 DEF Init, TypeOK
<1>4. Doing
    BY DEF Init, Doing, Writing
<1>5. QED
    BY <1>3, <1>4

(* A request goes on within its operation.                                 *)
LEMMA DoingStep ==
    ASSUME TypeOK, Doing, NEW r \in Requests, NEW next, pc[r] # "new",
           pc' = [pc EXCEPT ![r] = next], job' = job,
           \/ job[r].op = "repost" /\ next \in Writing \union {"commit"}
           \/ job[r].op = "unrepost" /\ next \in {"delCopy", "commit"}
           \/ job[r].op = "deletePost" /\ next = "cascade"
           \/ next \in {"count", "done"}
    PROVE  Doing'
BY DEF TypeOK, Doing, Writing

LEMMA ExecuteDoing ==
    ASSUME TypeOK, Doing, NEW r \in Requests, pc[r] \notin {"new", "done"},
           NEW ins \in SUBSET Rows, NEW del \in SUBSET rows, NEW next,
           Execute(r, ins, del, next),
           \/ job[r].op = "repost" /\ next \in (Writing \ {"insRepost"}) \union {"commit"}
           \/ job[r].op = "unrepost" /\ next \in {"delCopy", "commit"}
           \/ job[r].op = "deletePost" /\ next = "cascade"
    PROVE  TypeOK' /\ Doing'
<1>1. job[r] \in Jobs /\ next \in Statements
    BY DEF Doing, Statements, Writing
<1>2. TypeOK'
    BY <1>1, ExecuteTyped
<1>3. pc' = [pc EXCEPT ![r] = next] /\ job' = job
    BY DEF Execute, request
<1>4. QED
    BY <1>2, <1>3, DoingStep

LEMMA StartTyped ==
    ASSUME TypeOK, Doing, NEW r \in Requests, NEW j \in Jobs, Start(r, j)
    PROVE  TypeOK' /\ Doing'
<1>1. j.op \in {"repost", "unrepost", "deletePost", "deleteCopy"}
    BY JobOps
<1> DEFINE first == CASE j.op = "repost" -> "lookup" [] j.op = "unrepost" -> "delRepost"
                      [] j.op = "deletePost" -> "delPost" [] j.op = "deleteCopy" -> "dropCopy"
<1>2. /\ j.op = "repost" => first = "lookup"
      /\ j.op = "unrepost" => first = "delRepost"
      /\ j.op = "deletePost" => first = "delPost"
      /\ j.op = "deleteCopy" => first = "dropCopy"
    OBVIOUS
<1>3. pc[r] = "new" /\ pc' = [pc EXCEPT ![r] = first] /\ job' = [job EXCEPT ![r] = j]
    BY DEF Start
<1> HIDE DEF first
<1>4. first \in Statements \union {"lookup"}
    BY <1>1, <1>2 DEF Statements
<1>5. /\ pc' \in [Requests -> Statements \union {"new", "lookup", "count", "done"}]
      /\ \A q \in Requests : pc'[q] = "done" <=> pc[q] = "done"
    BY <1>3, <1>4 DEF TypeOK, Statements
<1>6. TypeOK'
    <2>1. job' \in [Requests -> Jobs \union {None}]
        BY <1>3 DEF TypeOK
    <2>2. UNCHANGED <<server, attempt, rows, fresh, gone, held, answer, dropped, faults>>
        BY DEF Start, tables
    <2>3. QED
        BY <1>5, <2>1, <2>2 DEF TypeOK
<1>7. Doing'
    <2>1. /\ job'[r] = j /\ pc'[r] = first
          /\ \A q \in Requests \ {r} : job'[q] = job[q] /\ pc'[q] = pc[q]
        BY <1>3 DEF TypeOK
    <2>2. QED
        BY <1>1, <1>2, <2>1 DEF Doing, Writing
<1>8. QED
    BY <1>6, <1>7

LEMMA RefusedTyped ==
    ASSUME TypeOK, Doing, NEW r \in Requests, Refused(r)
    PROVE  TypeOK' /\ Doing'
<1>1. \E status \in {200, 404, 500} : Respond(r, status)
    BY DEF Refused, WriteErrorStatus
<1>2. Rollback(r) /\ UNCHANGED <<request, dropped, faults>>
    BY DEF Refused
<1>3. TypeOK'
    BY <1>1, <1>2, RollbackTyped, RespondTyped DEF request, TypeOK
<1>4. pc' = [pc EXCEPT ![r] = "done"] /\ job' = job /\ pc[r] # "new"
    BY <1>1, <1>2 DEF Refused, Respond, request
<1>5. Doing'
    BY <1>4, DoingStep
<1>6. QED
    BY <1>3, <1>5

LEMMA RepostStepTyped ==
    ASSUME TypeOK, Doing, NEW r \in Requests, RepostStep(r)
    PROVE  TypeOK' /\ Doing'
<1>1. pc[r] \in Writing \union {"lookup"} /\ job[r] \in Jobs /\ job[r].op = "repost"
    BY DEF RepostStep, Lookup, InsRepost, SeekCopy, InsCopy, SeekNote, InsNote, Refused, Doing, Writing
<1>2. pc[r] \notin {"new", "done"} /\ Row(RepostKey(job[r]), r) \in Rows
      /\ Row(CopyKey(job[r]), r) \in Rows /\ Row(NoteKey(job[r]), r) \in Rows
    BY <1>1, RowTyped DEF KeysOf, Writing
<1>3. AfterCopy(r) \in {"seekNote", "commit"}
    BY DEF AfterCopy
<1>4. CASE Lookup(r)
    <2>1. CASE Respond(r, 404)
        <3>1. /\ job' = job /\ pc' = [pc EXCEPT ![r] = "done"]
              /\ UNCHANGED <<server, attempt, rows, fresh, gone, held, dropped, faults>>
            BY <1>4, <2>1 DEF Lookup, Respond, request, tables
        <3>2. TypeOK'
            BY <2>1, <3>1, RespondTyped DEF Lookup, TypeOK
        <3>3. Doing'
            BY <1>2, <3>1, DoingStep
        <3>4. QED
            BY <3>2, <3>3
    <2>2. CASE pc' = [pc EXCEPT ![r] = "insRepost"] /\ UNCHANGED answer
        <3>1. TypeOK'
            BY <1>2, <1>4, <2>2 DEF Lookup, request, tables, TypeOK, Statements
        <3>2. QED
            BY <1>1, <1>2, <1>4, <2>2, <3>1, DoingStep DEF Lookup, request, Writing
    <2>3. QED
        BY <1>4, <2>1, <2>2 DEF Lookup
<1>5. CASE InsRepost(r)
    BY <1>1, <1>2, <1>5, ExecuteDoing DEF InsRepost, Writing
<1>6. CASE SeekCopy(r)
    BY <1>1, <1>2, <1>3, <1>6, ExecuteDoing DEF SeekCopy, Writing
<1>7. CASE InsCopy(r)
    BY <1>1, <1>2, <1>3, <1>7, ExecuteDoing DEF InsCopy, Writing
<1>8. CASE SeekNote(r)
    BY <1>1, <1>2, <1>8, ExecuteDoing DEF SeekNote, Writing
<1>9. CASE InsNote(r)
    BY <1>1, <1>2, <1>9, ExecuteDoing DEF InsNote, Writing
<1>10. CASE Refused(r)
    BY <1>10, RefusedTyped
<1>11. QED
    BY <1>4, <1>5, <1>6, <1>7, <1>8, <1>9, <1>10 DEF RepostStep

LEMMA EndTyped ==
    ASSUME TypeOK, Doing, NEW r \in Requests,
           LookupFails(r) \/ Commit(r) \/ CommitLost(r) \/ Count(r) \/ CountFails(r)
    PROVE  TypeOK' /\ Doing'
<1>1. pc[r] \in {"lookup", "commit", "count"} /\ pc[r] # "new" /\ job' = job /\ UNCHANGED request
    BY DEF LookupFails, Commit, CommitLost, Count, CountFails, request
<1>2. dropped' \subseteq Pairs /\ rows' \subseteq Rows
    BY DEF TypeOK, LookupFails, Commit, CommitLost, Count, CountFails, tables
<1>3. faults' \in 0 .. MaxFaults
    BY FaultTyped DEF LookupFails, Commit, CommitLost, Count, CountFails
<1>4. /\ fresh' \in [Requests -> SUBSET Rows] /\ gone' \in [Requests -> SUBSET Rows]
      /\ held' \in [Requests -> SUBSET (Keys \X {"s", "x"})]
    <2>1. CASE Close(r)
        BY <2>1, CloseTyped
    <2>2. CASE UNCHANGED tables
        BY <2>2 DEF tables, TypeOK
    <2>3. QED
        BY <2>1, <2>2 DEF LookupFails, Commit, CommitLost, Count, CountFails
<1>5. CASE \E status \in {200, 404, 500} : Respond(r, status)
    <2>1. PICK status \in {200, 404, 500} : Respond(r, status)
        BY <1>5
    <2>2. TypeOK'
        BY <1>1, <1>2, <1>3, <1>4, <2>1, RespondTyped DEF TypeOK, request
    <2>3. pc' = [pc EXCEPT ![r] = "done"]
        BY <2>1 DEF Respond
    <2>4. QED
        BY <1>1, <2>2, <2>3, DoingStep
<1>6. CASE Commit(r)
    <2>1. pc' = [pc EXCEPT ![r] = "count"] /\ answer' = answer
        BY <1>6 DEF Commit
    <2>2. TypeOK'
        BY <1>1, <1>2, <1>3, <1>4, <1>6, <2>1 DEF TypeOK, request, Commit, Statements
    <2>3. QED
        BY <1>1, <2>1, <2>2, DoingStep
<1>7. QED
    BY <1>5, <1>6 DEF LookupFails, CommitLost, Count, CountFails

LEMMA DeleteStepTyped ==
    ASSUME TypeOK, Doing, NEW r \in Requests,
           \/ DelRepost(r) \/ DelCopy(r) \/ DelPost(r) \/ Cascade(r) \/ DropCopy(r) \/ NotFound(r)
    PROVE  TypeOK' /\ Doing'
<1>1. /\ pc[r] \in {"delRepost", "delCopy", "delPost", "cascade", "dropCopy"}
      /\ pc[r] \notin {"new", "done"} /\ job[r] \in Jobs
    BY DEF DelRepost, DelCopy, DelPost, Cascade, DropCopy, NotFound, Doing
<1>2. \A k : RowsOf(k) \subseteq rows /\ {} \subseteq Rows
    BY DEF RowsOf
<1>3. CASE DelRepost(r)
    <2>1. job[r].op = "unrepost"
        BY <1>3 DEF DelRepost, Doing
    <2>2. QED
        BY <1>1, <1>2, <1>3, <2>1, ExecuteDoing DEF DelRepost
<1>4. CASE DelCopy(r)
    <2>1. job[r].op = "unrepost"
        BY <1>4 DEF DelCopy, Doing
    <2>2. QED
        BY <1>1, <1>2, <1>4, <2>1, ExecuteDoing DEF DelCopy
<1>5. CASE DelPost(r)
    <2>1. job[r].op = "deletePost"
        BY <1>5 DEF DelPost, Doing
    <2>2. QED
        BY <1>1, <1>2, <1>5, <2>1, ExecuteDoing DEF DelPost
<1>6. CASE Cascade(r)
    <2>1. rows' \subseteq Rows
        BY <1>6 DEF Cascade, TypeOK
    <2>2. Close(r) /\ Respond(r, 200) /\ UNCHANGED <<request, dropped, faults>>
        BY <1>6 DEF Cascade
    <2>3. TypeOK'
        BY <2>1, <2>2, CloseTyped, RespondTyped DEF request, TypeOK
    <2>4. pc' = [pc EXCEPT ![r] = "done"] /\ job' = job
        BY <2>2 DEF Respond, request
    <2>5. pc[r] # "new"
        BY <1>1
    <2>6. Doing'
        BY <2>4, <2>5, DoingStep
    <2>7. QED
        BY <2>3, <2>6
<1>7. CASE DropCopy(r)
    <2>1. rows' \subseteq Rows
        BY <1>7 DEF DropCopy, TypeOK
    <2>2. dropped' \subseteq Pairs
        <3>1. [user |-> job[r].user, post |-> job[r].post] \in Pairs
            BY <1>1, KeysKnown DEF PairOf
        <3>2. QED
            BY <1>7, <3>1 DEF DropCopy, TypeOK
    <2>3. Respond(r, 200) /\ UNCHANGED <<request, fresh, gone, held, faults>>
        BY <1>7 DEF DropCopy
    <2>4. TypeOK'
        BY <2>1, <2>2, <2>3, RespondTyped DEF request, TypeOK
    <2>5. pc' = [pc EXCEPT ![r] = "done"] /\ job' = job
        BY <2>3 DEF Respond, request
    <2>6. pc[r] # "new"
        BY <1>1
    <2>7. Doing'
        BY <2>5, <2>6, DoingStep
    <2>8. QED
        BY <2>4, <2>7
<1>8. CASE NotFound(r)
    <2>1. Respond(r, 404) /\ UNCHANGED <<request, rows, fresh, gone, held, dropped, faults>>
        BY <1>8 DEF NotFound, tables
    <2>2. TypeOK'
        BY <2>1, RespondTyped DEF request, TypeOK
    <2>3. pc' = [pc EXCEPT ![r] = "done"] /\ job' = job
        BY <2>1 DEF Respond, request
    <2>4. pc[r] # "new"
        BY <1>1
    <2>5. Doing'
        BY <2>3, <2>4, DoingStep
    <2>6. QED
        BY <2>2, <2>5
<1>9. QED
    BY <1>3, <1>4, <1>5, <1>6, <1>7, <1>8

LEMMA FailureTyped ==
    ASSUME TypeOK, Doing, NEW r \in Requests, Victim(r) \/ Abort(r)
    PROVE  TypeOK' /\ Doing'
<1>1. pc[r] \in Statements /\ pc[r] # "new" /\ pc[r] # "done" /\ job' = job
    BY DEF Victim, Abort, Statements, request
<1>2. /\ fresh' \in [Requests -> SUBSET Rows] /\ gone' \in [Requests -> SUBSET Rows]
      /\ held' \in [Requests -> SUBSET (Keys \X {"s", "x"})] /\ rows' \subseteq Rows
    BY RollbackTyped DEF Victim, Abort
<1>3. faults' \in 0 .. MaxFaults
    BY FaultTyped DEF Victim, Abort
<1>4. CASE Respond(r, 500)
    <2>1. attempt' = attempt /\ server' = server /\ dropped' = dropped
        BY <1>1, <1>4, RepostAssumption DEF Victim, Abort, request, Respond, TypeOK
    <2>2. TypeOK'
        BY <1>1, <1>2, <1>3, <1>4, <2>1, RespondTyped DEF TypeOK
    <2>3. pc' = [pc EXCEPT ![r] = "done"]
        BY <1>4 DEF Respond
    <2>4. Doing'
        BY <1>1, <2>3, DoingStep
    <2>5. QED
        BY <2>2, <2>4
<1>5. CASE Victim(r) /\ Retries(r)
    <2>1. /\ attempt' = [attempt EXCEPT ![r] = 2] /\ pc' = [pc EXCEPT ![r] = "insRepost"]
          /\ answer' = answer /\ server' = server /\ dropped' = dropped
        BY <1>5 DEF Victim
    <2>2. attempt' \in [Requests -> 1 .. 2]
        BY <2>1 DEF TypeOK
    <2>3. /\ pc' \in [Requests -> Statements \union {"new", "lookup", "count", "done"}]
          /\ \A q \in Requests : pc'[q] = "done" <=> answer'[q] # None
        BY <1>1, <2>1 DEF TypeOK, Statements
    <2>4. TypeOK'
        BY <1>1, <1>2, <1>3, <2>1, <2>2, <2>3 DEF TypeOK
    <2>5. Doing'
        BY <1>1, <1>5, <2>1, DoingStep DEF Retries, Writing
    <2>6. QED
        BY <2>4, <2>5
<1>6. QED
    BY <1>4, <1>5 DEF Victim, Abort

LEMMA TypeStep == TypeOK /\ Doing /\ [Next]_vars => TypeOK' /\ Doing'
<1> SUFFICES ASSUME TypeOK, Doing, [Next]_vars PROVE TypeOK' /\ Doing'
    OBVIOUS
<1>1. ASSUME NEW r \in Requests, \E j \in Jobs : Start(r, j) PROVE TypeOK' /\ Doing'
    BY <1>1, StartTyped
<1>2. ASSUME NEW r \in Requests, Step(r) PROVE TypeOK' /\ Doing'
    BY <1>2, RepostStepTyped, EndTyped, DeleteStepTyped, FailureTyped DEF Step
<1>3. ASSUME NEW r \in Requests,
             LookupFails(r) \/ CommitLost(r) \/ CountFails(r) \/ Abort(r)
      PROVE  TypeOK' /\ Doing'
    BY <1>3, EndTyped, FailureTyped
<1>4. CASE UNCHANGED vars
    BY <1>4 DEF vars, request, tables, TypeOK, Doing
<1>5. QED
    BY <1>1, <1>2, <1>3, <1>4 DEF Next

(* Types: in particular, a request has an answer exactly when it is over.  *)
THEOREM RepostTyping == Spec => [](TypeOK /\ Doing)
<1>1. QED
    BY TypeInit, TypeStep, PTL DEF Spec

-----------------------------------------------------------------------------
(* The other transactions.                                                 *)

LEMMA Apart ==
    ASSUME TypeOK, Exclusive, NEW q \in Requests, NEW r \in Requests, q # r, NEW k, Shuts(q, k)
    PROVE  ~ Shares(r, k)
<1>1. held[q] \subseteq Keys \X {"s", "x"}
    BY DEF TypeOK
<1>2. <<k, "x">> \in held[q]
    BY DEF Shuts, X
<1>3. k \in Keys
    BY <1>1, <1>2
<1>4. QED
    BY <1>3 DEF Exclusive

(* A statement that got its locks.                                         *)
LEMMA ExecuteActs ==
    ASSUME TypeOK, Exclusive, NEW r \in Requests, NEW ins, NEW del, NEW next,
           Execute(r, ins, del, next),
           \A x \in ins \union del : X(x.key) \in Wants(r)
    PROVE  /\ Acts(r)
           /\ fresh'[r] = fresh[r] \union ins /\ gone'[r] = gone[r] \union del
           /\ held[r] \union Kept(r) \subseteq held'[r]
           /\ pc'[r] = next /\ job' = job /\ dropped' = dropped
           /\ rows' = (rows \ del) \union ins
<1>1. /\ Blockers(r) = {} /\ rows' = (rows \ del) \union ins
      /\ UNCHANGED <<server, job, dropped>>
    BY DEF Execute, request
<1>2. /\ fresh'[r] = fresh[r] \union ins /\ gone'[r] = gone[r] \union del
      /\ held[r] \union Kept(r) \subseteq held'[r] /\ pc'[r] = next
      /\ \A q \in Requests \ {r} : /\ fresh'[q] = fresh[q] /\ gone'[q] = gone[q]
                                    /\ held'[q] = held[q] /\ pc'[q] = pc[q]
    BY HeldAfter DEF Execute, TypeOK
<1>3. ASSUME NEW q \in Requests \ {r}, NEW k
      PROVE  /\ X(k) \in held'[r] => ~ Shares(q, k)
             /\ S(k) \in held'[r] => ~ Shuts(q, k)
    <2>1. /\ X(k) \in Wants(r) => ~ Shares(q, k)
          /\ S(k) \in Wants(r) => ~ Shuts(q, k)
        BY <1>1, Granted
    <2>2. /\ X(k) \in held[r] => ~ Shares(q, k)
          /\ S(k) \in held[r] => ~ Shuts(q, k)
        BY Apart DEF Shuts, Shares
    <2>3. /\ X(k) \in held'[r] => X(k) \in held[r] \union Kept(r)
          /\ S(k) \in held'[r] => S(k) \in held[r] \union Kept(r) \/ ~ Shuts(q, k)
        BY HeldAfter
    <2>4. QED
        BY <2>1, <2>2, <2>3, Keeps
<1>4. ASSUME NEW q \in Requests \ {r}, NEW x, Shares(q, x.key)
      PROVE  x \in rows' <=> x \in rows
    <2>1. X(x.key) \notin Wants(r)
        BY <1>1, <1>4, Granted
    <2>2. QED
        BY <1>1, <2>1
<1>5. QED
    BY <1>1, <1>2, <1>3, <1>4 DEF Acts

(* A transaction that ends, or gives up.                                   *)
LEMMA CloseActs ==
    ASSUME TypeOK, NEW r \in Requests, Close(r), server' = server,
           \A q \in Requests \ {r} : pc'[q] = pc[q] /\ job'[q] = job[q],
           \A q \in Requests \ {r} : \A x : Shares(q, x.key) => (x \in rows' <=> x \in rows)
    PROVE  Acts(r) /\ fresh'[r] = {} /\ gone'[r] = {} /\ held'[r] = {}
<1>1. /\ fresh'[r] = {} /\ gone'[r] = {} /\ held'[r] = {}
      /\ \A q \in Requests \ {r} :
            fresh'[q] = fresh[q] /\ gone'[q] = gone[q] /\ held'[q] = held[q]
    BY DEF Close, TypeOK
<1>2. QED
    BY <1>1 DEF Acts

(* What it gives back were its own rows.                                   *)
LEMMA RollbackActs ==
    ASSUME Inv, NEW r \in Requests, Rollback(r), server' = server,
           \A q \in Requests \ {r} : pc'[q] = pc[q] /\ job'[q] = job[q]
    PROVE  /\ Acts(r) /\ fresh'[r] = {} /\ gone'[r] = {} /\ held'[r] = {}
           /\ rows' = (rows \ fresh[r]) \union gone[r]
<1>1. rows' = (rows \ fresh[r]) \union gone[r] /\ Close(r) /\ TypeOK /\ Exclusive
    BY DEF Rollback, Inv
<1>2. ASSUME NEW q \in Requests \ {r}, NEW x, Shares(q, x.key)
      PROVE  x \notin fresh[r] /\ x \notin gone[r]
    <2>1. ~ Shuts(r, x.key)
        BY <1>1, <1>2, Apart
    <2>2. QED
        BY <2>1 DEF Inv, Mine
<1>3. QED
    BY <1>1, <1>2, CloseActs

LEMMA OthersKeep ==
    ASSUME TypeOK, Exclusive, NEW r \in Requests, Acts(r),
           \A q \in Requests : Mine(q) /\ Fits(q)
    PROVE  Exclusive' /\ \A q \in Requests \ {r} : Mine(q)' /\ Fits(q)'
<1>1. Exclusive'
    <2>1. ASSUME NEW p \in Requests, NEW q \in Requests, p # q, NEW k, X(k) \in held'[p]
          PROVE  X(k) \notin held'[q] /\ S(k) \notin held'[q]
        <3>1. CASE p = r
            BY <2>1, <3>1 DEF Acts, Shares
        <3>2. CASE q = r
            BY <2>1, <3>2 DEF Acts, Shares, Shuts
        <3>3. CASE p # r /\ q # r
            BY <2>1, <3>3, Apart DEF Acts, Shares, Shuts
        <3>4. QED
            BY <3>1, <3>2, <3>3
    <2>2. QED
        BY <2>1 DEF Exclusive, Shares, Shuts
<1>2. ASSUME NEW q \in Requests \ {r} PROVE Mine(q)'
    <2>1. /\ pc'[q] = pc[q] /\ job'[q] = job[q] /\ server' = server
          /\ fresh'[q] = fresh[q] /\ gone'[q] = gone[q] /\ held'[q] = held[q]
        BY DEF Acts
    <2>2. QED
        BY <2>1 DEF Mine, Reposting, PastCopy, Unreposting, OwnRepost, OwnCopy, OwnNote, Shares, Shuts
<1>3. ASSUME NEW q \in Requests \ {r} PROVE Fits(q)'
    <2>1. /\ pc'[q] = pc[q] /\ job'[q] = job[q] /\ server' = server
          /\ fresh'[q] = fresh[q] /\ gone'[q] = gone[q]
        BY DEF Acts
    <2>2. \A x : Shares(q, x.key) => (x \in rows' <=> x \in rows)
        BY DEF Acts
    <2>3. \A k : Shares(q, k) => (Has(k)' <=> Has(k))
        BY <2>2 DEF Has, RowsOf
    <2>4. /\ \A x \in fresh'[q] : x \in rows'
          /\ \A x \in gone'[q] : x \notin rows'
        BY <2>1, <2>2 DEF Mine, Fits, Shuts, Shares
    <2>5. Reposting(q)' => Has(RepostKey(job[q]))'
        BY <2>1, <2>3 DEF Mine, Fits, Reposting
    <2>6. server'.repeatableRead =>
            /\ pc'[q] = "insCopy" => ~ Has(CopyKey(job[q]))'
            /\ PastCopy(q)' => Has(CopyKey(job[q]))'
            /\ Unreposting(q)' => ~ Has(RepostKey(job[q]))'
        BY <2>1, <2>3 DEF Mine, Fits, PastCopy, Unreposting
    <2>7. QED
        BY <2>4, <2>5, <2>6 DEF Fits
<1>4. QED
    BY <1>1, <1>2, <1>3

(* Rows that r adds do not surprise the others.                            *)
LEMMA OthersAlone ==
    ASSUME Inv, NEW r \in Requests, Acts(r),
           \A x \in Stored' :
                \/ x \in Stored
                \/ x = OwnRepost(r) /\ pc[r] = "insRepost"
                \/ x = OwnCopy(r) /\ pc[r] = "insCopy"
                \/ x = OwnNote(r) /\ pc[r] = "insNote"
    PROVE  \A q \in Requests \ {r} : Alone(q)'
<1> SUFFICES ASSUME NEW q \in Requests \ {r} PROVE Alone(q)'
    OBVIOUS
<1>1. pc'[q] = pc[q] /\ job'[q] = job[q] /\ gone'[q] = gone[q]
    BY DEF Acts
<1>2. TypeOK /\ Exclusive /\ Mine(q) /\ Mine(r) /\ Alone(q)
    BY DEF Inv
<1>3. ASSUME pc[q] = "insNote", NEW x \in Stored', x.key = NoteKey(job[q]) PROVE FALSE
    <2>1. x \notin Stored
        BY <1>2, <1>3 DEF Alone
    <2>2. x = OwnNote(r) /\ pc[r] = "insNote"
        BY <1>3, <2>1, KeyKinds, RowsApart DEF OwnRepost, OwnCopy
    <2>3. RepostKey(job[q]) = RepostKey(job[r])
        BY <1>3, <2>2, KeyKinds, RowsApart DEF OwnNote
    <2>4. OwnRepost(q) \in fresh[q] /\ OwnRepost(r) \in fresh[r]
        BY <1>2, <1>3, <2>2 DEF Mine
    <2>5. Shuts(q, RepostKey(job[q])) /\ Shuts(r, RepostKey(job[r]))
        BY <1>2, <2>4, RowsApart DEF Mine, OwnRepost
    <2>6. QED
        BY <1>2, <2>3, <2>5, Apart DEF Shares, Shuts
<1>4. ASSUME pc[q] = "commit", NEW x \in gone[q], NEW c \in Stored', c \notin Stored,
             x.key = RepostKey(job[q]), c.key = CopyKey(job[q])
      PROVE  FALSE
    <2>1. c = OwnCopy(r) /\ pc[r] = "insCopy"
        BY <1>4, KeyKinds, RowsApart DEF OwnRepost, OwnNote
    <2>2. RepostKey(job[q]) = RepostKey(job[r])
        BY <1>4, <2>1, KeyKinds, RowsApart DEF OwnCopy
    <2>3. Shares(r, RepostKey(job[r]))
        BY <1>2, <2>1 DEF Mine, Reposting, Writing
    <2>4. Shuts(q, RepostKey(job[q]))
        BY <1>2, <1>4 DEF Mine
    <2>5. QED
        BY <1>2, <2>2, <2>3, <2>4, Apart
<1>5. QED
    BY <1>1, <1>2, <1>3, <1>4 DEF Alone

(* A transaction that has ended holds nothing and relies on nothing.       *)
LEMMA Ended ==
    ASSUME NEW r \in Requests, pc'[r] \in Idle,
           fresh'[r] = {}, gone'[r] = {}, held'[r] = {}
    PROVE  Mine(r)' /\ Fits(r)' /\ Alone(r)'
<1>1. ~ Reposting(r)' /\ ~ PastCopy(r)' /\ ~ Unreposting(r)' /\ pc'[r] \notin {"insCopy", "insNote", "seekNote", "commit"}
    BY DEF Idle, Reposting, PastCopy, Unreposting, Writing
<1>2. QED
    BY <1>1 DEF Mine, Fits, Alone

LEMMA Together ==
    ASSUME Inv, NEW r \in Requests, Acts(r), TypeOK', Doing',
           Mine(r)', Fits(r)', Alone(r)', Tables',
           \A x \in Stored' :
                \/ x \in Stored
                \/ x = OwnRepost(r) /\ pc[r] = "insRepost"
                \/ x = OwnCopy(r) /\ pc[r] = "insCopy"
                \/ x = OwnNote(r) /\ pc[r] = "insNote"
    PROVE  Inv'
<1>1. Exclusive' /\ \A q \in Requests \ {r} : Mine(q)' /\ Fits(q)'
    BY OthersKeep DEF Inv
<1>2. \A q \in Requests \ {r} : Alone(q)'
    BY OthersAlone
<1>3. \A q \in Requests : Mine(q)' /\ Fits(q)' /\ Alone(q)'
    BY <1>1, <1>2
<1>4. QED
    BY <1>1, <1>3 DEF Inv

-----------------------------------------------------------------------------
(* The tables.                                                             *)

LEMMA TablesKept ==
    ASSUME Tables, Stored' = Stored, \A q \in Requests : fresh'[q] = fresh[q],
           dropped' = dropped, server' = server
    PROVE  Tables'
<1>1. Fresh' = Fresh
    BY DEF Fresh
<1>2. QED
    BY <1>1 DEF Tables, Unique, Rooted, Paired, Shown

(* No row of a key is about to come back when an INSERT has got its lock.  *)
LEMMA NoneStored ==
    ASSUME Inv, NEW r \in Requests, Blockers(r) = {}, gone[r] = {},
           NEW k, ~ Has(k), X(k) \in Wants(r)
    PROVE  \A y \in Stored : y.key # k
<1> SUFFICES ASSUME NEW y \in Stored, y.key = k PROVE FALSE
    OBVIOUS
<1>1. y \notin rows
    BY DEF Has, RowsOf
<1>2. PICK q \in Requests : y \in gone[q]
    BY <1>1 DEF Stored
<1>3. q # r /\ Shuts(q, k)
    BY <1>2 DEF Inv, Mine
<1>4. QED
    BY <1>3, Granted DEF Shares, Shuts

LEMMA InsertTables ==
    ASSUME Inv, NEW r \in Requests, job[r] \in Jobs,
           NEW k \in {RepostKey(job[r]), CopyKey(job[r]), NoteKey(job[r])}, NEW x, x = Row(k, r),
           \A y \in Stored : y.key # k, Has(PostKey(job[r].post)),
           k = CopyKey(job[r]) => Has(RepostKey(job[r])) /\ Shares(r, RepostKey(job[r])),
           Stored' = Stored \union {x}, fresh'[r] = fresh[r] \union {x},
           \A q \in Requests \ {r} : fresh'[q] = fresh[q],
           dropped' = dropped, server' = server
    PROVE  Tables'
<1>1. x.key = k /\ x \notin Stored
    BY RowsApart
<1>2. Tables /\ TypeOK /\ Exclusive
    BY DEF Inv
<1>3. \A q \in Requests : \A y : y \in fresh'[q] <=> y \in fresh[q] \/ (q = r /\ y = x)
    OBVIOUS
<1>4. Unique'
    BY <1>1, <1>2 DEF Tables, Unique
<1>5. Rooted'
    <2>1. SUFFICES ASSUME NEW j \in Pairs, x \in Stored', x.key \in KeysOf(j)
                   PROVE  \E y \in Stored' : y.key = PostKey(j.post)
        BY <1>2 DEF Tables, Rooted
    <2>2. j.post = job[r].post
        BY <1>1, <2>1, KeyKinds DEF KeysOf
    <2>3. QED
        BY <2>2 DEF Has, RowsOf, Stored
<1>6. Paired'
    <2>1. SUFFICES ASSUME NEW j \in Pairs, NEW c \in Stored', c.key = CopyKey(j)
                   PROVE  /\ \E y \in Stored' : y.key = RepostKey(j)
                          /\ \A q \in Requests : \A y \in fresh'[q] :
                                y.key = RepostKey(j) => c \in fresh'[q]
        BY DEF Paired
    <2>2. CASE c \in Stored
        <3>1. PICK y0 \in Stored : y0.key = RepostKey(j)
            BY <1>2, <2>1, <2>2 DEF Tables, Paired
        <3>2. x.key # RepostKey(j)
            BY <1>1, <3>1
        <3>3. QED
            BY <1>2, <1>3, <2>1, <2>2, <3>1, <3>2 DEF Tables, Paired
    <2>3. CASE c = x
        <3>1. k = CopyKey(job[r]) /\ RepostKey(j) = RepostKey(job[r])
            BY <1>1, <2>1, <2>3, KeyKinds
        <3>2. \E y \in Stored' : y.key = RepostKey(j)
            BY <3>1 DEF Has, RowsOf, Stored
        <3>3. ASSUME NEW q \in Requests, NEW y \in fresh'[q], y.key = RepostKey(j)
              PROVE  c \in fresh'[q]
            <4>1. CASE q = r
                BY <2>3, <4>1
            <4>2. CASE q # r
                <5>1. Shuts(q, RepostKey(job[r]))
                    BY <3>1, <3>3, <4>2 DEF Inv, Mine
                <5>2. QED
                    BY <1>2, <3>1, <4>2, <5>1, Apart
            <4>3. QED
                BY <4>1, <4>2
        <3>4. QED
            BY <3>2, <3>3
    <2>4. QED
        BY <2>1, <2>2, <2>3
<1>7. Shown'
    <2>1. \A y : y \in Fresh' <=> y \in Fresh \/ y = x
        BY <1>3 DEF Fresh
    <2>2. \A y : y \in Stored' /\ y \notin Fresh' <=> y \in Stored /\ y \notin Fresh
        BY <1>1, <2>1
    <2>3. QED
        BY <1>2, <2>2 DEF Tables, Shown
<1>8. QED
    BY <1>4, <1>5, <1>6, <1>7 DEF Tables

LEMMA RollbackTables ==
    ASSUME Inv, NEW r \in Requests, rows' = (rows \ fresh[r]) \union gone[r],
           fresh'[r] = {}, gone'[r] = {},
           \A q \in Requests \ {r} : fresh'[q] = fresh[q] /\ gone'[q] = gone[q],
           dropped' = dropped, server' = server
    PROVE  Tables' /\ Stored' \subseteq Stored
<1>1. Tables /\ \A q \in Requests : Mine(q) /\ Fits(q)
    BY DEF Inv
<1>2. \A q \in Requests : \A x \in gone[q] : x \notin fresh[r]
    BY <1>1 DEF Fits
<1>3. Stored' = Stored \ fresh[r]
    BY <1>2 DEF Stored
<1>4. Stored' \ Fresh' = Stored \ Fresh
    BY <1>3 DEF Fresh
<1>5. Unique'
    BY <1>1, <1>3 DEF Tables, Unique
<1>6. \A x \in fresh[r] : \A p : x.key # PostKey(p)
    BY <1>1, KeyKinds, RowsApart DEF Mine, OwnRepost, OwnCopy, OwnNote
<1>7. Rooted'
    BY <1>1, <1>3, <1>6 DEF Tables, Rooted
<1>8. Paired'
    <2>1. SUFFICES ASSUME NEW j \in Pairs, NEW c \in Stored', c.key = CopyKey(j)
                   PROVE  /\ \E y \in Stored' : y.key = RepostKey(j)
                          /\ \A q \in Requests : \A y \in fresh'[q] :
                                y.key = RepostKey(j) => c \in fresh'[q]
        BY DEF Paired
    <2>2. c \in Stored /\ c \notin fresh[r]
        BY <1>3
    <2>3. PICK y \in Stored : y.key = RepostKey(j)
        BY <1>1, <2>1, <2>2 DEF Tables, Paired
    <2>4. y \notin fresh[r]
        BY <1>1, <2>1, <2>2, <2>3 DEF Tables, Paired
    <2>5. \A q \in Requests : \A z \in fresh'[q] : z.key = RepostKey(j) => c \in fresh'[q]
        BY <1>1, <2>1, <2>2 DEF Tables, Paired
    <2>6. QED
        BY <1>3, <2>3, <2>4, <2>5
<1>9. Shown'
    BY <1>1, <1>4 DEF Tables, Shown
<1>10. QED
    BY <1>3, <1>5, <1>7, <1>8, <1>9 DEF Tables

(* The rows r has deleted go for good.                                     *)
LEMMA StoredAfterCommit ==
    ASSUME Inv, NEW r \in Requests, rows' = rows, gone'[r] = {},
           \A q \in Requests \ {r} : gone'[q] = gone[q]
    PROVE  Stored' = Stored \ gone[r]
<1>1. \A x \in gone[r] : x \notin rows
    BY DEF Inv, Fits
<1>2. ASSUME NEW q \in Requests \ {r}, NEW x \in gone[q] PROVE x \notin gone[r]
    <2>1. Shuts(q, x.key)
        BY DEF Inv, Mine
    <2>2. ~ Shares(r, x.key)
        BY <2>1, Apart DEF Inv
    <2>3. QED
        BY <2>2 DEF Inv, Mine, Shares, Shuts
<1>3. QED
    BY <1>1, <1>2 DEF Stored

LEMMA CommitTables ==
    ASSUME Inv, NEW r \in Requests, pc[r] = "commit", rows' = rows,
           fresh'[r] = {}, gone'[r] = {},
           \A q \in Requests \ {r} : fresh'[q] = fresh[q] /\ gone'[q] = gone[q],
           dropped' = dropped \ Restored(r), server' = server
    PROVE  Tables' /\ Stored' \subseteq Stored
<1>1. Tables /\ TypeOK /\ Exclusive /\ Doing /\ \A q \in Requests : Mine(q) /\ Fits(q) /\ Alone(q)
    BY DEF Inv
<1>2. Stored' = Stored \ gone[r]
    BY StoredAfterCommit
<1>3. Unique'
    BY <1>1, <1>2 DEF Tables, Unique
<1>4. \A x \in gone[r] : \A p : x.key # PostKey(p)
    BY <1>1, KeyKinds DEF Mine
<1>5. Rooted'
    BY <1>1, <1>2, <1>4 DEF Tables, Rooted
<1>6. job[r].op = "repost" \/ job[r].op = "unrepost"
    BY <1>1 DEF Doing
<1>7. CASE job[r].op = "repost"
    <2>1. Reposting(r) /\ PastCopy(r)
        BY <1>7 DEF Reposting, PastCopy
    <2>2. gone[r] = {} /\ Stored' = Stored
        BY <1>1, <1>2, <2>1 DEF Mine
    <2>3. Paired'
        BY <1>1, <2>2 DEF Tables, Paired
    <2>4. Shown'
        <3>1. SUFFICES ASSUME server.repeatableRead, NEW j \in Pairs,
                              NEW y \in Stored' \ Fresh', y.key = RepostKey(j)
                       PROVE  j \in dropped' \/ \E c \in Stored' \ Fresh' : c.key = CopyKey(j)
            BY DEF Shown
        <3>2. Fresh' \subseteq Fresh
            BY DEF Fresh
        <3>3. CASE y \in Fresh
            <4>1. y \in fresh[r]
                BY <3>1, <3>3 DEF Fresh
            <4>2. RepostKey(j) = RepostKey(job[r])
                BY <1>1, <3>1, <4>1, KeyKinds, RowsApart DEF Mine, OwnRepost, OwnCopy, OwnNote
            <4>3. CopyKey(j) = CopyKey(job[r])
                BY <4>2, KeyKinds
            <4>4. PICK c \in rows : c.key = CopyKey(job[r])
                BY <1>1, <2>1, <3>1 DEF Fits, Has, RowsOf
            <4>5. ASSUME NEW q \in Requests, c \in fresh'[q] PROVE FALSE
                <5>1. q # r /\ Shuts(q, c.key)
                    BY <1>1, <4>5 DEF Mine
                <5>2. QED
                    BY <1>1, <2>1, <3>1, <4>4, <5>1, Apart DEF Mine
            <4>6. QED
                BY <2>2, <4>3, <4>4, <4>5 DEF Stored, Fresh
        <3>4. CASE y \notin Fresh
            <4>1. j \in dropped \/ \E c \in Stored \ Fresh : c.key = CopyKey(j)
                BY <1>1, <2>2, <3>1, <3>4 DEF Tables, Shown
            <4>2. CASE j \in Restored(r)
                <5>1. Row(CopyKey(j), r) \in fresh[r]
                    BY <4>2 DEF Restored
                <5>2. Row(CopyKey(j), r) \in rows
                    BY <1>1, <5>1 DEF Fits
                <5>3. \A q \in Requests \ {r} : Row(CopyKey(j), r) \notin fresh[q]
                    BY <1>1, RowsApart DEF Mine, OwnRepost, OwnCopy, OwnNote
                <5>4. QED
                    BY <2>2, <5>2, <5>3, RowsApart DEF Stored, Fresh
            <4>3. CASE j \notin Restored(r)
                BY <2>2, <3>2, <4>1, <4>3
            <4>4. QED
                BY <4>2, <4>3
        <3>5. QED
            BY <3>3, <3>4
    <2>5. QED
        BY <1>2, <1>3, <1>5, <2>3, <2>4 DEF Tables
<1>8. CASE job[r].op = "unrepost"
    <2>1. ~ Reposting(r) /\ Unreposting(r) /\ fresh[r] = {}
        BY <1>1, <1>8 DEF Reposting, Unreposting, Writing, Mine
    <2>2. \A q \in Requests : fresh'[q] = fresh[q]
        BY <2>1
    <2>3. Fresh' = Fresh /\ dropped' = dropped
        BY <2>1, <2>2 DEF Fresh, Restored
    <2>4. Paired'
        <3>1. SUFFICES ASSUME NEW j \in Pairs, NEW c \in Stored', c.key = CopyKey(j)
                       PROVE  \E y \in Stored' : y.key = RepostKey(j)
            BY <1>1, <1>2, <2>2 DEF Tables, Paired
        <3>2. PICK y \in Stored : y.key = RepostKey(j)
            BY <1>1, <1>2, <3>1 DEF Tables, Paired
        <3>3. y \notin gone[r]
            <4>1. SUFFICES ASSUME y \in gone[r] PROVE FALSE
                OBVIOUS
            <4>2. RepostKey(j) = RepostKey(job[r])
                BY <1>1, <3>2, <4>1, KeyKinds DEF Mine
            <4>3. CopyKey(j) = CopyKey(job[r])
                BY <4>2, KeyKinds
            <4>4. c \in gone[r]
                BY <1>1, <1>2, <3>1, <3>2, <4>1, <4>2, <4>3 DEF Alone
            <4>5. QED
                BY <1>2, <4>4
        <3>4. QED
            BY <1>2, <3>2, <3>3
    <2>5. Shown'
        <3>1. SUFFICES ASSUME server.repeatableRead, NEW j \in Pairs,
                              NEW y \in Stored' \ Fresh', y.key = RepostKey(j), j \notin dropped
                       PROVE  \E c \in Stored' \ Fresh' : c.key = CopyKey(j)
            BY <2>3 DEF Shown
        <3>2. PICK c \in Stored \ Fresh : c.key = CopyKey(j)
            BY <1>1, <1>2, <2>3, <3>1 DEF Tables, Shown
        <3>3. c \notin gone[r]
            <4>1. SUFFICES ASSUME c \in gone[r] PROVE FALSE
                OBVIOUS
            <4>2. RepostKey(j) = RepostKey(job[r])
                BY <1>1, <3>2, <4>1, KeyKinds DEF Mine
            <4>3. y \notin rows
                BY <1>1, <2>1, <3>1, <4>2 DEF Fits, Has, RowsOf
            <4>4. PICK q \in Requests \ {r} : y \in gone[q]
                BY <1>2, <4>3 DEF Stored
            <4>5. Shuts(q, RepostKey(job[r])) /\ Shares(r, RepostKey(job[r]))
                BY <1>1, <2>1, <3>1, <4>2, <4>4 DEF Mine
            <4>6. QED
                BY <1>1, <4>5, Apart
        <3>4. QED
            BY <1>2, <2>3, <3>2, <3>3
    <2>6. QED
        BY <1>2, <1>3, <1>5, <2>4, <2>5 DEF Tables
<1>9. QED
    BY <1>6, <1>7, <1>8

LEMMA CascadeTables ==
    ASSUME Inv, NEW r \in Requests, Cascade(r)
    PROVE  Tables' /\ Stored' \subseteq Stored
<1> DEFINE p == job[r].post
           Hung(j) == {RepostKey(j), CopyKey(j), NoteKey(j)}
<1>1. Tables /\ TypeOK /\ \A q \in Requests : Mine(q) /\ Fits(q)
    BY DEF Inv
<1>2. /\ pc[r] = "cascade" /\ Blockers(r) = {} /\ Close(r)
      /\ rows' = {x \in rows : x.key \notin ChildKeys(p)}
      /\ dropped' = dropped /\ server' = server
    BY DEF Cascade, CascadesTo, request
<1>3. /\ fresh'[r] = {} /\ gone'[r] = {}
      /\ \A q \in Requests \ {r} : fresh'[q] = fresh[q] /\ gone'[q] = gone[q]
    BY <1>1, <1>2 DEF Close, TypeOK
<1>4. \A q \in Requests : fresh'[q] = fresh[q]
    BY <1>1, <1>2, <1>3 DEF Mine, Reposting, Writing
<1>5. \A k \in ChildKeys(p) : X(k) \in Wants(r)
    BY <1>2 DEF Wants
<1>6. \A q \in Requests \ {r} : \A x \in gone[q] : x.key \notin ChildKeys(p)
    BY <1>1, <1>2, <1>5, Granted DEF Mine, Shares, Shuts
<1>7. Stored' \subseteq Stored /\ \A x \in Stored' : x.key \notin ChildKeys(p)
    BY <1>2, <1>3, <1>6 DEF Stored
<1>8. \A x \in gone[r] : x.key = PostKey(p)
    BY <1>1, <1>2 DEF Mine, Unreposting
<1>9. \A x \in Stored : x.key \notin ChildKeys(p) /\ x.key # PostKey(p) => x \in Stored'
    BY <1>2, <1>3, <1>8 DEF Stored
<1>10. \A j \in Pairs, x \in Stored : j.post = p /\ x.key \in Hung(j) => x.key \in ChildKeys(p)
    <2>1. SUFFICES ASSUME NEW j \in Pairs, NEW x \in Stored, j.post = p, x.key \in Hung(j)
                   PROVE  x.key \in ChildKeys(p)
        OBVIOUS
    <2>2. x.key \in KeysOf(j) \ {PostKey(j.post)}
        BY <2>1, KeyKinds DEF KeysOf
    <2>3. QED
        BY <2>1, <2>2 DEF ChildKeys, Stored
<1>11. \A k \in ChildKeys(p) : \E j \in Pairs : j.post = p /\ k \in Hung(j)
    BY DEF ChildKeys, KeysOf
<1>12. \A j \in Pairs : \A k \in Hung(j) : k \in ChildKeys(p) => j.post = p
    BY <1>11, KeyKinds
<1>13. \A j \in Pairs, x \in Stored' : x.key \in Hung(j) => j.post # p
    BY <1>7, <1>10
<1>14. \A q : PostKey(q) \notin ChildKeys(p)
    BY <1>11, KeyKinds
<1> HIDE DEF p
<1>15. Unique'
    BY <1>1, <1>7 DEF Tables, Unique
<1>16. Rooted'
    <2>1. SUFFICES ASSUME NEW j \in Pairs, NEW x \in Stored', x.key \in KeysOf(j)
                   PROVE  \E y \in Stored' : y.key = PostKey(j.post)
        BY DEF Rooted
    <2>2. CASE x.key = PostKey(j.post)
        BY <2>2
    <2>3. CASE x.key \in Hung(j)
        <3>1. j.post # p
            BY <1>13, <2>3
        <3>2. PICK y \in Stored : y.key = PostKey(j.post)
            BY <1>1, <1>7, <2>1 DEF Tables, Rooted
        <3>3. QED
            BY <1>9, <1>14, <3>1, <3>2, KeyKinds
    <2>4. QED
        BY <2>1, <2>2, <2>3 DEF KeysOf
<1>17. Paired'
    <2>1. SUFFICES ASSUME NEW j \in Pairs, NEW c \in Stored', c.key = CopyKey(j)
                   PROVE  \E y \in Stored' : y.key = RepostKey(j)
        BY <1>1, <1>4, <1>7 DEF Tables, Paired
    <2>2. j.post # p
        BY <1>13, <2>1
    <2>3. PICK y \in Stored : y.key = RepostKey(j)
        BY <1>1, <1>7, <2>1 DEF Tables, Paired
    <2>4. y.key \notin ChildKeys(p) /\ y.key # PostKey(p)
        BY <1>12, <2>2, <2>3, KeyKinds
    <2>5. QED
        BY <1>9, <2>3, <2>4
<1>18. Fresh' = Fresh
    BY <1>4 DEF Fresh
<1>19. Shown'
    <2>1. SUFFICES ASSUME server.repeatableRead, NEW j \in Pairs,
                          NEW y \in Stored' \ Fresh, y.key = RepostKey(j), j \notin dropped
                   PROVE  \E c \in Stored' \ Fresh : c.key = CopyKey(j)
        BY <1>2, <1>18 DEF Shown
    <2>2. j.post # p
        BY <1>13, <2>1
    <2>3. PICK c \in Stored \ Fresh : c.key = CopyKey(j)
        BY <1>1, <1>7, <2>1 DEF Tables, Shown
    <2>4. c.key \notin ChildKeys(p) /\ c.key # PostKey(p)
        BY <1>12, <2>2, <2>3, KeyKinds
    <2>5. QED
        BY <1>9, <2>3, <2>4
<1>20. QED
    BY <1>7, <1>15, <1>16, <1>17, <1>19 DEF Tables

LEMMA DropTables ==
    ASSUME Inv, NEW r \in Requests, DropCopy(r)
    PROVE  Tables' /\ Stored' \subseteq Stored /\ Acts(r)
<1>1. Tables /\ TypeOK /\ Exclusive /\ Doing /\ \A q \in Requests : Mine(q) /\ Fits(q)
    BY DEF Inv
<1>2. PICK x \in rows : x.key = CopyKey(job[r]) /\ rows' = rows \ {x}
    BY DEF DropCopy, RowsOf
<1>3. /\ pc[r] = "dropCopy" /\ Blockers(r) = {} /\ UNCHANGED <<server, job, fresh, gone, held>>
      /\ dropped' = dropped \union {PairOf(job[r])}
      /\ \A q \in Requests \ {r} : pc'[q] = pc[q]
    BY <1>1 DEF DropCopy, Respond, PairOf, request, TypeOK
<1>4. X(x.key) \in Wants(r)
    BY <1>2, <1>3 DEF Wants, ToDelete, Has, RowsOf
<1>5. \A q \in Requests \ {r} : ~ Shares(q, x.key)
    BY <1>3, <1>4, Granted
<1>6. held[r] = {} /\ fresh[r] = {} /\ gone[r] = {}
    BY <1>1, <1>3 DEF Mine, Idle
<1>7. Acts(r)
    BY <1>2, <1>3, <1>5, <1>6 DEF Acts
<1>8. Stored' = Stored \ {x}
    <2>1. \A q \in Requests : x \notin gone[q]
        BY <1>1, <1>2 DEF Fits
    <2>2. QED
        BY <1>2, <1>3, <2>1 DEF Stored
<1>9. Unique'
    BY <1>1, <1>8 DEF Tables, Unique
<1>10. Rooted'
    BY <1>1, <1>2, <1>8, KeyKinds DEF Tables, Rooted
<1>11. Paired'
    BY <1>1, <1>2, <1>3, <1>8, KeyKinds DEF Tables, Paired
<1>12. Shown'
    <2>1. SUFFICES ASSUME server.repeatableRead, NEW j \in Pairs,
                          NEW y \in Stored \ Fresh, y.key = RepostKey(j), j \notin dropped'
                   PROVE  \E c \in Stored' \ Fresh : c.key = CopyKey(j)
        BY <1>3, <1>8 DEF Shown, Fresh
    <2>2. PICK c \in Stored \ Fresh : c.key = CopyKey(j)
        BY <1>1, <1>3, <2>1 DEF Tables, Shown
    <2>3. c # x
        <3>1. SUFFICES ASSUME c = x PROVE FALSE
            OBVIOUS
        <3>2. j.user = job[r].user /\ j.post = job[r].post
            BY <1>2, <2>2, <3>1, KeyKinds
        <3>3. j = PairOf(job[r])
            BY <3>2 DEF PairOf, Pairs
        <3>4. QED
            BY <1>3, <2>1, <3>3
    <2>4. QED
        BY <1>8, <2>2, <2>3
<1>13. QED
    BY <1>7, <1>8, <1>9, <1>10, <1>11, <1>12 DEF Tables

-----------------------------------------------------------------------------
(* The statements of Repost.                                               *)

LEMMA Parts ==
    ASSUME Inv, NEW r \in Requests
    PROVE  /\ TypeOK /\ Doing /\ Exclusive /\ Tables
           /\ Mine(r) /\ Fits(r) /\ Alone(r)
           /\ server \in Servers
BY DEF Inv, TypeOK

(* A statement that adds a row nobody has, or none.                        *)
LEMMA Added ==
    ASSUME Inv, NEW r \in Requests, job[r] \in Jobs, gone[r] = {}, NEW next,
           NEW k \in {RepostKey(job[r]), CopyKey(job[r]), NoteKey(job[r])},
           Execute(r, {Row(k, r)}, {}, next), Wants(r) = ToInsert(k, job[r].post),
           ~ Has(k), Has(PostKey(job[r].post)),
           k = CopyKey(job[r]) => Has(RepostKey(job[r])) /\ Shares(r, RepostKey(job[r]))
    PROVE  /\ Tables' /\ Acts(r) /\ Stored' = Stored \union {Row(k, r)}
           /\ fresh'[r] = fresh[r] \union {Row(k, r)} /\ gone'[r] = {}
           /\ held[r] \subseteq held'[r] /\ Shuts(r, k)'
           /\ rows' = rows \union {Row(k, r)} /\ pc'[r] = next /\ job' = job
<1>1. X(k) \in Wants(r) /\ Row(k, r).key = k /\ Blockers(r) = {}
    BY RowsApart DEF ToInsert, Execute
<1>2. /\ Acts(r) /\ fresh'[r] = fresh[r] \union {Row(k, r)} /\ gone'[r] = gone[r] \union {}
      /\ held[r] \union Kept(r) \subseteq held'[r]
      /\ pc'[r] = next /\ job' = job /\ dropped' = dropped
      /\ rows' = (rows \ {}) \union {Row(k, r)}
    BY <1>1, ExecuteActs, Parts
<1>3. Shuts(r, k)'
    BY <1>1, <1>2, Keeps DEF Shuts
<1>4. \A q \in Requests : gone'[q] = gone[q]
    BY <1>2 DEF Acts
<1>5. Stored' = Stored \union {Row(k, r)}
    BY <1>2, <1>4 DEF Stored
<1>6. \A y \in Stored : y.key # k
    BY <1>1, NoneStored
<1>7. server' = server /\ \A q \in Requests \ {r} : fresh'[q] = fresh[q]
    BY <1>2 DEF Acts
<1>8. Tables'
    BY <1>2, <1>5, <1>6, <1>7, InsertTables
<1>9. QED
    BY <1>2, <1>3, <1>5, <1>8

LEMMA NotAdded ==
    ASSUME Inv, NEW r \in Requests, NEW next, Execute(r, {}, {}, next)
    PROVE  /\ Tables' /\ Acts(r) /\ Stored' = Stored
           /\ fresh'[r] = fresh[r] /\ gone'[r] = gone[r]
           /\ held[r] \union Kept(r) \subseteq held'[r]
           /\ rows' = rows /\ pc'[r] = next /\ job' = job
<1> DEFINE no == {}
<1>1. /\ \A x \in no \union no : X(x.key) \in Wants(r)
      /\ TypeOK /\ Exclusive /\ Execute(r, no, no, next)
      /\ \A A : A \union no = A /\ A \ no = A
    BY Parts
<1> HIDE DEF no
<1>2. /\ Acts(r) /\ fresh'[r] = fresh[r] \union no /\ gone'[r] = gone[r] \union no
      /\ held[r] \union Kept(r) \subseteq held'[r]
      /\ pc'[r] = next /\ job' = job /\ dropped' = dropped
      /\ rows' = (rows \ no) \union no
    BY <1>1, ExecuteActs
<1>3. fresh'[r] = fresh[r] /\ gone'[r] = gone[r] /\ rows' = rows
    BY <1>1, <1>2
<1>4. /\ server' = server
      /\ \A q \in Requests : fresh'[q] = fresh[q] /\ gone'[q] = gone[q]
    BY <1>2, <1>3 DEF Acts
<1>5. Stored' = Stored
    BY <1>3, <1>4 DEF Stored
<1>6. Tables'
    BY <1>2, <1>4, <1>5, TablesKept, Parts
<1>7. QED
    BY <1>2, <1>3, <1>5, <1>6

LEMMA InsRepostStep ==
    ASSUME Inv, TypeOK', Doing', NEW r \in Requests, InsRepost(r)
    PROVE  Inv'
<1> DEFINE k == RepostKey(job[r])
<1>1. /\ pc[r] = "insRepost" /\ job[r] \in Jobs /\ Wants(r) = ToInsert(k, job[r].post)
      /\ fresh[r] = {} /\ gone[r] = {}
    BY Parts DEF InsRepost, Doing, Mine, Idle, Wants
<1>2. ASSUME pc'[r] = "seekCopy", job' = job, gone'[r] = {}, fresh'[r] \subseteq {OwnRepost(r)},
             \A x \in fresh'[r] : x \in rows' /\ Shuts(r, x.key)',
             Shares(r, k)', Has(k)'
      PROVE  Mine(r)' /\ Fits(r)' /\ Alone(r)'
    <2>1. Reposting(r)' /\ ~ PastCopy(r)' /\ ~ Unreposting(r)'
        BY <1>2 DEF Reposting, PastCopy, Unreposting, Writing
    <2>2. OwnNote(r)' \notin fresh'[r]
        BY <1>2, KeyKinds, RowsApart DEF OwnNote, OwnRepost
    <2>3. Mine(r)'
        BY <1>2, <2>1, <2>2 DEF Mine, Idle, OwnRepost
    <2>4. Fits(r)'
        BY <1>2, <2>1 DEF Fits
    <2>5. Alone(r)'
        BY <1>2 DEF Alone
    <2>6. QED
        BY <2>3, <2>4, <2>5
<1>3. CASE Has(k)
    <2>1. Execute(r, {}, {}, "seekCopy")
        BY <1>3 DEF InsRepost
    <2>2. /\ Tables' /\ Acts(r) /\ Stored' = Stored /\ fresh'[r] = fresh[r] /\ gone'[r] = gone[r]
          /\ held[r] \union Kept(r) \subseteq held'[r]
          /\ rows' = rows /\ pc'[r] = "seekCopy" /\ job' = job
        BY <2>1, NotAdded
    <2>3. S(k) \in Wants(r)
        BY <1>1, <1>3 DEF ToInsert
    <2>4. Shares(r, k)' /\ Has(k)'
        BY <1>3, <2>2, <2>3, Keeps DEF Shares, Has, RowsOf
    <2>5. Mine(r)' /\ Fits(r)' /\ Alone(r)'
        BY <1>1, <1>2, <2>2, <2>4
    <2>6. QED
        BY <2>2, <2>5, Together
<1>4. CASE ~ Has(k)
    <2>1. Execute(r, {Row(k, r)}, {}, "seekCopy") /\ Has(PostKey(job[r].post)) /\ k # CopyKey(job[r])
        BY <1>4, KeyKinds DEF InsRepost
    <2>2. /\ Tables' /\ Acts(r) /\ Stored' = Stored \union {Row(k, r)}
          /\ fresh'[r] = fresh[r] \union {Row(k, r)} /\ gone'[r] = {}
          /\ Shuts(r, k)'
          /\ rows' = rows \union {Row(k, r)} /\ pc'[r] = "seekCopy" /\ job' = job
        BY <1>1, <1>4, <2>1, Added
    <2>3. Row(k, r).key = k
        BY RowsApart
    <2>4. Shares(r, k)' /\ Has(k)'
        BY <2>2, <2>3 DEF Shares, Shuts, Has, RowsOf
    <2>5. fresh'[r] = {Row(k, r)}
        BY <1>1, <2>2
    <2>6. Mine(r)' /\ Fits(r)' /\ Alone(r)'
        BY <1>2, <2>2, <2>3, <2>4, <2>5 DEF OwnRepost
    <2>7. QED
        BY <1>1, <2>2, <2>6, Together DEF OwnRepost
<1>5. QED
    BY <1>3, <1>4

(* Locks and rows r has already do not change what it relies on.           *)
LEMMA StillMine ==
    ASSUME Inv, NEW r \in Requests, Acts(r), job' = job, Reposting(r), Reposting(r)',
           gone'[r] = {}, held[r] \subseteq held'[r], rows \subseteq rows',
           fresh[r] \subseteq fresh'[r],
           \A x \in fresh'[r] \ fresh[r] :
              x \in {OwnRepost(r), OwnCopy(r), OwnNote(r)} /\ Shuts(r, x.key)' /\ x \in rows',
           pc'[r] \in {"seekNote", "insNote"} \/ OwnNote(r) \in fresh'[r] => OwnRepost(r) \in fresh[r],
           server.repeatableRead =>
                /\ pc'[r] = "insCopy" \/ PastCopy(r)' => Shares(r, CopyKey(job[r]))'
                /\ pc'[r] = "insCopy" => ~ Has(CopyKey(job[r]))'
                /\ PastCopy(r)' => Has(CopyKey(job[r]))'
    PROVE  Mine(r)' /\ Fits(r)'
<1>1. server' = server /\ Mine(r) /\ Fits(r)
    BY Parts DEF Acts
<1>2. pc'[r] \notin Idle /\ ~ Unreposting(r)'
    <2>1. pc'[r] \in Writing \ {"insRepost"} \/ (pc'[r] = "commit" /\ job'[r].op = "repost")
        BY DEF Reposting
    <2>2. QED
        BY <2>1 DEF Idle, Unreposting, Writing
<1>3. Shares(r, RepostKey(job[r]))' /\ Has(RepostKey(job[r]))'
    BY <1>1 DEF Mine, Fits, Shares, Has, RowsOf
<1>4. \A x \in fresh'[r] : /\ x \in {OwnRepost(r), OwnCopy(r), OwnNote(r)}
                          /\ Shuts(r, x.key)' /\ x \in rows'
    BY <1>1 DEF Mine, Fits, Shuts
<1>5. Mine(r)'
    BY <1>1, <1>2, <1>3, <1>4 DEF Mine, OwnRepost, OwnCopy, OwnNote
<1>6. Fits(r)'
    BY <1>1, <1>2, <1>3, <1>4 DEF Fits
<1>7. QED
    BY <1>5, <1>6

LEMMA SeekCopyStep ==
    ASSUME Inv, TypeOK', Doing', NEW r \in Requests, SeekCopy(r)
    PROVE  Inv'
<1> DEFINE k == CopyKey(job[r])
           next == IF Sees(r, k) THEN AfterCopy(r) ELSE "insCopy"
<1>1. /\ pc[r] = "seekCopy" /\ Execute(r, {}, {}, next) /\ Wants(r) = ToSeek(k)
      /\ Reposting(r) /\ gone[r] = {} /\ job[r].op = "repost"
    BY Parts DEF SeekCopy, Wants, Mine, Reposting, Writing, Doing
<1>2. /\ Tables' /\ Acts(r) /\ Stored' = Stored /\ fresh'[r] = fresh[r] /\ gone'[r] = {}
      /\ held[r] \union Kept(r) \subseteq held'[r]
      /\ rows' = rows /\ pc'[r] = next /\ job' = job
    <2> HIDE DEF next
    <2>1. QED
        BY <1>1, NotAdded
<1>3. next \in {"insCopy", "seekNote", "commit"}
    BY DEF AfterCopy
<1>4. Reposting(r)' /\ (next = "insCopy" => ~ PastCopy(r)')
    BY <1>1, <1>2, <1>3 DEF Reposting, PastCopy, Writing
<1>5. next = "seekNote" => OwnRepost(r) \in fresh[r]
    BY DEF AfterCopy, OwnRepost
<1>6. OwnNote(r) \in fresh[r] => OwnRepost(r) \in fresh[r]
    BY Parts DEF Mine
<1>7. server.repeatableRead =>
        /\ Shares(r, k)'
        /\ next = "insCopy" => ~ Has(k)'
        /\ next # "insCopy" => Has(k)'
    <2>1. SUFFICES ASSUME server.repeatableRead
                   PROVE  Shares(r, k)' /\ (next = "insCopy" <=> ~ Has(k)')
        OBVIOUS
    <2>2. S(k) \in held'[r]
        BY <1>1, <1>2, <2>1, Keeps DEF ToSeek
    <2>3. Sees(r, k) <=> Has(k)
        BY <2>1 DEF Sees, Has, RowsOf
    <2>4. next = "insCopy" <=> ~ Has(k)
        BY <2>3 DEF AfterCopy
    <2>5. Has(k)' <=> Has(k)
        BY <1>2 DEF Has, RowsOf
    <2> HIDE DEF next
    <2>6. Shares(r, k)'
        BY <1>2, <2>2 DEF Shares
    <2>7. QED
        BY <2>4, <2>5, <2>6
<1>8. Mine(r)' /\ Fits(r)'
    <2> HIDE DEF next
    <2>1. QED
        BY <1>1, <1>2, <1>3, <1>4, <1>5, <1>6, <1>7, StillMine
<1>9. Alone(r)'
    <2> HIDE DEF next
    <2>1. QED
        BY <1>2, <1>3 DEF Alone
<1>10. QED
    BY <1>2, <1>8, <1>9, Together

LEMMA InsCopyStep ==
    ASSUME Inv, TypeOK', Doing', NEW r \in Requests, InsCopy(r)
    PROVE  Inv'
<1> DEFINE k == CopyKey(job[r])
           next == AfterCopy(r)
<1>1. /\ pc[r] = "insCopy" /\ Wants(r) = ToInsert(k, job[r].post)
      /\ Reposting(r) /\ gone[r] = {} /\ job[r].op = "repost" /\ job[r] \in Jobs
    BY Parts DEF InsCopy, Wants, Mine, Reposting, Writing, Doing
<1>2. next \in {"seekNote", "commit"} /\ (next = "seekNote" => OwnRepost(r) \in fresh[r])
    BY DEF AfterCopy, OwnRepost
<1>3. OwnNote(r) \in fresh[r] => OwnRepost(r) \in fresh[r]
    BY Parts DEF Mine
<1>4. server.repeatableRead => ~ Has(k) /\ Shares(r, k)
    BY <1>1, Parts DEF Fits, Mine
<1>5. ASSUME Acts(r), job' = job, pc'[r] = next, gone'[r] = {}, held[r] \subseteq held'[r],
             \/ fresh'[r] = fresh[r] /\ rows' = rows /\ ~ server.repeatableRead
             \/ /\ fresh'[r] = fresh[r] \union {Row(k, r)} /\ rows' = rows \union {Row(k, r)}
                /\ Shuts(r, k)'
      PROVE  Mine(r)' /\ Fits(r)' /\ Alone(r)'
    <2>1. Reposting(r)' /\ pc'[r] # "insCopy"
        BY <1>1, <1>2, <1>5 DEF Reposting, Writing
    <2>2. Row(k, r).key = k /\ Row(k, r) = OwnCopy(r) /\ OwnNote(r) # OwnCopy(r)
        BY RowsApart, KeyKinds DEF OwnCopy, OwnNote
    <2>3. server.repeatableRead => Shares(r, k)' /\ Has(k)'
        BY <1>5, <2>2 DEF Shares, Shuts, Has, RowsOf
    <2>4. OwnNote(r) \in fresh'[r] => OwnRepost(r) \in fresh[r]
        BY <1>3, <1>5, <2>2
    <2>5. \A x \in fresh'[r] \ fresh[r] : x = OwnCopy(r) /\ Shuts(r, x.key)' /\ x \in rows'
        BY <1>5, <2>2
    <2> HIDE DEF next
    <2>6. rows \subseteq rows' /\ fresh[r] \subseteq fresh'[r]
        BY <1>5
    <2>7. pc'[r] \in {"seekNote", "insNote"} => OwnRepost(r) \in fresh[r]
        BY <1>2, <1>5
    <2>8. Mine(r)' /\ Fits(r)'
        BY <1>1, <1>5, <2>1, <2>3, <2>4, <2>5, <2>6, <2>7, StillMine
    <2>9. Alone(r)'
        BY <1>2, <1>5 DEF Alone
    <2>10. QED
        BY <2>8, <2>9
<1>6. CASE Has(k)
    <2>1. ~ server.repeatableRead
        BY <1>4, <1>6
    <2>2. server.uniqueCopies
        BY <2>1, Parts, RepostAssumption
    <2>3. Execute(r, {}, {}, next)
        BY <1>6, <2>2 DEF InsCopy, SecondCopy
    <2>4. /\ Tables' /\ Acts(r) /\ Stored' = Stored /\ fresh'[r] = fresh[r] /\ gone'[r] = gone[r]
          /\ held[r] \union Kept(r) \subseteq held'[r]
          /\ rows' = rows /\ pc'[r] = next /\ job' = job
        BY <2>3, NotAdded
    <2>5. Mine(r)' /\ Fits(r)' /\ Alone(r)'
        BY <1>1, <1>5, <2>1, <2>4
    <2>6. QED
        BY <2>4, <2>5, Together
<1>7. CASE ~ Has(k)
    <2>1. Execute(r, {Row(k, r)}, {}, next) /\ Has(PostKey(job[r].post))
        BY <1>7 DEF InsCopy, SecondCopy
    <2>2. Has(RepostKey(job[r])) /\ Shares(r, RepostKey(job[r]))
        BY <1>1, Parts DEF Mine, Fits
    <2> HIDE DEF next
    <2>3. /\ Tables' /\ Acts(r) /\ Stored' = Stored \union {Row(k, r)}
          /\ fresh'[r] = fresh[r] \union {Row(k, r)} /\ gone'[r] = {}
          /\ held[r] \subseteq held'[r] /\ Shuts(r, k)'
          /\ rows' = rows \union {Row(k, r)} /\ pc'[r] = next /\ job' = job
        BY <1>1, <1>7, <2>1, <2>2, Added
    <2>4. Mine(r)' /\ Fits(r)' /\ Alone(r)'
        BY <1>5, <2>3
    <2>5. QED
        BY <1>1, <2>3, <2>4, Together DEF OwnCopy
<1>8. QED
    BY <1>6, <1>7

LEMMA SeekNoteStep ==
    ASSUME Inv, TypeOK', Doing', NEW r \in Requests, SeekNote(r)
    PROVE  Inv'
<1> DEFINE k == NoteKey(job[r])
           next == IF Sees(r, k) THEN "commit" ELSE "insNote"
<1>1. /\ pc[r] = "seekNote" /\ Execute(r, {}, {}, next)
      /\ Reposting(r) /\ PastCopy(r) /\ gone[r] = {} /\ job[r].op = "repost"
      /\ OwnRepost(r) \in fresh[r]
    BY Parts DEF SeekNote, Mine, Reposting, PastCopy, Writing, Doing
<1>2. /\ Tables' /\ Acts(r) /\ Stored' = Stored /\ fresh'[r] = fresh[r] /\ gone'[r] = {}
      /\ held[r] \union Kept(r) \subseteq held'[r]
      /\ rows' = rows /\ pc'[r] = next /\ job' = job
    <2> HIDE DEF next
    <2>1. QED
        BY <1>1, NotAdded
<1>3. next \in {"insNote", "commit"}
    OBVIOUS
<1>4. ASSUME next = "insNote", NEW x \in Stored, x.key = k PROVE FALSE
    <2>1. ~ Sees(r, k)
        BY <1>4
    <2>2. \A q \in Requests : x \notin gone[q]
        BY <1>4, KeyKinds DEF Inv, Mine
    <2>3. x \in rows
        BY <2>2 DEF Stored
    <2>4. ~ server.repeatableRead /\ x \notin Committed /\ x \notin fresh[r]
        BY <1>1, <1>4, <2>1, <2>3 DEF Sees
    <2>5. PICK q \in Requests \ {r} : x \in fresh[q]
        BY <2>3, <2>4 DEF Committed
    <2>6. x = OwnNote(q) /\ RepostKey(job[q]) = RepostKey(job[r])
        BY <1>4, <2>5, KeyKinds, RowsApart DEF Inv, Mine, OwnRepost, OwnCopy, OwnNote
    <2>7. OwnRepost(q) \in fresh[q]
        BY <2>5, <2>6 DEF Inv, Mine
    <2>8. Shuts(q, RepostKey(job[q])) /\ Shuts(r, RepostKey(job[r]))
        BY <1>1, <2>7, RowsApart DEF Inv, Mine, OwnRepost
    <2>9. QED
        BY <2>5, <2>6, <2>8, Apart, Parts DEF Shares, Shuts
<1> HIDE DEF next
<1>5. Reposting(r)' /\ PastCopy(r)'
    BY <1>1, <1>2, <1>3 DEF Reposting, PastCopy, Writing
<1>6. server.repeatableRead => Shares(r, CopyKey(job[r]))' /\ Has(CopyKey(job[r]))'
    BY <1>1, <1>2, Parts DEF Mine, Fits, Shares, Has, RowsOf
<1>7. Mine(r)' /\ Fits(r)'
    BY <1>1, <1>2, <1>3, <1>5, <1>6, StillMine
<1>8. Alone(r)'
    BY <1>2, <1>3, <1>4 DEF Alone
<1>9. QED
    BY <1>2, <1>7, <1>8, Together

LEMMA InsNoteStep ==
    ASSUME Inv, TypeOK', Doing', NEW r \in Requests, InsNote(r)
    PROVE  Inv'
<1> DEFINE k == NoteKey(job[r])
<1>1. /\ pc[r] = "insNote" /\ Execute(r, {Row(k, r)}, {}, "commit") /\ Has(PostKey(job[r].post))
      /\ Wants(r) = ToInsert(k, job[r].post)
      /\ Reposting(r) /\ PastCopy(r) /\ gone[r] = {} /\ job[r].op = "repost" /\ job[r] \in Jobs
      /\ OwnRepost(r) \in fresh[r]
    BY Parts DEF InsNote, Wants, Mine, Reposting, PastCopy, Writing, Doing
<1>2. ~ Has(k) /\ k # CopyKey(job[r])
    BY <1>1, Parts, KeyKinds DEF Alone, Has, RowsOf, Stored
<1>3. /\ Tables' /\ Acts(r) /\ Stored' = Stored \union {Row(k, r)}
      /\ fresh'[r] = fresh[r] \union {Row(k, r)} /\ gone'[r] = {}
      /\ held[r] \subseteq held'[r] /\ Shuts(r, k)'
      /\ rows' = rows \union {Row(k, r)} /\ pc'[r] = "commit" /\ job' = job
    BY <1>1, <1>2, Added
<1>4. Row(k, r).key = k /\ Row(k, r) = OwnNote(r)
    BY RowsApart DEF OwnNote
<1>5. Reposting(r)' /\ PastCopy(r)'
    BY <1>1, <1>3 DEF Reposting, PastCopy
<1>6. server.repeatableRead => Shares(r, CopyKey(job[r]))' /\ Has(CopyKey(job[r]))'
    BY <1>1, <1>3, Parts DEF Mine, Fits, Shares, Has, RowsOf
<1>7. \A x \in fresh'[r] \ fresh[r] : x = OwnNote(r) /\ Shuts(r, x.key)' /\ x \in rows'
    BY <1>3, <1>4
<1>8. Mine(r)' /\ Fits(r)'
    BY <1>1, <1>3, <1>5, <1>6, <1>7, StillMine
<1>9. Alone(r)'
    BY <1>3 DEF Alone
<1>10. QED
    BY <1>1, <1>3, <1>4, <1>8, <1>9, Together

-----------------------------------------------------------------------------
(* The DELETEs.  What they delete stays stored until the commit.           *)

LEMMA Hidden ==
    ASSUME Inv, NEW r \in Requests, NEW k, NEW next,
           Execute(r, {}, RowsOf(k), next), Wants(r) = ToDelete(k)
    PROVE  /\ Tables' /\ Acts(r) /\ Stored' = Stored /\ fresh'[r] = fresh[r]
           /\ gone'[r] = gone[r] \union RowsOf(k)
           /\ held[r] \union Kept(r) \subseteq held'[r]
           /\ rows' = rows \ RowsOf(k) /\ (\A x \in rows' : x.key # k) /\ pc'[r] = next /\ job' = job
           /\ \A x \in RowsOf(k) : x.key = k /\ X(k) \in held'[r]
           /\ server.repeatableRead => X(k) \in held'[r] \/ S(k) \in held'[r]
<1> DEFINE no == {}
           del == RowsOf(k)
<1>1. \A x \in del : x.key = k /\ x \in rows
    BY DEF RowsOf
<1>2. del # {} => X(k) \in Wants(r)
    BY DEF ToDelete, Has
<1>3. /\ \A x \in no \union del : X(x.key) \in Wants(r)
      /\ TypeOK /\ Exclusive /\ Execute(r, no, del, next) /\ \A A : A \union no = A
    BY <1>1, <1>2, Parts
<1>4. X(k) \in Wants(r) \/ S(k) \in Wants(r)
    BY DEF ToDelete
<1>5. \A x \in rows : x.key = k => x \in del
    BY DEF RowsOf
<1> HIDE DEF no, del
<1>6. /\ Acts(r) /\ fresh'[r] = fresh[r] \union no /\ gone'[r] = gone[r] \union del
      /\ held[r] \union Kept(r) \subseteq held'[r]
      /\ pc'[r] = next /\ job' = job /\ dropped' = dropped
      /\ rows' = (rows \ del) \union no
    BY <1>3, ExecuteActs
<1>7. fresh'[r] = fresh[r] /\ rows' = rows \ del
    BY <1>3, <1>6
<1>8. Stored' = Stored
    <2>1. \A q \in Requests \ {r} : gone'[q] = gone[q]
        BY <1>6 DEF Acts
    <2>2. QED
        BY <1>1, <1>6, <1>7, <2>1 DEF Stored
<1>9. Tables'
    <2>1. server' = server /\ \A q \in Requests : fresh'[q] = fresh[q]
        BY <1>6, <1>7 DEF Acts
    <2>2. QED
        BY <1>6, <1>8, <2>1, TablesKept, Parts
<1>10. \A x \in rows' : x.key # k
    BY <1>5, <1>7
<1>11. \A x \in del : X(k) \in held'[r]
    BY <1>2, <1>6, Keeps
<1>12. server.repeatableRead => X(k) \in held'[r] \/ S(k) \in held'[r]
    BY <1>4, <1>6, Keeps
<1>13. QED
    BY <1>1, <1>6, <1>7, <1>8, <1>9, <1>10, <1>11, <1>12 DEF del

LEMMA DelRepostStep ==
    ASSUME Inv, TypeOK', Doing', NEW r \in Requests, DelRepost(r)
    PROVE  Inv'
<1> DEFINE k == RepostKey(job[r])
<1>1. /\ Execute(r, {}, RowsOf(k), "delCopy") /\ Wants(r) = ToDelete(k)
      /\ fresh[r] = {} /\ gone[r] = {}
    BY Parts DEF DelRepost, Wants, Mine, Idle
<1>2. /\ Tables' /\ Acts(r) /\ Stored' = Stored /\ fresh'[r] = {}
      /\ gone'[r] = RowsOf(k) /\ rows' = rows \ RowsOf(k) /\ (\A x \in rows' : x.key # k)
      /\ pc'[r] = "delCopy" /\ job' = job /\ server' = server
      /\ \A x \in RowsOf(k) : x.key = k /\ X(k) \in held'[r]
      /\ server.repeatableRead => X(k) \in held'[r] \/ S(k) \in held'[r]
    <2>1. /\ Tables' /\ Acts(r) /\ Stored' = Stored /\ fresh'[r] = fresh[r]
          /\ gone'[r] = gone[r] \union RowsOf(k) /\ rows' = rows \ RowsOf(k) /\ (\A x \in rows' : x.key # k)
          /\ pc'[r] = "delCopy" /\ job' = job /\ server' = server
          /\ \A x \in RowsOf(k) : x.key = k /\ X(k) \in held'[r]
          /\ server.repeatableRead => X(k) \in held'[r] \/ S(k) \in held'[r]
        <3>1. Execute(r, {}, RowsOf(k), "delCopy") /\ Wants(r) = ToDelete(k)
            BY <1>1
        <3>2. Acts(r)
            BY <3>1, Hidden
        <3>3. QED
            BY <3>1, <3>2, Hidden DEF Acts
    <2>2. gone'[r] = RowsOf(k)
        BY <1>1, <2>1
    <2>3. QED
        BY <1>1, <2>1, <2>2
<1>3. Unreposting(r)' /\ ~ Reposting(r)' /\ ~ PastCopy(r)'
    BY <1>2 DEF Unreposting, Reposting, PastCopy, Writing
<1>4. Mine(r)'
    BY <1>2, <1>3 DEF Mine, Idle, Shuts, Shares
<1>5. Fits(r)'
    BY <1>2, <1>3 DEF Fits, Has, RowsOf
<1>6. Alone(r)'
    BY <1>2 DEF Alone
<1>7. QED
    BY <1>2, <1>4, <1>5, <1>6, Together

LEMMA DelCopyStep ==
    ASSUME Inv, TypeOK', Doing', NEW r \in Requests, DelCopy(r)
    PROVE  Inv'
<1> DEFINE k == CopyKey(job[r])
           m == RepostKey(job[r])
<1>1. /\ pc[r] = "delCopy" /\ job[r].op = "unrepost" /\ Blockers(r) = {}
      /\ Execute(r, {}, RowsOf(k), "commit") /\ Wants(r) = ToDelete(k)
      /\ Unreposting(r) /\ fresh[r] = {}
    BY Parts DEF DelCopy, Wants, Mine, Doing, Unreposting, Reposting, Writing, Execute
<1>2. /\ Tables' /\ Acts(r) /\ Stored' = Stored /\ fresh'[r] = {}
      /\ gone'[r] = gone[r] \union RowsOf(k) /\ held[r] \subseteq held'[r]
      /\ rows' = rows \ RowsOf(k)
      /\ pc'[r] = "commit" /\ job' = job /\ server' = server
      /\ \A x \in RowsOf(k) : x.key = k /\ X(k) \in held'[r]
    BY <1>1, Hidden DEF Acts
<1>3. Unreposting(r)' /\ ~ Reposting(r)' /\ ~ PastCopy(r)'
    BY <1>1, <1>2 DEF Unreposting, Reposting, PastCopy, Writing
<1>4. /\ \A x \in gone[r] : Shuts(r, x.key)' /\ x.key \in {m, k} /\ x \notin rows
      /\ server.repeatableRead => Shares(r, m)' /\ ~ Has(m)
    BY <1>1, <1>2, Parts DEF Mine, Fits, Shuts, Shares
<1>5. Mine(r)'
    BY <1>2, <1>3, <1>4 DEF Mine, Idle, Shuts
<1>6. Fits(r)'
    <2>1. server.repeatableRead => ~ Has(m)'
        BY <1>2, <1>4 DEF Has, RowsOf
    <2>2. \A x \in gone'[r] : x \notin rows'
        BY <1>2, <1>4
    <2>3. QED
        BY <1>2, <1>3, <2>1, <2>2 DEF Fits
<1>7. ASSUME NEW c \in Stored, c.key = k PROVE c \in gone'[r]
    <2>1. CASE c \in rows
        BY <1>2, <1>7, <2>1 DEF RowsOf
    <2>2. ASSUME NEW q \in Requests, c \in gone[q], q # r PROVE FALSE
        <3>1. Shuts(q, k)
            BY <1>7, <2>2 DEF Inv, Mine
        <3>2. X(k) \in Wants(r) \/ S(k) \in Wants(r)
            BY <1>1 DEF ToDelete
        <3>3. QED
            BY <1>1, <2>2, <3>1, <3>2, Granted DEF Shares, Shuts
    <2>3. QED
        BY <1>2, <2>1, <2>2 DEF Stored
<1>8. Alone(r)'
    BY <1>2, <1>7 DEF Alone
<1>9. QED
    BY <1>2, <1>5, <1>6, <1>8, Together

LEMMA DelPostStep ==
    ASSUME Inv, TypeOK', Doing', NEW r \in Requests, DelPost(r)
    PROVE  Inv'
<1> DEFINE k == PostKey(job[r].post)
<1>1. /\ Execute(r, {}, RowsOf(k), "cascade") /\ Wants(r) = ToDelete(k)
      /\ fresh[r] = {} /\ gone[r] = {}
    BY Parts DEF DelPost, Wants, Mine, Idle
<1>2. /\ Tables' /\ Acts(r) /\ Stored' = Stored /\ fresh'[r] = {}
      /\ gone'[r] = RowsOf(k) /\ rows' = rows \ RowsOf(k)
      /\ pc'[r] = "cascade" /\ job' = job
      /\ \A x \in RowsOf(k) : x.key = k /\ X(k) \in held'[r]
    <2>1. /\ Tables' /\ Acts(r) /\ Stored' = Stored /\ fresh'[r] = fresh[r]
          /\ gone'[r] = gone[r] \union RowsOf(k) /\ rows' = rows \ RowsOf(k)
          /\ pc'[r] = "cascade" /\ job' = job
          /\ \A x \in RowsOf(k) : x.key = k /\ X(k) \in held'[r]
        <3>1. Execute(r, {}, RowsOf(k), "cascade") /\ Wants(r) = ToDelete(k)
            BY <1>1
        <3>2. Acts(r)
            BY <3>1, Hidden
        <3>3. QED
            BY <3>1, <3>2, Hidden DEF Acts
    <2>2. gone'[r] = RowsOf(k)
        BY <1>1, <2>1
    <2>3. QED
        BY <1>1, <2>1, <2>2
<1>3. ~ Unreposting(r)' /\ ~ Reposting(r)' /\ ~ PastCopy(r)'
    BY <1>2 DEF Unreposting, Reposting, PastCopy, Writing
<1>4. Mine(r)'
    BY <1>2, <1>3 DEF Mine, Idle, Shuts
<1>5. Fits(r)'
    BY <1>2, <1>3 DEF Fits
<1>6. Alone(r)'
    BY <1>2 DEF Alone
<1>7. QED
    BY <1>2, <1>4, <1>5, <1>6, Together

-----------------------------------------------------------------------------
(* The ends of transactions, and the steps outside of them.                *)

(* A request that is over, or begins again, has to show only that its      *)
(* tables are good.                                                        *)
LEMMA Over ==
    ASSUME Inv, NEW r \in Requests, Acts(r), TypeOK', Doing',
           pc'[r] \in Idle, fresh'[r] = {}, gone'[r] = {}, held'[r] = {},
           Tables', Stored' \subseteq Stored
    PROVE  Inv'
<1>1. Mine(r)' /\ Fits(r)' /\ Alone(r)'
    BY Ended
<1>2. QED
    BY <1>1, Together

LEMMA CommitStep ==
    ASSUME Inv, TypeOK', Doing', NEW r \in Requests, Commit(r) \/ CommitLost(r)
    PROVE  Inv'
<1>1. /\ pc[r] = "commit" /\ Close(r) /\ rows' = rows /\ dropped' = dropped \ Restored(r)
      /\ server' = server /\ job' = job
    BY DEF Commit, CommitLost, request
<1>2. pc'[r] \in Idle /\ \A q \in Requests \ {r} : pc'[q] = pc[q] /\ job'[q] = job[q]
    BY <1>1, Parts DEF Commit, CommitLost, Respond, TypeOK, Idle
<1>3. Acts(r) /\ fresh'[r] = {} /\ gone'[r] = {} /\ held'[r] = {}
    BY <1>1, <1>2, CloseActs, Parts
<1>4. \A q \in Requests \ {r} : fresh'[q] = fresh[q] /\ gone'[q] = gone[q]
    BY <1>3 DEF Acts
<1>5. Tables' /\ Stored' \subseteq Stored
    BY <1>1, <1>3, <1>4, CommitTables
<1>6. QED
    BY <1>2, <1>3, <1>5, Over

LEMMA RollbackStep ==
    ASSUME Inv, TypeOK', Doing', NEW r \in Requests, Refused(r) \/ Victim(r) \/ Abort(r)
    PROVE  Inv'
<1>1. Rollback(r) /\ dropped' = dropped /\ server' = server /\ job' = job
    BY DEF Refused, Victim, Abort, request
<1>2. pc'[r] \in Idle /\ \A q \in Requests \ {r} : pc'[q] = pc[q] /\ job'[q] = job[q]
    BY <1>1, Parts DEF Refused, Victim, Abort, Respond, TypeOK, Idle
<1>3. /\ Acts(r) /\ fresh'[r] = {} /\ gone'[r] = {} /\ held'[r] = {}
      /\ rows' = (rows \ fresh[r]) \union gone[r]
    BY <1>1, <1>2, RollbackActs
<1>4. \A q \in Requests \ {r} : fresh'[q] = fresh[q] /\ gone'[q] = gone[q]
    BY <1>3 DEF Acts
<1>5. Tables' /\ Stored' \subseteq Stored
    BY <1>1, <1>3, <1>4, RollbackTables
<1>6. QED
    BY <1>2, <1>3, <1>5, Over

LEMMA CascadeStep ==
    ASSUME Inv, TypeOK', Doing', NEW r \in Requests, Cascade(r)
    PROVE  Inv'
<1> DEFINE hung == ChildKeys(job[r].post)
<1>1. /\ pc[r] = "cascade" /\ Blockers(r) = {} /\ Close(r) /\ server' = server /\ job' = job
      /\ rows' = {x \in rows : x.key \notin hung}
    BY DEF Cascade, CascadesTo, request
<1>2. pc'[r] \in Idle /\ \A q \in Requests \ {r} : pc'[q] = pc[q] /\ job'[q] = job[q]
    BY <1>1, Parts DEF Cascade, Respond, TypeOK, Idle
<1>3. \A k \in hung : X(k) \in Wants(r)
    BY <1>1 DEF Wants
<1> HIDE DEF hung
<1>4. \A q \in Requests \ {r} : \A x : Shares(q, x.key) => (x \in rows' <=> x \in rows)
    BY <1>1, <1>3, Granted
<1>5. Acts(r) /\ fresh'[r] = {} /\ gone'[r] = {} /\ held'[r] = {}
    BY <1>1, <1>2, <1>4, CloseActs, Parts
<1>6. Tables' /\ Stored' \subseteq Stored
    BY CascadeTables
<1>7. QED
    BY <1>2, <1>5, <1>6, Over

LEMMA DropStep ==
    ASSUME Inv, TypeOK', Doing', NEW r \in Requests, DropCopy(r)
    PROVE  Inv'
<1>1. pc[r] = "dropCopy" /\ UNCHANGED <<fresh, gone, held>> /\ pc'[r] \in Idle
    BY Parts DEF DropCopy, Respond, TypeOK, Idle
<1>2. fresh'[r] = {} /\ gone'[r] = {} /\ held'[r] = {}
    BY <1>1, Parts DEF Mine, Idle
<1>3. Tables' /\ Stored' \subseteq Stored /\ Acts(r)
    BY DropTables
<1>4. QED
    BY <1>1, <1>2, <1>3, Over

(* Steps that touch no table, from an idle statement to an idle one.       *)
LEMMA QuietStep ==
    ASSUME Inv, TypeOK', Doing', NEW r \in Requests,
           \/ \E j \in Jobs : Start(r, j)
           \/ Lookup(r) \/ LookupFails(r) \/ Count(r) \/ CountFails(r) \/ NotFound(r)
    PROVE  Inv'
<1>1. /\ UNCHANGED <<server, rows, fresh, gone, held, dropped>>
      /\ pc[r] \in Idle
      /\ \A q \in Requests \ {r} : job'[q] = job[q] /\ pc'[q] = pc[q]
    <2>1. CASE \E j \in Jobs : Start(r, j)
        BY <2>1, Parts DEF Start, tables, Idle, TypeOK
    <2>2. CASE Lookup(r) \/ LookupFails(r)
        BY <2>2, Parts DEF Lookup, LookupFails, Respond, tables, request, Idle, TypeOK
    <2>3. CASE Count(r) \/ CountFails(r)
        BY <2>3, Parts DEF Count, CountFails, Respond, tables, request, Idle, TypeOK
    <2>4. CASE NotFound(r)
        BY <2>4, Parts DEF NotFound, Respond, tables, request, Idle, TypeOK
    <2>5. QED
        BY <2>1, <2>2, <2>3, <2>4
<1>2. pc'[r] \in Idle
    <2>1. ASSUME NEW j \in Jobs, Start(r, j) PROVE pc'[r] \in Idle
        <3>1. j.op \in {"repost", "unrepost", "deletePost", "deleteCopy"}
            BY JobOps
        <3>2. QED
            BY <2>1, <3>1, Parts DEF Start, Idle, TypeOK
    <2>2. CASE Lookup(r) \/ LookupFails(r)
        BY <2>2, Parts DEF Lookup, LookupFails, Respond, Idle, TypeOK
    <2>3. CASE Count(r) \/ CountFails(r) \/ NotFound(r)
        BY <2>3, Parts DEF Count, CountFails, NotFound, Respond, Idle, TypeOK
    <2>4. QED
        BY <2>1, <2>2, <2>3
<1>3. fresh[r] = {} /\ gone[r] = {} /\ held[r] = {}
    BY <1>1, Parts DEF Mine
<1>4. Acts(r)
    BY <1>1, <1>3 DEF Acts
<1>5. Stored' = Stored
    BY <1>1 DEF Stored
<1>6. Tables'
    BY <1>1, <1>5, TablesKept, Parts
<1>7. QED
    BY <1>1, <1>2, <1>3, <1>4, <1>5, <1>6, Over

-----------------------------------------------------------------------------
(* The invariant.                                                          *)

LEMMA InvInit == Init => Inv
<1> SUFFICES ASSUME Init PROVE Inv
    OBVIOUS
<1>1. TypeOK /\ Doing
    BY TypeInit
<1>2. \A q \in Requests : pc[q] = "new" /\ fresh[q] = {} /\ gone[q] = {} /\ held[q] = {}
    BY DEF Init
<1>3. Stored = rows /\ Fresh = {}
    BY <1>2 DEF Stored, Fresh
<1>4. Exclusive
    BY <1>2 DEF Exclusive, Shuts
<1>5. ASSUME NEW q \in Requests PROVE Mine(q) /\ Fits(q) /\ Alone(q)
    <2>1. ~ Reposting(q) /\ ~ PastCopy(q) /\ ~ Unreposting(q) /\ pc[q] \in Idle
        BY <1>2 DEF Reposting, PastCopy, Unreposting, Writing, Idle
    <2>2. QED
        BY <1>2, <2>1 DEF Mine, Fits, Alone
<1>6. dropped \subseteq Pairs
    BY <1>1 DEF TypeOK
<1>7. \A x \in Stored : \/ \E p \in Posts : x.key = PostKey(p) /\ x = Row(PostKey(p), None)
                       \/ \E j \in dropped : x.key = RepostKey(j) /\ x = Row(RepostKey(j), None)
    BY <1>3, RowsApart DEF Init
<1>8. Unique
    <2>1. SUFFICES ASSUME NEW x \in Stored PROVE x = Row(x.key, None)
        BY DEF Unique
    <2>2. QED
        BY <1>7
<1>9. Rooted
    <2>1. SUFFICES ASSUME NEW j \in Pairs, NEW x \in Stored, x.key \in KeysOf(j)
                   PROVE  \E y \in Stored : y.key = PostKey(j.post)
        BY DEF Rooted
    <2>2. j.post \in Posts
        BY DEF Pairs
    <2>3. Row(PostKey(j.post), None) \in Stored
        BY <1>3, <2>2 DEF Init
    <2>4. QED
        BY <2>3, RowsApart
<1>10. Paired
    BY <1>7, KeyKinds DEF Paired
<1>11. Shown
    <2>1. SUFFICES ASSUME NEW j \in Pairs, NEW x \in Stored, x.key = RepostKey(j)
                   PROVE  j \in dropped
        BY DEF Shown
    <2>2. PICK i \in dropped : RepostKey(i) = RepostKey(j)
        BY <1>7, <2>1, KeyKinds
    <2>3. i.user = j.user /\ i.post = j.post
        BY <2>2, KeyKinds
    <2>4. i = j
        BY <1>6, <2>1, <2>3 DEF Pairs
    <2>5. QED
        BY <2>4
<1>12. QED
    BY <1>1, <1>4, <1>5, <1>8, <1>9, <1>10, <1>11 DEF Inv, Tables

LEMMA InvStep == Inv /\ [Next]_vars => Inv'
<1> SUFFICES ASSUME Inv, [Next]_vars PROVE Inv'
    OBVIOUS
<1>1. TypeOK' /\ Doing'
    BY TypeStep DEF Inv
<1>2. ASSUME NEW r \in Requests, RepostStep(r) PROVE Inv'
    BY <1>1, <1>2, QuietStep, InsRepostStep, SeekCopyStep, InsCopyStep, SeekNoteStep,
       InsNoteStep, RollbackStep DEF RepostStep
<1>3. ASSUME NEW r \in Requests, Step(r) PROVE Inv'
    BY <1>1, <1>2, <1>3, CommitStep, QuietStep, DelRepostStep, DelCopyStep, DelPostStep,
       CascadeStep, DropStep, RollbackStep DEF Step
<1>4. ASSUME NEW r \in Requests,
             \/ \E j \in Jobs : Start(r, j)
             \/ LookupFails(r) \/ CommitLost(r) \/ CountFails(r) \/ Abort(r)
      PROVE  Inv'
    BY <1>1, <1>4, QuietStep, CommitStep, RollbackStep
<1>5. CASE UNCHANGED vars
    <2>1. UNCHANGED <<server, job, pc, rows, fresh, gone, held, dropped>>
        BY <1>5 DEF vars, request, tables
    <2>2. Stored' = Stored
        BY <2>1 DEF Stored
    <2>3. Tables'
        BY <2>1, <2>2, TablesKept DEF Inv
    <2>4. Exclusive'
        BY <2>1 DEF Inv, Exclusive, Shuts, Shares
    <2>5. ASSUME NEW q \in Requests PROVE Mine(q)' /\ Fits(q)' /\ Alone(q)'
        <3>1. Mine(q) /\ Fits(q) /\ Alone(q)
            BY DEF Inv
        <3>2. Mine(q)'
            BY <2>1, <3>1 DEF Mine, Reposting, PastCopy, Unreposting, OwnRepost, OwnCopy, OwnNote,
                              Shares, Shuts
        <3>3. Fits(q)'
            BY <2>1, <3>1 DEF Fits, Reposting, PastCopy, Unreposting, Has, RowsOf
        <3>4. Alone(q)'
            BY <2>1, <2>2, <3>1 DEF Alone
        <3>5. QED
            BY <3>2, <3>3, <3>4
    <2>6. QED
        BY <1>1, <2>3, <2>4, <2>5 DEF Inv
<1>6. QED
    BY <1>3, <1>4, <1>5 DEF Next

(* What the locks and the order of the statements keep true.               *)
THEOREM RepostInvariant == Spec => []Inv
<1>1. QED
    BY InvInit, InvStep, PTL DEF Spec

LEMMA CommittedIs == Committed = Stored \ Fresh
BY DEF Committed, Stored, Fresh

(* There is never a second committed row of a repost, a copy, a            *)
(* notification or a post, however the requests interleave: the NOT EXISTS *)
(* of insertNotificationOnce stands behind the lock of the repost's row.   *)
THEOREM EachOnce == Spec => []OneOfEach
<1>1. ASSUME Inv PROVE OneOfEach
    <2>1. SUFFICES ASSUME NEW k PROVE Cardinality(CommittedRows(k)) =< 1
        BY DEF OneOfEach
    <2>2. \A x, y \in CommittedRows(k) : x = y
        BY <1>1, CommittedIs DEF CommittedRows, Inv, Tables, Unique
    <2>3. CASE CommittedRows(k) = {}
        BY <2>3, FS_EmptySet
    <2>4. CASE CommittedRows(k) # {}
        <3>1. PICK x : CommittedRows(k) = {x}
            BY <2>2, <2>4
        <3>2. Cardinality({x}) = 1
            BY FS_Singleton
        <3>3. QED
            BY <3>1, <3>2
    <2>5. QED
        BY <2>3, <2>4
<1>2. QED
    BY <1>1, RepostInvariant, PTL

(* What is committed hangs on posts that are committed.                    *)
THEOREM NothingHangs == Spec => []NoOrphans
<1>1. ASSUME Inv PROVE NoOrphans
    <2>1. SUFFICES ASSUME NEW j \in Pairs, NEW x \in Committed, x.key \in KeysOf(j)
                   PROVE  \E y \in Committed : y.key = PostKey(j.post)
        BY DEF NoOrphans, CommittedRows
    <2>2. PICK y \in Stored : y.key = PostKey(j.post)
        BY <1>1, <2>1, CommittedIs DEF Inv, Tables, Rooted
    <2>3. ASSUME NEW q \in Requests, y \in fresh[q] PROVE FALSE
        BY <1>1, <2>2, <2>3, KeyKinds, RowsApart DEF Inv, Mine, OwnRepost, OwnCopy, OwnNote
    <2>4. QED
        BY <2>2, <2>3, CommittedIs DEF Fresh
<1>2. QED
    BY <1>1, RepostInvariant, PTL

(* Every committed copy has its committed row of reposts.                  *)
THEOREM CopiesHaveReposts == Spec => []NoStrandedCopy
<1>1. ASSUME Inv PROVE NoStrandedCopy
    <2>1. SUFFICES ASSUME NEW j \in Pairs, NEW c \in Committed, c.key = CopyKey(j)
                   PROVE  \E y \in Committed : y.key = RepostKey(j)
        BY DEF NoStrandedCopy, CommittedRows
    <2>2. PICK y \in Stored : y.key = RepostKey(j)
        BY <1>1, <2>1, CommittedIs DEF Inv, Tables, Paired
    <2>3. ASSUME NEW q \in Requests, y \in fresh[q] PROVE FALSE
        BY <1>1, <2>1, <2>2, <2>3, CommittedIs DEF Inv, Tables, Paired, Fresh
    <2>4. QED
        BY <2>2, <2>3, CommittedIs DEF Fresh
<1>2. QED
    BY <1>1, RepostInvariant, PTL

(* Every committed row of reposts has its copy on the timeline, unless the *)
(* user deleted that copy, under REPEATABLE READ.                          *)
THEOREM RepostsHaveCopies == Spec => []RepostShown
<1>1. ASSUME Inv PROVE RepostShown
    BY <1>1, CommittedIs DEF RepostShown, CommittedRows, Inv, Tables, Shown
<1>2. QED
    BY <1>1, RepostInvariant, PTL

-----------------------------------------------------------------------------
(* The notification and its repost.                                        *)

(* Whose uncommitted rows they are can be read off the rows.               *)
LEMMA FreshBy ==
    ASSUME Inv, NEW q \in Requests, NEW x \in fresh[q]
    PROVE  x.by = q
BY RowsApart DEF Inv, Mine, OwnRepost, OwnCopy, OwnNote

(* What a step adds is not committed, but for the rows of a transaction    *)
(* that commits; nothing else leaves the rows that are not committed.      *)
LEMMA Arrivals ==
    ASSUME TypeOK, [Next]_vars
    PROVE  /\ \A x \in Stored' : x \in Stored \/ \E q \in Requests : x \in fresh'[q]
           /\ \A q \in Requests : \/ fresh[q] \subseteq fresh'[q]
                                  \/ Commit(q) \/ CommitLost(q) \/ Rollback(q) \/ Cascade(q)
<1> DEFINE Good ==
        /\ \A x \in rows' : x \in Stored \/ \E q \in Requests : x \in fresh'[q]
        /\ \A q \in Requests : \A x \in gone'[q] : x \in Stored
        /\ \A q \in Requests : \/ fresh[q] \subseteq fresh'[q]
                               \/ Commit(q) \/ CommitLost(q) \/ Rollback(q) \/ Cascade(q)
<1>1. SUFFICES Good
    <2>1. \A x \in Stored' : x \in rows' \/ \E q \in Requests : x \in gone'[q]
        BY DEF Stored
    <2>2. QED
        BY <2>1
<1>2. ASSUME NEW r \in Requests, NEW ins, NEW del, NEW next, Execute(r, ins, del, next),
             \A x \in del : x \in rows
      PROVE  Good
    <2>1. /\ rows' = (rows \ del) \union ins
          /\ fresh'[r] = fresh[r] \union ins /\ gone'[r] = gone[r] \union del
          /\ \A q \in Requests \ {r} : fresh'[q] = fresh[q] /\ gone'[q] = gone[q]
        BY <1>2 DEF Execute, TypeOK
    <2>2. QED
        BY <1>2, <2>1 DEF Stored
<1>3. ASSUME NEW r \in Requests, Close(r), \A x \in rows' : x \in Stored,
             Commit(r) \/ CommitLost(r) \/ Rollback(r) \/ Cascade(r)
      PROVE  Good
    <2>1. /\ gone'[r] = {}
          /\ \A q \in Requests \ {r} : fresh'[q] = fresh[q] /\ gone'[q] = gone[q]
        BY <1>3 DEF Close, TypeOK
    <2> HIDE DEF Commit, CommitLost, Rollback, Cascade
    <2>2. QED
        BY <1>3, <2>1 DEF Stored
<1>4. ASSUME fresh' = fresh, gone' = gone, rows' \subseteq rows PROVE Good
    BY <1>4 DEF Stored
<1>5. \A k : RowsOf(k) \subseteq rows /\ \A x \in {} : x \in rows
    BY DEF RowsOf
<1> HIDE DEF Good
<1>6. ASSUME NEW r \in Requests, RepostStep(r) PROVE Good
    <2>1. CASE Lookup(r)
        BY <1>4, <2>1 DEF Lookup, tables
    <2>2. CASE InsRepost(r) \/ SeekCopy(r) \/ InsCopy(r) \/ SeekNote(r) \/ InsNote(r)
        <3>1. \E ins, next : Execute(r, ins, {}, next)
            BY <2>2 DEF InsRepost, SeekCopy, InsCopy, SeekNote, InsNote
        <3>2. QED
            BY <1>2, <3>1
    <2>3. CASE Refused(r)
        BY <1>3, <2>3 DEF Refused, Rollback, Stored
    <2>4. QED
        BY <1>6, <2>1, <2>2, <2>3 DEF RepostStep
<1>7. ASSUME NEW r \in Requests,
             DelRepost(r) \/ DelCopy(r) \/ DelPost(r)
      PROVE  Good
    <2>1. \E k, next : Execute(r, {}, RowsOf(k), next)
        BY <1>7 DEF DelRepost, DelCopy, DelPost
    <2>2. QED
        BY <1>2, <1>5, <2>1
<1>8. ASSUME NEW r \in Requests, Victim(r) \/ Abort(r) PROVE Good
    BY <1>3, <1>8 DEF Victim, Abort, Rollback, Stored
<1>9. ASSUME NEW r \in Requests, Commit(r) \/ CommitLost(r) \/ Cascade(r) PROVE Good
    <2>1. Close(r) /\ rows' \subseteq rows
        BY <1>9 DEF Commit, CommitLost, Cascade
    <2>2. QED
        BY <1>3, <1>9, <2>1 DEF Stored
<1>10. ASSUME NEW r \in Requests,
              \/ \E j \in Jobs : Start(r, j)
              \/ LookupFails(r) \/ Count(r) \/ CountFails(r) \/ DropCopy(r) \/ NotFound(r)
       PROVE  Good
    BY <1>4, <1>10 DEF Start, LookupFails, Count, CountFails, DropCopy, NotFound, tables
<1>11. CASE UNCHANGED vars
    BY <1>4, <1>11 DEF vars, tables
<1>12. QED
    BY <1>6, <1>7, <1>8, <1>9, <1>10, <1>11 DEF Next, Step

LEMMA TogetherStep ==
    ASSUME Inv, Inv', [Next]_vars, NEW r \in Requests,
           OwnNote(r) \in Committed', OwnNote(r) \notin Committed
    PROVE  OwnRepost(r) \in Committed' /\ OwnRepost(r) \notin Committed
<1> DEFINE note == Row(NoteKey(job[r]), r)
           repost == Row(RepostKey(job[r]), r)
<1>1. /\ note.by = r /\ repost.by = r /\ note = OwnNote(r) /\ repost = OwnRepost(r)
      /\ \A p : note.key # PostKey(p)
    BY RowsApart, KeyKinds DEF OwnNote, OwnRepost
<1>2. Committed' = Stored' \ Fresh'
    BY DEF Committed, Stored, Fresh
<1> HIDE DEF note, repost
<1>3. \A q \in Requests : note \notin fresh'[q]
    BY <1>1, <1>2 DEF Fresh
<1>4. note \in Stored /\ note \in Stored'
    BY <1>1, <1>2, <1>3, Arrivals, Parts
<1>5. note \in fresh[r]
    <2>1. PICK q \in Requests : note \in fresh[q]
        BY <1>1, <1>4, CommittedIs DEF Fresh
    <2>2. QED
        BY <1>1, <2>1, FreshBy
<1>6. repost \in fresh[r] /\ repost \in rows /\ note \in rows
    BY <1>1, <1>5, Parts DEF Mine, Fits
<1>7. Commit(r) \/ CommitLost(r) \/ Rollback(r) \/ Cascade(r)
    BY <1>3, <1>5, Arrivals, Parts
<1>8. ~ Rollback(r)
    <2>1. SUFFICES ASSUME Rollback(r) PROVE FALSE
        OBVIOUS
    <2>2. /\ rows' = (rows \ fresh[r]) \union gone[r] /\ gone'[r] = {}
          /\ \A q \in Requests \ {r} : gone'[q] = gone[q]
        BY <2>1, Parts DEF Rollback, Close, TypeOK
    <2>3. \A q \in Requests : note \notin gone[q]
        BY <1>6 DEF Inv, Fits
    <2>4. QED
        BY <1>4, <1>5, <2>2, <2>3 DEF Stored
<1>9. ~ Cascade(r)
    BY <1>5, Parts DEF Cascade, Mine, Reposting, Writing
<1>10. rows' = rows /\ fresh'[r] = {} /\ \A q \in Requests \ {r} : fresh'[q] = fresh[q]
    BY <1>7, <1>8, <1>9, Parts DEF Commit, CommitLost, Close, TypeOK
<1>11. \A q \in Requests : repost \notin fresh'[q]
    BY <1>1, <1>10, FreshBy
<1>12. repost \in Stored' /\ repost \in Fresh
    BY <1>6, <1>10 DEF Stored, Fresh
<1>13. QED
    BY <1>1, <1>2, <1>11, <1>12, CommittedIs DEF Fresh

(* The notification of a repost is committed in the step that commits the  *)
(* repost, and in no other.                                                *)
THEOREM WithItsRepost == Spec => CommittedTogether
<1>1. ASSUME Inv, Inv', [Next]_vars
      PROVE  [\A r \in Requests :
                LET note == Row(NoteKey(job[r]), r)
                    repost == Row(RepostKey(job[r]), r)
                IN  job[r] # None /\ note \in Committed' \ Committed
                        => repost \in Committed' \ Committed]_vars
    BY <1>1, TogetherStep DEF OwnNote, OwnRepost
<1>2. QED
    BY <1>1, RepostInvariant, PTL DEF Spec, CommittedTogether

-----------------------------------------------------------------------------
(* Every step is a step forward.                                           *)

Place(statement) == CHOOSE i \in DOMAIN Course : Course[i] = statement

LEMMA Places ==
    ASSUME NEW i \in 1 .. 15, NEW statement, Course[i] = statement
    PROVE  Place(statement) = i
<1>1. DOMAIN Course = 1 .. 15
    BY DEF Course
<1>2. \A j \in 1 .. 15 : Course[j] = Course[i] => j = i
    BY DEF Course
<1> HIDE DEF Course
<1>3. QED
    BY <1>1, <1>2 DEF Place

LEMMA InOrder ==
    /\ Place("new") = 1 /\ Place("lookup") = 2 /\ Place("insRepost") = 3
    /\ Place("seekCopy") = 4 /\ Place("insCopy") = 5 /\ Place("seekNote") = 6
    /\ Place("insNote") = 7 /\ Place("delRepost") = 8 /\ Place("delCopy") = 9
    /\ Place("delPost") = 10 /\ Place("cascade") = 11 /\ Place("dropCopy") = 12
    /\ Place("commit") = 13 /\ Place("count") = 14 /\ Place("done") = 15
<1>1. /\ Course[1] = "new" /\ Course[2] = "lookup" /\ Course[3] = "insRepost"
      /\ Course[4] = "seekCopy" /\ Course[5] = "insCopy" /\ Course[6] = "seekNote"
      /\ Course[7] = "insNote" /\ Course[8] = "delRepost" /\ Course[9] = "delCopy"
      /\ Course[10] = "delPost" /\ Course[11] = "cascade" /\ Course[12] = "dropCopy"
      /\ Course[13] = "commit" /\ Course[14] = "count" /\ Course[15] = "done"
    BY DEF Course
<1> HIDE DEF Course
<1>2. QED
    BY <1>1, Places

(* The request that goes from one statement to a later one.                *)
LEMMA Moves ==
    ASSUME TypeOK, NEW r \in Requests, NEW next, pc' = [pc EXCEPT ![r] = next],
           \/ attempt' = attempt /\ Place(next) > Place(pc[r])
           \/ attempt[r] = 1 /\ attempt' = [attempt EXCEPT ![r] = 2]
    PROVE  /\ \/ attempt'[r] > attempt[r]
              \/ attempt'[r] = attempt[r] /\ Place(pc'[r]) > Place(pc[r])
           /\ \A q \in Requests \ {r} : pc'[q] = pc[q] /\ attempt'[q] = attempt[q]
<1>1. pc'[r] = next /\ \A q \in Requests \ {r} : pc'[q] = pc[q]
    BY DEF TypeOK
<1>2. CASE attempt' = attempt /\ Place(next) > Place(pc[r])
    BY <1>1, <1>2
<1>3. CASE attempt[r] = 1 /\ attempt' = [attempt EXCEPT ![r] = 2]
    <2>1. attempt'[r] = 2 /\ \A q \in Requests \ {r} : attempt'[q] = attempt[q]
        BY <1>3 DEF TypeOK
    <2>2. QED
        BY <1>1, <1>3, <2>1
<1>4. QED
    BY <1>2, <1>3

LEMMA ForwardStep ==
    ASSUME TypeOK, Doing, NEW r \in Requests,
           \/ \E j \in Jobs : Start(r, j)
           \/ Step(r) \/ LookupFails(r) \/ CommitLost(r) \/ CountFails(r) \/ Abort(r)
    PROVE  \E next : /\ pc' = [pc EXCEPT ![r] = next]
                     /\ \/ attempt' = attempt /\ Place(next) > Place(pc[r])
                        \/ attempt[r] = 1 /\ attempt' = [attempt EXCEPT ![r] = 2]
<1> DEFINE Goes(next) == /\ pc' = [pc EXCEPT ![r] = next]
                         /\ \/ attempt' = attempt /\ Place(next) > Place(pc[r])
                            \/ attempt[r] = 1 /\ attempt' = [attempt EXCEPT ![r] = 2]
<1>1. ASSUME NEW j \in Jobs, Start(r, j) PROVE \E next : Goes(next)
    <2> DEFINE first == CASE j.op = "repost" -> "lookup" [] j.op = "unrepost" -> "delRepost"
                          [] j.op = "deletePost" -> "delPost" [] j.op = "deleteCopy" -> "dropCopy"
    <2>1. j.op \in {"repost", "unrepost", "deletePost", "deleteCopy"}
        BY JobOps
    <2>2. first \in {"lookup", "delRepost", "delPost", "dropCopy"}
        BY <2>1
    <2>3. pc[r] = "new" /\ pc' = [pc EXCEPT ![r] = first] /\ attempt' = attempt
        BY <1>1 DEF Start
    <2> HIDE DEF first
    <2>4. Place(first) > Place(pc[r])
        BY <2>2, <2>3, InOrder
    <2>5. QED
        BY <2>3, <2>4
<1>2. ASSUME NEW ins, NEW del, NEW next, Execute(r, ins, del, next), Place(next) > Place(pc[r])
      PROVE  \E n : Goes(n)
    BY <1>2 DEF Execute, request
<1>3. ASSUME NEW status, Respond(r, status), attempt' = attempt, pc[r] \in Statements \union {"lookup", "count"}
      PROVE  \E next : Goes(next)
    <2>1. Place("done") > Place(pc[r])
        BY <1>3, InOrder DEF Statements
    <2>2. QED
        BY <1>3, <2>1 DEF Respond
<1>4. ASSUME NEW next, pc' = [pc EXCEPT ![r] = next], attempt' = attempt, Place(next) > Place(pc[r])
      PROVE  \E n : Goes(n)
    BY <1>4
<1> SUFFICES \E next : Goes(next)
    OBVIOUS
<1> HIDE DEF Goes
<1>5. AfterCopy(r) \in {"seekNote", "commit"}
    BY DEF AfterCopy
<1>6. CASE InsRepost(r)
    <2>1. pc[r] = "insRepost" /\ \E ins, del : Execute(r, ins, del, "seekCopy")
        BY <1>6 DEF InsRepost
    <2>2. Place("seekCopy") > Place(pc[r])
        BY <2>1, InOrder
    <2>3. QED
        BY <1>2, <2>1, <2>2
<1>7. CASE SeekCopy(r)
    <2>1. PICK next \in {"insCopy", AfterCopy(r)} : Execute(r, {}, {}, next)
        BY <1>7 DEF SeekCopy
    <2>2. pc[r] = "seekCopy"
        BY <1>7 DEF SeekCopy
    <2>3. Place(next) > Place(pc[r])
        BY <1>5, <2>1, <2>2, InOrder
    <2>4. QED
        BY <1>2, <2>1, <2>3
<1>8. CASE InsCopy(r)
    <2>1. PICK ins : Execute(r, ins, {}, AfterCopy(r))
        BY <1>8 DEF InsCopy
    <2>2. pc[r] = "insCopy"
        BY <1>8 DEF InsCopy
    <2>3. Place(AfterCopy(r)) > Place(pc[r])
        BY <1>5, <2>2, InOrder
    <2>4. QED
        BY <1>2, <2>1, <2>3
<1>9. CASE SeekNote(r)
    <2>1. PICK next \in {"insNote", "commit"} : Execute(r, {}, {}, next)
        BY <1>9 DEF SeekNote
    <2>2. pc[r] = "seekNote"
        BY <1>9 DEF SeekNote
    <2>3. Place(next) > Place(pc[r])
        BY <2>1, <2>2, InOrder
    <2>4. QED
        BY <1>2, <2>1, <2>3
<1>10. CASE InsNote(r)
    <2>1. pc[r] = "insNote" /\ \E ins, del : Execute(r, ins, del, "commit")
        BY <1>10 DEF InsNote
    <2>2. Place("commit") > Place(pc[r])
        BY <2>1, InOrder
    <2>3. QED
        BY <1>2, <2>1, <2>2
<1>11. CASE DelRepost(r)
    <2>1. pc[r] = "delRepost" /\ \E ins, del : Execute(r, ins, del, "delCopy")
        BY <1>11 DEF DelRepost
    <2>2. Place("delCopy") > Place(pc[r])
        BY <2>1, InOrder
    <2>3. QED
        BY <1>2, <2>1, <2>2
<1>12. CASE DelCopy(r)
    <2>1. pc[r] = "delCopy" /\ \E ins, del : Execute(r, ins, del, "commit")
        BY <1>12 DEF DelCopy
    <2>2. Place("commit") > Place(pc[r])
        BY <2>1, InOrder
    <2>3. QED
        BY <1>2, <2>1, <2>2
<1>13. CASE DelPost(r)
    <2>1. pc[r] = "delPost" /\ \E ins, del : Execute(r, ins, del, "cascade")
        BY <1>13 DEF DelPost
    <2>2. Place("cascade") > Place(pc[r])
        BY <2>1, InOrder
    <2>3. QED
        BY <1>2, <2>1, <2>2
<1>14. CASE Lookup(r)
    <2>1. CASE pc' = [pc EXCEPT ![r] = "insRepost"]
        <3>1. pc[r] = "lookup" /\ attempt' = attempt
            BY <1>14 DEF Lookup, request
        <3>2. Place("insRepost") > Place(pc[r])
            BY <3>1, InOrder
        <3>3. QED
            BY <1>4, <2>1, <3>1, <3>2
    <2>2. CASE Respond(r, 404)
        BY <1>3, <1>14, <2>2 DEF Lookup, request
    <2>3. QED
        BY <1>14, <2>1, <2>2 DEF Lookup
<1>15. CASE Commit(r)
    <2>1. pc[r] = "commit" /\ pc' = [pc EXCEPT ![r] = "count"] /\ attempt' = attempt
        BY <1>15 DEF Commit, request
    <2>2. Place("count") > Place(pc[r])
        BY <2>1, InOrder
    <2>3. QED
        BY <1>4, <2>1, <2>2
<1>16. CASE Victim(r)
    <2>1. CASE Retries(r)
        BY <1>16, <2>1 DEF Victim, Retries, Goes
    <2>2. CASE ~ Retries(r)
        BY <1>3, <1>16, <2>2 DEF Victim
    <2>3. QED
        BY <2>1, <2>2
<1>17. CASE Refused(r) \/ Count(r) \/ Cascade(r) \/ DropCopy(r) \/ NotFound(r)
            \/ LookupFails(r) \/ CommitLost(r) \/ CountFails(r) \/ Abort(r)
    BY <1>3, <1>17
    DEF Refused, LookupFails, Count, Cascade, DropCopy, NotFound, CommitLost, CountFails, Abort,
        request, Statements
<1>18. QED
    BY <1>1, <1>6, <1>7, <1>8, <1>9, <1>10, <1>11, <1>12, <1>13, <1>14, <1>15, <1>16, <1>17
    DEF Step, RepostStep

(* No request goes back to an earlier statement but for its one retry: no  *)
(* request runs for ever, whatever the locks and failures.                 *)
THEOREM NoRequestForever == Spec => OnlyForward
<1>1. ASSUME TypeOK, Doing, [Next]_vars
      PROVE  [\E r \in Requests :
                /\ \/ attempt'[r] > attempt[r]
                   \/ attempt'[r] = attempt[r] /\ Place(pc'[r]) > Place(pc[r])
                /\ \A q \in Requests \ {r} : pc'[q] = pc[q] /\ attempt'[q] = attempt[q]]_vars
    <2>1. CASE UNCHANGED vars
        BY <2>1
    <2>2. CASE ~ UNCHANGED vars
        <3>1. PICK r \in Requests : \/ \E j \in Jobs : Start(r, j)
                                    \/ Step(r) \/ LookupFails(r) \/ CommitLost(r)
                                    \/ CountFails(r) \/ Abort(r)
            BY <1>1, <2>2 DEF Next
        <3>2. PICK next : /\ pc' = [pc EXCEPT ![r] = next]
                          /\ \/ attempt' = attempt /\ Place(next) > Place(pc[r])
                             \/ attempt[r] = 1 /\ attempt' = [attempt EXCEPT ![r] = 2]
            BY <1>1, <3>1, ForwardStep
        <3>3. /\ \/ attempt'[r] > attempt[r]
                 \/ attempt'[r] = attempt[r] /\ Place(pc'[r]) > Place(pc[r])
              /\ \A q \in Requests \ {r} : pc'[q] = pc[q] /\ attempt'[q] = attempt[q]
            BY <1>1, <3>2, Moves
        <3>4. QED
            BY <3>3
    <2>3. QED
        BY <2>1, <2>2
<1>2. QED
    BY <1>1, RepostTyping, PTL DEF Spec, OnlyForward, Place

-----------------------------------------------------------------------------
(* Induction over the natural numbers, for a set.                          *)
LEMMA NatInduct ==
    ASSUME NEW T, \A n \in Nat : (\A m \in 0 .. n - 1 : m \in T) => n \in T
    PROVE  \A n \in Nat : n \in T
<1> SUFFICES ASSUME Nat \ T # {} PROVE FALSE
    OBVIOUS
<1> DEFINE R == {e \in Nat \X Nat : e[1] < e[2]}
<1>1. IsWellFoundedOn(R, Nat)
    BY NatLessThanWellFounded DEF OpToRel
<1>2. PICK x \in Nat \ T : \A y \in Nat \ T : ~ (<<y, x>> \in R)
    <2> HIDE DEF R
    <2> QED
        BY <1>1, WFMin
<1>3. \A m \in 0 .. x - 1 : m \in Nat /\ <<m, x>> \in R
    OBVIOUS
<1>4. \A m \in 0 .. x - 1 : m \in T
    <2> HIDE DEF R
    <2>1. QED
        BY <1>2, <1>3
<1>5. QED
    BY <1>4

(* Reposts of one pair alone: nobody is in a deadlock.  Who has inserted   *)
(* the row of reposts leads until it commits, and is alone with it: the    *)
(* others wait for that row and hold nothing meanwhile, so the leader      *)
(* waits for nobody.  When they go on there is a copy, and nothing is left *)
(* for them to insert.                                                     *)
Leads(r) == OwnRepost(r) \in fresh[r]

OnlyLeaderShuts(r) == \A k \in Keys : Shuts(r, k) => Leads(r)

(* The repost of j has its copy, or a leader that will see to it.          *)
CopyOrLeader(j) ==
    \/ \E c \in rows \ Fresh : c.key = CopyKey(j)
    \/ \E r \in Requests : Row(RepostKey(j), r) \in fresh[r]

AtPeace(r) ==
    /\ answer[r] # 500
    /\ pc[r] = "insCopy" => Leads(r)
    /\ PastCopy(r) => Has(CopyKey(job[r]))
    /\ OnlyLeaderShuts(r)

PeaceInv ==
    /\ \A r \in Requests : pc[r] = "new" => job[r] = None
    /\ Burst =>
        /\ \A p \in Posts : Has(PostKey(p))
        /\ \A j \in Pairs :
            Has(RepostKey(j)) /\ Row(RepostKey(j), None) \notin rows => CopyOrLeader(j)
        /\ \A r \in Requests : AtPeace(r)

(* Who waits only for those that wait for nobody is in no deadlock.        *)
LEMMA NoDeadlock ==
    ASSUME NEW r, r \in Requests, \A q \in Blockers(r) : Blockers(q) = {}
    PROVE  ~ Deadlocked(r)
<1> DEFINE E(f) == f = [n \in Nat |-> IF n = 0 THEN Blockers(r)
                            ELSE f[n - 1] \union UNION {Blockers(q) : q \in f[n - 1]}]
           same == [n \in Nat |-> Blockers(r)]
           f == CHOOSE f : E(f)
           T == {n \in Nat : f[n] = Blockers(r)}
<1>1. UNION {Blockers(q) : q \in Blockers(r)} = {}
    OBVIOUS
<1>2. E(same)
    <2>1. \A n \in Nat : n # 0 => n - 1 \in Nat
        OBVIOUS
    <2>2. \A n \in Nat : n # 0 =>
              same[n - 1] \union UNION {Blockers(q) : q \in same[n - 1]} = Blockers(r)
        BY <1>1, <2>1
    <2>3. QED
        BY <2>2
<1>3. E(f)
    <2> HIDE DEF E, same
    <2>1. QED
        BY <1>2
<1>4. ASSUME NEW n \in Nat, \A m \in 0 .. n - 1 : m \in T
      PROVE  n \in T
    <2>1. f[n] = IF n = 0 THEN Blockers(r)
                 ELSE f[n - 1] \union UNION {Blockers(q) : q \in f[n - 1]}
        <3> HIDE DEF f
        <3>1. QED
            BY <1>3
    <2> HIDE DEF f
    <2>2. CASE n = 0
        BY <2>1, <2>2
    <2>3. CASE n # 0
        <3>1. f[n - 1] = Blockers(r)
            BY <1>4, <2>3
        <3>2. QED
            BY <1>1, <2>1, <2>3, <3>1
    <2>4. QED
        BY <2>2, <2>3
<1>5. \A n \in Nat : n \in T
    <2> HIDE DEF T
    <2>1. QED
        BY <1>4, NatInduct
<1>6. Cardinality(Requests) \in Nat
    BY RepostAssumption, FS_CardinalityType
<1>7. f[Cardinality(Requests)] = Blockers(r)
    <2> HIDE DEF f
    <2>1. QED
        BY <1>5, <1>6
<1>8. r \notin Blockers(r)
    BY DEF Blockers
<1>9. QED
    BY <1>7, <1>8 DEF Deadlocked

(* In peace all requests repost, and no row has been deleted.              *)
LEMMA AllRepost ==
    ASSUME Inv, PeaceInv, Burst, NEW r \in Requests
    PROVE  /\ pc[r] # "new" => job[r] \in Jobs /\ job[r].op = "repost"
           /\ pc[r] \in Idle \union {"seekCopy", "insCopy", "seekNote", "insNote", "commit"}
           /\ ~ Reposting(r) => fresh[r] = {} /\ held[r] = {}
           /\ gone[r] = {}
           /\ pc[r] # "new" => Row(RepostKey(job[r]), None) \notin rows
<1>1. pc[r] # "new" => job[r] \in Jobs /\ job[r].op = "repost"
    <2>1. \A j \in Jobs : j # None
        BY RepostAssumption DEF Jobs
    <2>2. QED
        BY <2>1 DEF Inv, Doing, Burst
<1>2. pc[r] \in Idle \union {"seekCopy", "insCopy", "seekNote", "insNote", "commit"}
    BY <1>1 DEF Inv, TypeOK, Doing, Idle, Statements
<1>3. Reposting(r) \/ pc[r] \in Idle
    BY <1>1, <1>2 DEF Reposting, Writing, Idle
<1>4. pc[r] # "new" => Row(RepostKey(job[r]), None) \notin rows
    <2>1. None \notin Jobs
        BY RepostAssumption DEF Jobs
    <2>2. QED
        BY <1>1, <2>1 DEF Burst
<1>5. QED
    BY <1>1, <1>2, <1>3, <1>4 DEF Inv, Mine

(* Who holds any lock is past the first INSERT; only the leader shuts.     *)
LEMMA HeldIs ==
    ASSUME Inv, PeaceInv, Burst, NEW q \in Requests, NEW h \in held[q]
    PROVE  /\ Reposting(q) /\ Shares(q, RepostKey(job[q])) /\ job[q] \in Jobs
           /\ h[2] = "x" => Leads(q)
<1>1. Reposting(q) /\ Shares(q, RepostKey(job[q])) /\ job[q] \in Jobs
    BY AllRepost DEF Inv, Mine, Reposting, Writing
<1>2. PICK k \in Keys, m \in {"s", "x"} : h = <<k, m>>
    BY DEF Inv, TypeOK
<1>3. m = "x" => Leads(q)
    BY <1>2 DEF PeaceInv, AtPeace, OnlyLeaderShuts, Shuts, X
<1>4. QED
    BY <1>1, <1>2, <1>3

(* Who leads has the row of reposts for itself.                            *)
LEMMA LeaderShuts ==
    ASSUME Inv, NEW r \in Requests, Leads(r)
    PROVE  Shuts(r, RepostKey(job[r]))
<1>1. OwnRepost(r).key = RepostKey(job[r])
    BY RowsApart DEF OwnRepost
<1>2. QED
    BY <1>1 DEF Inv, Mine, Leads

(* What a statement of a repost wants.                                     *)
LEMMA RepostWants ==
    ASSUME NEW r, job[r] \in Jobs, pc[r] \in {"seekCopy", "insCopy", "seekNote", "insNote", "commit"},
           NEW l \in Wants(r), l[2] = "x"
    PROVE  pc[r] \in {"insCopy", "insNote"}
<1>1. CASE pc[r] = "seekCopy"
    <2>1. Wants(r) \subseteq {S(CopyKey(job[r]))}
        BY <1>1 DEF Wants, ToSeek
    <2>2. QED
        BY <2>1, LocksApart
<1>2. CASE pc[r] = "seekNote"
    <2>1. Wants(r) \subseteq {S(NoteKey(job[r]))}
        BY <1>2 DEF Wants, ToSeek
    <2>2. QED
        BY <2>1, LocksApart
<1>3. CASE pc[r] = "commit"
    BY <1>3 DEF Wants
<1>4. QED
    BY <1>1, <1>2, <1>3

(* Who is past its first INSERT waits for nobody: who could be in its way  *)
(* shares the row of reposts with it, so that neither of them leads, and   *)
(* then neither has or wants a lock that shuts.                            *)
LEMMA NotBlocked ==
    ASSUME Inv, PeaceInv, Burst, NEW r \in Requests, Reposting(r)
    PROVE  Blockers(r) = {}
<1> SUFFICES ASSUME NEW q \in Requests \ {r}, NEW l \in Wants(r), NEW h \in held[q],
                    "x" \in {l[2], h[2]}
             PROVE  FALSE
    BY DEF Blockers
<1>1. job[r] \in Jobs /\ pc[r] \in {"seekCopy", "insCopy", "seekNote", "insNote", "commit"}
    BY AllRepost DEF Reposting, Writing
<1>2. Shares(q, RepostKey(job[q])) /\ job[q] \in Jobs /\ (h[2] = "x" => Leads(q))
    BY HeldIs
<1>3. Shares(r, RepostKey(job[r]))
    BY DEF Inv, Mine
<1>4. RepostKey(job[r]) = RepostKey(job[q])
    <2>1. None \notin Jobs
        BY RepostAssumption DEF Jobs
    <2>2. QED
        BY <1>1, <1>2, <2>1 DEF Burst
<1>5. ~ Leads(r) /\ ~ Leads(q)
    BY <1>2, <1>3, <1>4, LeaderShuts, Apart DEF Inv
<1>6. pc[r] \in {"insCopy", "insNote"}
    BY <1>1, <1>2, <1>5, RepostWants
<1>7. Leads(r)
    BY <1>6 DEF PeaceInv, AtPeace, Inv, Mine, Leads
<1>8. QED
    BY <1>5, <1>7

LEMMA NobodyDeadlocked ==
    ASSUME Inv, PeaceInv, Burst, NEW r \in Requests
    PROVE  ~ Deadlocked(r)
<1>1. \A q \in Blockers(r) : Blockers(q) = {}
    <2>1. SUFFICES ASSUME NEW q \in Blockers(r) PROVE Reposting(q)
        BY NotBlocked DEF Blockers
    <2>2. PICK h \in held[q] : TRUE
        BY DEF Blockers
    <2>3. QED
        BY <2>2, HeldIs DEF Blockers
<1>2. QED
    BY <1>1, NoDeadlock

-----------------------------------------------------------------------------
(* A request that does not move, while no row goes.                        *)
LEMMA StaysAtPeace ==
    ASSUME NEW q \in Requests, AtPeace(q), rows \subseteq rows',
           pc'[q] = pc[q], job'[q] = job[q], fresh'[q] = fresh[q], held'[q] = held[q],
           answer'[q] = answer[q]
    PROVE  AtPeace(q)'
<1>1. Leads(q)' <=> Leads(q)
    BY DEF Leads, OwnRepost
<1>2. \A k : Has(k) => Has(k)'
    BY DEF Has, RowsOf
<1>3. OnlyLeaderShuts(q)'
    BY <1>1 DEF AtPeace, OnlyLeaderShuts, Shares, Shuts
<1>4. PastCopy(q)' <=> PastCopy(q)
    BY DEF PastCopy
<1>5. QED
    BY <1>1, <1>2, <1>3, <1>4 DEF AtPeace

(* Steps that touch no row of the tables and no lock.                      *)
LEMMA PeaceQuiet ==
    ASSUME Inv, PeaceInv, Burst, NEW r \in Requests,
           UNCHANGED <<rows, fresh, held>>,
           \A q \in Requests \ {r} : pc'[q] = pc[q] /\ job'[q] = job[q] /\ answer'[q] = answer[q],
           pc'[r] \in {"lookup", "insRepost", "done"}, answer'[r] # 500, ~ Reposting(r)
    PROVE  PeaceInv'
<1>1. \A q \in Requests \ {r} : AtPeace(q)'
    BY StaysAtPeace DEF PeaceInv
<1>2. held'[r] = {}
    BY AllRepost
<1>3. OnlyLeaderShuts(r)' /\ ~ PastCopy(r)'
    BY <1>2 DEF OnlyLeaderShuts, Shares, Shuts, PastCopy
<1>4. AtPeace(r)'
    BY <1>3 DEF AtPeace
<1>5. Fresh' = Fresh /\ \A k : Has(k)' <=> Has(k)
    BY DEF Fresh, Has, RowsOf
<1>6. \A j : CopyOrLeader(j)' <=> CopyOrLeader(j)
    BY <1>5 DEF CopyOrLeader
<1>7. QED
    BY <1>1, <1>4, <1>5, <1>6 DEF PeaceInv

(* A statement of a repost that inserts ins.                               *)
LEMMA PeaceExecute ==
    ASSUME Inv, PeaceInv, Burst, NEW r \in Requests, NEW ins, NEW next,
           job[r] \in Jobs, pc[r] # "new",
           Execute(r, ins, {}, next),
           ins \subseteq {OwnRepost(r), OwnCopy(r), OwnNote(r)},
           next \in {"seekCopy", "insCopy", "seekNote", "insNote", "commit"},
           ins # {} \/ next = "insCopy" => OwnRepost(r) \in fresh[r] \union ins,
           next \in {"seekNote", "insNote", "commit"} =>
               Has(CopyKey(job[r])) \/ OwnCopy(r) \in ins,
           \A k : X(k) \in Wants(r) => OwnRepost(r) \in fresh[r] \union ins
    PROVE  PeaceInv'
<1>1. /\ rows' = rows \union ins
      /\ fresh'[r] = fresh[r] \union ins /\ pc'[r] = next
      /\ \A k : X(k) \in held'[r] => X(k) \in held[r] \union Kept(r)
      /\ UNCHANGED <<job, answer, faults>>
      /\ \A q \in Requests \ {r} :
            fresh'[q] = fresh[q] /\ held'[q] = held[q] /\ pc'[q] = pc[q]
    <2> DEFINE none == {}
    <2>1. Execute(r, ins, none, next) /\ TypeOK
        BY DEF Inv
    <2> HIDE DEF none
    <2>2. /\ \A k : X(k) \in held'[r] => X(k) \in held[r] \union Kept(r)
          /\ \A q \in Requests \ {r} : held'[q] = held[q]
        BY <2>1, HeldAfter
    <2>3. QED
        BY <2>2 DEF Execute, Inv, TypeOK, request
<1>2. \A k : Has(k) => Has(k)'
    BY <1>1 DEF Has, RowsOf
<1>3. \A q \in Requests \ {r} : AtPeace(q)'
    BY <1>1, StaysAtPeace DEF PeaceInv
<1>4. AtPeace(r) /\ answer'[r] # 500
    BY <1>1 DEF PeaceInv, AtPeace
<1>5. Leads(r)' <=> OwnRepost(r) \in fresh[r] \union ins
    BY <1>1 DEF Leads, OwnRepost
<1>6. OnlyLeaderShuts(r)'
    <2>1. \A k \in Keys : X(k) \in held'[r] => X(k) \in held[r] \/ X(k) \in Wants(r)
        BY <1>1, Keeps
    <2>2. Leads(r) => Leads(r)'
        BY <1>5 DEF Leads
    <2>3. QED
        BY <1>4, <1>5, <2>1, <2>2 DEF AtPeace, OnlyLeaderShuts, Shuts
<1>7. OwnCopy(r) \in ins => Has(CopyKey(job[r]))'
    BY <1>1, RowsApart DEF OwnCopy, Has, RowsOf
<1>8. PastCopy(r)' => next \in {"seekNote", "insNote", "commit"}
    BY <1>1 DEF PastCopy
<1>9. AtPeace(r)'
    BY <1>1, <1>2, <1>4, <1>5, <1>6, <1>7, <1>8 DEF AtPeace
<1>10. ASSUME NEW j \in Pairs, Has(RepostKey(j))', Row(RepostKey(j), None) \notin rows'
       PROVE  CopyOrLeader(j)'
    <2>1. CASE RepostKey(j) = RepostKey(job[r]) /\ OwnRepost(r) \in fresh[r] \union ins
        BY <1>1, <2>1 DEF CopyOrLeader, OwnRepost
    <2>2. CASE ~ (RepostKey(j) = RepostKey(job[r]) /\ OwnRepost(r) \in fresh[r] \union ins)
        <3>1. \A x \in ins : x.key # RepostKey(j) /\ x.key # CopyKey(j)
            <4>1. ASSUME NEW x \in ins PROVE RepostKey(j) # RepostKey(job[r])
                BY <2>2, <4>1
            <4>2. ASSUME NEW x \in ins
                  PROVE  x.key \in {RepostKey(job[r]), CopyKey(job[r]), NoteKey(job[r])}
                BY <4>2, RowsApart DEF OwnRepost, OwnCopy, OwnNote
            <4>3. QED
                BY <4>1, <4>2, KeyKinds
        <3>2. Has(RepostKey(j))
            BY <1>1, <1>10, <3>1 DEF Has, RowsOf
        <3>3. CopyOrLeader(j)
            BY <1>1, <1>10, <3>2 DEF PeaceInv
        <3>4. CASE \E c \in rows \ Fresh : c.key = CopyKey(j)
            <4>1. PICK c \in rows \ Fresh : c.key = CopyKey(j)
                BY <3>4
            <4>2. c \notin ins /\ c \in rows' /\ \A q \in Requests : c \notin fresh[q]
                BY <1>1, <3>1, <4>1 DEF Fresh
            <4>3. \A q \in Requests : c \notin fresh'[q]
                BY <1>1, <4>2
            <4>4. QED
                BY <4>1, <4>2, <4>3 DEF CopyOrLeader, Fresh
        <3>5. CASE \E q \in Requests : Row(RepostKey(j), q) \in fresh[q]
            BY <1>1, <3>5 DEF CopyOrLeader
        <3>6. QED
            BY <3>3, <3>4, <3>5 DEF CopyOrLeader
    <2>3. QED
        BY <2>1, <2>2
<1>11. \A q \in Requests : pc'[q] = "new" => job'[q] = None
    BY <1>1 DEF PeaceInv
<1>12. \A p \in Posts : Has(PostKey(p))'
    BY <1>2 DEF PeaceInv
<1>13. QED
    BY <1>3, <1>9, <1>10, <1>11, <1>12 DEF PeaceInv

LEMMA PeaceSteps ==
    ASSUME Inv, PeaceInv, Burst, NEW r \in Requests, RepostStep(r)
    PROVE  PeaceInv'
<1>1. pc[r] # "new"
    BY DEF RepostStep, Lookup, InsRepost, SeekCopy, InsCopy, SeekNote, InsNote, Refused
<1>2. job[r] \in Jobs /\ job[r].op = "repost" /\ gone[r] = {}
    BY <1>1, AllRepost
<1>3. PairOf(job[r]) \in Pairs /\ job[r].post \in Posts /\ RepostKey(PairOf(job[r])) = RepostKey(job[r])
      /\ CopyKey(PairOf(job[r])) = CopyKey(job[r])
    BY <1>2, KeysKnown
<1>4. Has(PostKey(job[r].post)) /\ AtPeace(r)
    BY <1>3 DEF PeaceInv
<1>5. Leads(r) => OwnRepost(r) \in fresh[r]
    BY DEF Leads
<1>6. Row(RepostKey(job[r]), None) \notin rows
    BY <1>1, AllRepost
<1>7. AfterCopy(r) \in {"seekNote", "commit"}
    BY DEF AfterCopy
<1>8. \A k, m : X(k) \notin ToSeek(m)
    BY LocksApart DEF ToSeek
<1>9. CASE Lookup(r)
    <2>1. pc[r] = "lookup" /\ UNCHANGED <<job, rows, fresh, held>>
        BY <1>9 DEF Lookup, request, tables
    <2>2. \/ pc' = [pc EXCEPT ![r] = "insRepost"] /\ answer' = answer
          \/ Respond(r, 404)
        BY <1>9 DEF Lookup
    <2>3. /\ \A q \in Requests \ {r} : pc'[q] = pc[q] /\ answer'[q] = answer[q]
          /\ pc'[r] \in {"insRepost", "done"} /\ answer'[r] # 500
        BY <1>4, <2>2 DEF Inv, TypeOK, Respond, AtPeace
    <2>4. ~ Reposting(r)
        BY <2>1 DEF Reposting, Writing
    <2>5. QED
        BY <2>1, <2>3, <2>4, PeaceQuiet
<1>10. CASE InsRepost(r)
    <2> DEFINE ins == IF Has(RepostKey(job[r])) THEN {} ELSE {OwnRepost(r)}
    <2>1. Execute(r, ins, {}, "seekCopy") /\ pc[r] = "insRepost"
        BY <1>10 DEF InsRepost, OwnRepost
    <2>2. Wants(r) = ToInsert(RepostKey(job[r]), job[r].post)
        BY <2>1 DEF Wants
    <2>3. \A k : X(k) \in Wants(r) => ~ Has(RepostKey(job[r]))
        BY <2>2, LocksApart DEF ToInsert
    <2>4. \A k : X(k) \in Wants(r) => OwnRepost(r) \in fresh[r] \union ins
        BY <2>3
    <2>5. ins # {} => OwnRepost(r) \in fresh[r] \union ins
        OBVIOUS
    <2>6. ins \subseteq {OwnRepost(r), OwnCopy(r), OwnNote(r)}
        OBVIOUS
    <2> HIDE DEF ins
    <2>7. QED
        BY <1>1, <1>2, <2>1, <2>4, <2>5, <2>6, PeaceExecute
<1>11. CASE SeekCopy(r)
    <2> DEFINE next == IF Sees(r, CopyKey(job[r])) THEN AfterCopy(r) ELSE "insCopy"
               none == {}
    <2>1. Execute(r, none, {}, next) /\ pc[r] = "seekCopy"
        BY <1>11 DEF SeekCopy
    <2>2. Wants(r) = ToSeek(CopyKey(job[r])) /\ Reposting(r)
        BY <2>1 DEF Wants, Reposting, Writing
    <2>3. Has(RepostKey(job[r])) /\ Shares(r, RepostKey(job[r]))
        BY <2>2 DEF Inv, Fits, Mine
    <2>4. ASSUME NEW c \in rows \ Fresh, c.key = CopyKey(job[r])
          PROVE  Sees(r, CopyKey(job[r]))
        <3>1. c \in Committed
            BY <2>4 DEF Committed, Fresh
        <3>2. QED
            BY <1>2, <2>4, <3>1 DEF Sees
    <2>5. ASSUME NEW q \in Requests, Row(RepostKey(job[r]), q) \in fresh[q]
          PROVE  OwnRepost(r) \in fresh[r]
        <3>1. Shuts(q, RepostKey(job[r]))
            BY <2>5, RowsApart DEF Inv, Mine
        <3>2. q = r
            BY <2>3, <3>1, Apart DEF Inv
        <3>3. QED
            BY <2>5, <3>2 DEF OwnRepost
    <2>6. \/ \E c \in rows \ Fresh : c.key = CopyKey(job[r])
          \/ \E q \in Requests : Row(RepostKey(job[r]), q) \in fresh[q]
        <3>1. CopyOrLeader(PairOf(job[r]))
            BY <1>3, <1>6, <2>3 DEF PeaceInv
        <3>2. QED
            BY <1>3, <3>1 DEF CopyOrLeader
    <2>7. next = "insCopy" => OwnRepost(r) \in fresh[r]
        <3>1. SUFFICES ASSUME ~ Sees(r, CopyKey(job[r])) PROVE OwnRepost(r) \in fresh[r]
            BY <1>7
        <3>2. QED
            BY <2>4, <2>5, <2>6, <3>1
    <2>8. next # "insCopy" => Has(CopyKey(job[r]))
        <3>1. SUFFICES ASSUME Sees(r, CopyKey(job[r])) PROVE Has(CopyKey(job[r]))
            BY <1>7
        <3>2. \E x \in rows : x.key = CopyKey(job[r])
            <4>1. \A q \in Requests : gone[q] = {} /\ \A x \in fresh[q] : x \in rows
                BY AllRepost DEF Inv, Fits
            <4>2. Committed \subseteq rows /\ fresh[r] \subseteq rows
                BY <4>1 DEF Committed
            <4>3. QED
                BY <3>1, <4>2 DEF Sees
        <3>3. QED
            BY <3>2 DEF Has, RowsOf
    <2>9. next \in {"insCopy", "seekNote", "commit"}
        BY <1>7
    <2>10. \A k : X(k) \notin Wants(r)
        BY <1>8, <2>2
    <2>11. none = {} /\ none \subseteq {OwnRepost(r), OwnCopy(r), OwnNote(r)}
        OBVIOUS
    <2> HIDE DEF next, none
    <2>12. QED
        BY <1>1, <1>2, <2>1, <2>7, <2>8, <2>9, <2>10, <2>11, PeaceExecute
<1>12. CASE InsCopy(r)
    <2> DEFINE ins == IF SecondCopy(CopyKey(job[r])) THEN {} ELSE {OwnCopy(r)}
               next == AfterCopy(r)
    <2>1. Execute(r, ins, {}, next) /\ pc[r] = "insCopy"
        BY <1>12 DEF InsCopy, OwnCopy
    <2>2. OwnRepost(r) \in fresh[r]
        BY <1>4, <1>5, <2>1 DEF AtPeace
    <2>3. Has(CopyKey(job[r])) \/ OwnCopy(r) \in ins
        BY DEF SecondCopy
    <2>4. ins \subseteq {OwnRepost(r), OwnCopy(r), OwnNote(r)}
        OBVIOUS
    <2> HIDE DEF ins, next
    <2>5. next \in {"seekNote", "commit"}
        BY <1>7 DEF next
    <2>6. QED
        BY <1>1, <1>2, <2>1, <2>2, <2>3, <2>4, <2>5, PeaceExecute
<1>13. CASE SeekNote(r)
    <2> DEFINE next == IF Sees(r, NoteKey(job[r])) THEN "commit" ELSE "insNote"
               none == {}
    <2>1. Execute(r, none, {}, next) /\ pc[r] = "seekNote"
        BY <1>13 DEF SeekNote
    <2>2. Wants(r) = ToSeek(NoteKey(job[r])) /\ Has(CopyKey(job[r]))
        BY <1>4, <2>1 DEF Wants, AtPeace, PastCopy
    <2>3. \A k : X(k) \notin Wants(r)
        BY <1>8, <2>2
    <2>4. none = {} /\ none \subseteq {OwnRepost(r), OwnCopy(r), OwnNote(r)}
          /\ next \in {"insNote", "commit"}
        OBVIOUS
    <2> HIDE DEF next, none
    <2>5. QED
        BY <1>1, <1>2, <2>1, <2>2, <2>3, <2>4, PeaceExecute
<1>14. CASE InsNote(r)
    <2> DEFINE ins == {OwnNote(r)}
    <2>1. Execute(r, ins, {}, "commit") /\ pc[r] = "insNote"
        BY <1>14 DEF InsNote, OwnNote
    <2>2. OwnRepost(r) \in fresh[r] /\ Has(CopyKey(job[r]))
        BY <1>4, <2>1 DEF AtPeace, PastCopy, Inv, Mine
    <2>3. ins \subseteq {OwnRepost(r), OwnCopy(r), OwnNote(r)}
        OBVIOUS
    <2> HIDE DEF ins
    <2>4. QED
        BY <1>1, <1>2, <2>1, <2>2, <2>3, PeaceExecute
<1>15. CASE Refused(r)
    BY <1>4, <1>15 DEF Refused, DuplicateIsFine
<1>16. QED
    BY <1>9, <1>10, <1>11, <1>12, <1>13, <1>14, <1>15 DEF RepostStep

(* A commit makes the copy of a leader one that counts for all.            *)
LEMMA PeaceCommit ==
    ASSUME Inv, PeaceInv, Burst, NEW r \in Requests, Commit(r)
    PROVE  PeaceInv'
<1>1. pc[r] = "commit" /\ Close(r) /\ UNCHANGED <<job, rows, faults>>
      /\ pc' = [pc EXCEPT ![r] = "count"] /\ answer' = answer
    BY DEF Commit, request
<1>2. AtPeace(r) /\ job[r] \in Jobs /\ job[r].op = "repost"
    BY <1>1, AllRepost DEF PeaceInv
<1>3. /\ fresh'[r] = {} /\ held'[r] = {}
      /\ \A q \in Requests \ {r} : fresh'[q] = fresh[q] /\ held'[q] = held[q]
    BY <1>1 DEF Close, Inv, TypeOK
<1>4. /\ pc'[r] = "count" /\ answer'[r] # 500
      /\ \A q \in Requests \ {r} : pc'[q] = pc[q] /\ answer'[q] = answer[q]
    BY <1>1, <1>2 DEF Inv, TypeOK, AtPeace
<1>5. \A q \in Requests \ {r} : AtPeace(q)'
    BY <1>1, <1>3, <1>4, StaysAtPeace DEF PeaceInv
<1>6. AtPeace(r)'
    BY <1>3, <1>4 DEF AtPeace, OnlyLeaderShuts, Shares, Shuts, PastCopy
<1>7. ASSUME NEW j \in Pairs, Has(RepostKey(j))', Row(RepostKey(j), None) \notin rows'
      PROVE  CopyOrLeader(j)'
    <2>1. CopyOrLeader(j)
        BY <1>1, <1>7 DEF PeaceInv, Has, RowsOf
    <2>2. Fresh' \subseteq Fresh
        BY <1>3 DEF Fresh
    <2>3. CASE \E c \in rows \ Fresh : c.key = CopyKey(j)
        BY <1>1, <2>2, <2>3 DEF CopyOrLeader
    <2>4. CASE \E q \in Requests \ {r} : Row(RepostKey(j), q) \in fresh[q]
        BY <1>3, <2>4 DEF CopyOrLeader
    <2>5. CASE Row(RepostKey(j), r) \in fresh[r]
        <3>1. RepostKey(j) = RepostKey(job[r]) /\ Leads(r)
            <4>1. Row(RepostKey(j), r) \in {OwnRepost(r), OwnCopy(r), OwnNote(r)}
                BY <2>5 DEF Inv, Mine
            <4>2. Row(RepostKey(j), r) = OwnRepost(r) /\ RepostKey(j) = RepostKey(job[r])
                BY <4>1, KeyKinds, RowsApart DEF OwnRepost, OwnCopy, OwnNote
            <4>3. QED
                BY <2>5, <4>2 DEF Leads
        <3>2. PICK c \in rows : c.key = CopyKey(job[r])
            BY <1>1, <1>2 DEF AtPeace, PastCopy, Has, RowsOf
        <3>3. CopyKey(j) = CopyKey(job[r])
            BY <3>1, KeyKinds
        <3>4. \A q \in Requests : c \notin fresh'[q]
            <4>1. SUFFICES ASSUME NEW q \in Requests \ {r}, c \in fresh[q] PROVE FALSE
                BY <1>3
            <4>2. Shuts(q, CopyKey(job[r])) /\ c \in {OwnRepost(q), OwnCopy(q), OwnNote(q)}
                BY <3>2, <4>1 DEF Inv, Mine
            <4>3. CopyKey(job[q]) = CopyKey(job[r])
                BY <3>2, <4>2, KeyKinds, RowsApart DEF OwnRepost, OwnCopy, OwnNote
            <4>4. RepostKey(job[q]) = RepostKey(job[r])
                BY <4>3, KeyKinds
            <4>5. CopyKey(job[r]) \in Keys
                BY <1>2, KeysKnown DEF KeysOf
            <4>6. Leads(q)
                BY <4>2, <4>5 DEF PeaceInv, AtPeace, OnlyLeaderShuts
            <4>7. Shuts(q, RepostKey(job[q])) /\ Shuts(r, RepostKey(job[r]))
                BY <3>1, <4>6, LeaderShuts
            <4>8. QED
                BY <4>4, <4>7, Apart DEF Inv, Shares, Shuts
        <3>5. QED
            BY <1>1, <3>2, <3>3, <3>4 DEF CopyOrLeader, Fresh
    <2>6. QED
        BY <2>1, <2>3, <2>4, <2>5 DEF CopyOrLeader
<1>8. \A q \in Requests : pc'[q] = "new" => job'[q] = None
    BY <1>1, <1>4 DEF PeaceInv
<1>9. \A p \in Posts : Has(PostKey(p))'
    BY <1>1 DEF PeaceInv, Has, RowsOf
<1>10. QED
    BY <1>5, <1>6, <1>7, <1>8, <1>9 DEF PeaceInv

(* No rollback takes back a row of long ago.                               *)
LEMMA OldRowsStay ==
    ASSUME Inv, NEW r \in Requests, NEW k, Row(k, None) \in rows,
           RepostStep(r) \/ Commit(r) \/ Count(r) \/ Victim(r)
    PROVE  Row(k, None) \in rows'
<1>1. Row(k, None) \notin fresh[r]
    BY FreshBy, RowsApart, RepostAssumption
<1>2. QED
    BY <1>1 DEF RepostStep, Lookup, InsRepost, SeekCopy, InsCopy, SeekNote, InsNote, Refused,
       Commit, Count, Victim, Rollback, Execute, tables

(* A burst does not begin in the middle.                                   *)
LEMMA PeaceBefore ==
    ASSUME Inv, PeaceInv, [Next]_vars, Burst'
    PROVE  Burst
<1>1. ASSUME NEW r \in Requests, NEW j \in Jobs, Start(r, j) PROVE Burst
    <2>1. job[r] = None /\ job' = [job EXCEPT ![r] = j] /\ UNCHANGED <<faults, rows>>
        BY <1>1 DEF Start, PeaceInv, tables
    <2>2. QED
        BY <2>1 DEF Burst, Inv, TypeOK
<1>2. ASSUME job' = job, faults' = faults, \A k : Row(k, None) \in rows => Row(k, None) \in rows'
      PROVE  Burst
    BY <1>2 DEF Burst
<1>3. ASSUME Fault PROVE FALSE
    BY <1>3 DEF Fault, Burst, Inv, TypeOK
<1>4. ASSUME NEW r \in Requests, RepostStep(r) \/ Commit(r) \/ Count(r)
      PROVE  job' = job /\ faults' = faults
    BY <1>4 DEF RepostStep, Lookup, InsRepost, SeekCopy, InsCopy, SeekNote, InsNote, Refused,
       Commit, Count, Execute, request
<1>5. ASSUME NEW r \in Requests, DelRepost(r) \/ DelCopy(r) \/ DelPost(r) \/ Cascade(r)
             \/ DropCopy(r) \/ NotFound(r)
      PROVE  FALSE
    <2>1. /\ pc[r] \in {"delRepost", "delCopy", "delPost", "cascade", "dropCopy"}
          /\ job' = job
        BY <1>5 DEF DelRepost, DelCopy, DelPost, Cascade, DropCopy, NotFound, Execute, request
    <2>2. job[r].op \in {"unrepost", "deletePost", "deleteCopy"} /\ job[r] \in Jobs
        BY <2>1 DEF Inv, Doing
    <2>3. None \notin Jobs
        BY RepostAssumption DEF Jobs
    <2>4. QED
        BY <2>1, <2>2, <2>3 DEF Burst
<1>6. ASSUME NEW r \in Requests, Victim(r) PROVE job' = job /\ (faults' = faults \/ Fault)
    BY <1>6 DEF Victim
<1>7. ASSUME NEW r \in Requests,
             LookupFails(r) \/ CommitLost(r) \/ CountFails(r) \/ Abort(r)
      PROVE  Fault
    BY <1>7 DEF LookupFails, CommitLost, CountFails, Abort
<1>8. ASSUME NEW r \in Requests, RepostStep(r) \/ Commit(r) \/ Count(r) \/ Victim(r)
      PROVE  \A k : Row(k, None) \in rows => Row(k, None) \in rows'
    BY <1>8, OldRowsStay
<1>9. ASSUME UNCHANGED vars PROVE Burst
    BY <1>2, <1>9 DEF vars, request, tables
<1>10. QED
    BY <1>1, <1>2, <1>3, <1>4, <1>5, <1>6, <1>7, <1>8, <1>9 DEF Next, Step

LEMMA NewHasNoJob ==
    ASSUME Inv, PeaceInv, [Next]_vars
    PROVE  \A r \in Requests : pc'[r] = "new" => job'[r] = None
<1>1. ASSUME NEW r \in Requests, NEW next, pc' = [pc EXCEPT ![r] = next], next # "new",
             \A q \in Requests \ {r} : job'[q] = job[q]
      PROVE  \A q \in Requests : pc'[q] = "new" => job'[q] = None
    BY <1>1 DEF PeaceInv, Inv, TypeOK
<1>2. ASSUME NEW r \in Requests, NEW j \in Jobs, Start(r, j)
      PROVE  \E next : pc' = [pc EXCEPT ![r] = next] /\ next # "new"
    <2> DEFINE first == CASE j.op = "repost" -> "lookup" [] j.op = "unrepost" -> "delRepost"
                          [] j.op = "deletePost" -> "delPost" [] j.op = "deleteCopy" -> "dropCopy"
    <2>1. first \in {"lookup", "delRepost", "delPost", "dropCopy"}
        BY JobOps
    <2>2. pc' = [pc EXCEPT ![r] = first]
        BY <1>2 DEF Start
    <2> HIDE DEF first
    <2>3. QED
        BY <2>1, <2>2
<1>3. ASSUME NEW r \in Requests, RepostStep(r)
      PROVE  \E next : pc' = [pc EXCEPT ![r] = next] /\ next # "new"
    BY <1>3 DEF RepostStep, Lookup, InsRepost, SeekCopy, InsCopy, SeekNote, InsNote, Refused,
       Execute, AfterCopy, Respond
<1>4. ASSUME NEW r \in Requests, DelRepost(r) \/ DelCopy(r) \/ DelPost(r) \/ Cascade(r)
             \/ DropCopy(r) \/ NotFound(r) \/ Commit(r) \/ Count(r)
      PROVE  \E next : pc' = [pc EXCEPT ![r] = next] /\ next # "new"
    BY <1>4 DEF DelRepost, DelCopy, DelPost, Cascade, DropCopy, NotFound, Commit, Count,
       Execute, Respond
<1>5. ASSUME NEW r \in Requests,
             Victim(r) \/ LookupFails(r) \/ CommitLost(r) \/ CountFails(r) \/ Abort(r)
      PROVE  \E next : pc' = [pc EXCEPT ![r] = next] /\ next # "new"
    BY <1>5 DEF Victim, LookupFails, CommitLost, CountFails, Abort, Respond
<1>6. ASSUME NEW r \in Requests,
             Step(r) \/ LookupFails(r) \/ CommitLost(r) \/ CountFails(r) \/ Abort(r)
      PROVE  job' = job
    <2>1. CASE RepostStep(r)
        BY <2>1 DEF RepostStep, Lookup, InsRepost, SeekCopy, InsCopy, SeekNote, InsNote, Refused,
           Execute, request
    <2>2. CASE DelRepost(r) \/ DelCopy(r) \/ DelPost(r) \/ Cascade(r) \/ DropCopy(r)
               \/ NotFound(r) \/ Commit(r) \/ Count(r)
        BY <2>2 DEF DelRepost, DelCopy, DelPost, Cascade, DropCopy, NotFound, Commit, Count,
           Execute, request
    <2>3. CASE Victim(r) \/ LookupFails(r) \/ CommitLost(r) \/ CountFails(r) \/ Abort(r)
        BY <2>3 DEF Victim, LookupFails, CommitLost, CountFails, Abort, request
    <2>4. QED
        BY <1>6, <2>1, <2>2, <2>3 DEF Step
<1>7. ASSUME NEW r \in Requests, NEW j \in Jobs, Start(r, j)
      PROVE  \A q \in Requests \ {r} : job'[q] = job[q]
    BY <1>7 DEF Start, Inv, TypeOK
<1>8. CASE UNCHANGED vars
    BY <1>8 DEF vars, request, PeaceInv
<1>9. CASE ~ UNCHANGED vars
    <2>1. PICK r \in Requests : \/ \E j \in Jobs : Start(r, j)
                                \/ Step(r) \/ LookupFails(r) \/ CommitLost(r)
                                \/ CountFails(r) \/ Abort(r)
        BY <1>9 DEF Next
    <2>2. PICK next : pc' = [pc EXCEPT ![r] = next] /\ next # "new"
        BY <1>2, <1>3, <1>4, <1>5, <2>1 DEF Step
    <2>3. \A q \in Requests \ {r} : job'[q] = job[q]
        BY <1>6, <1>7, <2>1
    <2>4. QED
        BY <1>1, <2>2, <2>3
<1>10. QED
    BY <1>8, <1>9

LEMMA PeaceStep == Inv /\ PeaceInv /\ [Next]_vars => PeaceInv'
<1> SUFFICES ASSUME Inv, PeaceInv, [Next]_vars PROVE PeaceInv'
    OBVIOUS
<1>1. CASE ~ Burst'
    BY <1>1, NewHasNoJob DEF PeaceInv
<1>2. CASE Burst'
    <2>1. Burst
        BY <1>2, PeaceBefore
    <2>2. ASSUME NEW r \in Requests, NEW j \in Jobs, Start(r, j) PROVE PeaceInv'
        <3>1. /\ job' = [job EXCEPT ![r] = j] /\ pc[r] = "new"
              /\ UNCHANGED <<rows, fresh, held, answer>>
            BY <2>2 DEF Start, tables
        <3>2. j.op = "repost"
            <4>1. job'[r] = j /\ j # None
                BY <3>1, RepostAssumption DEF Inv, TypeOK, Jobs
            <4>2. QED
                BY <1>2, <4>1 DEF Burst
        <3>3. pc' = [pc EXCEPT ![r] = "lookup"]
            BY <2>2, <3>2 DEF Start
        <3>4. /\ \A q \in Requests \ {r} : pc'[q] = pc[q] /\ job'[q] = job[q] /\ answer'[q] = answer[q]
              /\ pc'[r] = "lookup" /\ answer'[r] # 500 /\ ~ Reposting(r)
            BY <2>1, <3>1, <3>3 DEF Inv, TypeOK, PeaceInv, AtPeace, Reposting, Writing
        <3>5. QED
            BY <2>1, <3>1, <3>4, PeaceQuiet
    <2>3. ASSUME NEW r \in Requests, RepostStep(r) PROVE PeaceInv'
        BY <2>1, <2>3, PeaceSteps
    <2>4. ASSUME NEW r \in Requests, Commit(r) PROVE PeaceInv'
        BY <2>1, <2>4, PeaceCommit
    <2>5. ASSUME NEW r \in Requests, Count(r) PROVE PeaceInv'
        <3>1. /\ pc[r] = "count" /\ UNCHANGED <<job, rows, fresh, held>>
              /\ \A q \in Requests \ {r} : pc'[q] = pc[q] /\ answer'[q] = answer[q]
              /\ pc'[r] = "done" /\ answer'[r] = 200
            BY <2>5 DEF Count, Respond, Inv, TypeOK, request, tables
        <3>2. ~ Reposting(r)
            BY <3>1 DEF Reposting, Writing
        <3>3. QED
            BY <2>1, <3>1, <3>2, PeaceQuiet
    <2>6. ASSUME NEW r \in Requests, DelRepost(r) \/ DelCopy(r) \/ DelPost(r) \/ Cascade(r)
                 \/ DropCopy(r) \/ NotFound(r)
          PROVE  FALSE
        <3>1. pc[r] \in {"delRepost", "delCopy", "delPost", "cascade", "dropCopy"}
            BY <2>6 DEF DelRepost, DelCopy, DelPost, Cascade, DropCopy, NotFound
        <3>2. job[r].op \in {"unrepost", "deletePost", "deleteCopy"}
            BY <3>1 DEF Inv, Doing
        <3>3. job[r].op = "repost"
            BY <2>1, <3>1, AllRepost
        <3>4. QED
            BY <3>2, <3>3
    <2>7. ASSUME Fault PROVE FALSE
        BY <1>2, <2>1, <2>7 DEF Fault, Burst
    <2>8. ASSUME NEW r \in Requests, Victim(r) PROVE FALSE
        BY <2>1, <2>7, <2>8, NobodyDeadlocked DEF Victim
    <2>9. ASSUME NEW r \in Requests,
                 LookupFails(r) \/ CommitLost(r) \/ CountFails(r) \/ Abort(r)
          PROVE  FALSE
        BY <2>7, <2>9 DEF LookupFails, CommitLost, CountFails, Abort
    <2>10. CASE UNCHANGED vars
        <3>1. UNCHANGED <<job, pc, rows, fresh, held, answer>>
            BY <2>10 DEF vars, request, tables
        <3>2. \A q \in Requests : AtPeace(q)'
            BY <2>1, <3>1, StaysAtPeace DEF PeaceInv
        <3>3. Fresh' = Fresh /\ \A k : Has(k)' <=> Has(k)
            BY <3>1 DEF Fresh, Has, RowsOf
        <3>4. \A j : CopyOrLeader(j)' <=> CopyOrLeader(j)
            BY <3>1, <3>3 DEF CopyOrLeader
        <3>5. QED
            BY <2>1, <3>1, <3>2, <3>3, <3>4 DEF PeaceInv
    <2>11. QED
        BY <2>2, <2>3, <2>4, <2>5, <2>6, <2>8, <2>9, <2>10 DEF Next, Step
<1>3. QED
    BY <1>1, <1>2

(* Of any number of requests that repost one post for one user, for the    *)
(* first time, none ends in a server error: the losers find a duplicate    *)
(* (repost.go, repostOnce).                                                *)
THEOREM RepostsAloneSucceed == Spec => []LosersSucceed
<1>1. Init => PeaceInv
    <2> SUFFICES ASSUME Init PROVE PeaceInv
        OBVIOUS
    <2>1. \A r \in Requests : held[r] = {} /\ pc[r] = "new" /\ job[r] = None /\ answer[r] = None
        BY DEF Init
    <2>2. \A r \in Requests : AtPeace(r)
        BY <2>1, RepostAssumption DEF AtPeace, OnlyLeaderShuts, Shuts, PastCopy
    <2>3. \A p \in Posts : Has(PostKey(p))
        BY RowsApart DEF Init, Has, RowsOf
    <2>4. ASSUME NEW j \in Pairs, Has(RepostKey(j)) PROVE Row(RepostKey(j), None) \in rows
        <3>1. PICK x \in rows : x.key = RepostKey(j)
            BY <2>4 DEF Has, RowsOf
        <3>2. x = Row(x.key, None)
            BY RowsApart DEF Init
        <3>3. QED
            BY <3>1, <3>2
    <2>5. QED
        BY <2>1, <2>2, <2>3, <2>4 DEF PeaceInv
<1>2. PeaceInv => LosersSucceed
    BY DEF PeaceInv, AtPeace, LosersSucceed
<1>3. QED
    BY <1>1, <1>2, PeaceStep, RepostInvariant, PTL DEF Spec
=============================================================================
