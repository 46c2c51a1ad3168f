--------------------------- MODULE ThreadKeysProofs --------------------------
(***************************************************************************)
(* Theorems about replies and thread streams (module ThreadKeys), for any  *)
(* forest of posts, any number of requests, viewers and failures.          *)
(*                                                                         *)
(* The argument.  Ids only refer to smaller ids, so that climbing a thread *)
(* ends (Climb, by induction over the ids), and a new reply changes the    *)
(* root of no other post.  Whatever threadRootID returns is a post of the  *)
(* same thread, and so is what it falls back to: keys that are equal come  *)
(* from one thread (Keyed).  While only roots and leaves go, it returns    *)
(* the very root for every post that is there or was a root, so that all   *)
(* keys of a thread are equal (Heard).                                     *)
(***************************************************************************)
EXTENDS ThreadKeys, FiniteSetTheorems, WellFoundedInduction, TLAPS

Downward(par) == par \in [Ids -> Nat] /\ \A q \in Ids : par[q] < q

(* The roots of all posts, and the keys they have at the moment.           *)
rootOf == [p \in Ids |-> TrueRoot(p)]

Forest ==
    /\ Downward(parent)
    /\ born \in Ids /\ alive \subseteq 1 .. born
    /\ \A q \in Ids : q > born => parent[q] = NoPost

Over == {"notify", "publish", "created"}

(* Every id is drawn by a request of its own.                              *)
Done == {r \in Requests : pc[r] \in Over \union {"refused"}}
Room == born =< NumPosts + Cardinality(Done)

Together(p, q) == p \in 1 .. born /\ q \in 1 .. born /\ rootOf[p] = rootOf[q]

Keyed ==
    /\ \A r \in Requests :
        /\ pc[r] \in {"root", "insert"} \union Over => target[r] \in 1 .. born
        /\ pc[r] \in {"insert"} \union Over => Together(root[r], target[r])
        /\ pc[r] \in Over => Together(reply[r], target[r])
    /\ \A i \in 1 .. Len(log) : Together(log[i].key, log[i].post)
    /\ \A v \in Viewers : view[v] # "closed" => Together(key[v], watched[v])

(* Posts that went and have replies were roots.                            *)
Gapless == \A q, c \in Ids : q \notin alive /\ parent[c] = q => parent[q] = NoPost

Heard ==
    /\ Gapless
    /\ \A r \in Requests :
        (pc[r] = "insert" /\ target[r] \in alive) \/ pc[r] \in Over => root[r] = rootOf[target[r]]
    /\ \A i \in 1 .. Len(log) : log[i].key = rootOf[log[i].post]
    /\ \A v \in Viewers : view[v] # "closed" /\ known[v] => key[v] = rootOf[watched[v]]
    /\ AllHear

Told ==
    /\ \A r \in Requests :
        /\ pc[r] \in {"root", "insert"} => author[r] \/ target[r] \notin alive
        /\ pc[r] \in Over => author[r]
    /\ AuthorTold

Entries == [key : Ids, post : Ids]

Inv ==
    /\ TypeOK /\ log \in Seq(Entries) /\ Forest /\ Room /\ Keyed /\ Told
    /\ intact => Heard

-----------------------------------------------------------------------------
(* Induction over the ids.                                                 *)

LEMMA Least ==
    ASSUME NEW T, T \subseteq Nat, T # {}
    PROVE  \E x \in T : \A y \in T : x =< y
<1> DEFINE R == {e \in Nat \X Nat : e[1] < e[2]}
<1>1. IsWellFoundedOn(R, Nat)
    BY NatLessThanWellFounded DEF OpToRel
<1>2. PICK x \in T : \A y \in T : ~ (<<y, x>> \in R)
    <2> HIDE DEF R
    <2>1. QED
        BY <1>1, WFMin
<1>3. \A y \in T : x \in Nat /\ y \in Nat /\ ~ (y < x)
    BY <1>2
<1>4. QED
    BY <1>3

LEMMA Induction ==
    ASSUME NEW T, \A n \in Nat : (\A m \in 0 .. n - 1 : m \in T) => n \in T
    PROVE  \A n \in Nat : n \in T
<1> SUFFICES ASSUME Nat \ T # {} PROVE FALSE
    OBVIOUS
<1>1. PICK x \in Nat \ T : \A y \in Nat \ T : x =< y
    BY Least
<1>2. \A m \in 0 .. x - 1 : m \in T
    BY <1>1
<1>3. QED
    BY <1>1, <1>2

LEMMA IdsAreNumbers ==
    /\ Cardinality(Requests) \in Nat /\ NumPosts + Cardinality(Requests) \in Nat
    /\ \A p \in Ids : p \in Nat \ {0} /\ 1 .. p \subseteq Ids
    /\ 1 .. NumPosts \subseteq Ids
    /\ \A p \in Nat : p # 0 /\ p =< NumPosts + Cardinality(Requests) => p \in Ids
<1>1. Cardinality(Requests) \in Nat
    BY ThreadAssumption, FS_CardinalityType
<1>2. QED
    BY <1>1, ThreadAssumption DEF Ids

(* What holds of an id when it holds of all smaller ones holds of all.     *)
LEMMA IdInduction ==
    ASSUME NEW T, \A p \in Ids : (\A q \in Ids : q < p => q \in T) => p \in T
    PROVE  \A p \in Ids : p \in T
<1> DEFINE U == {n \in Nat : n \in Ids => n \in T}
<1>1. ASSUME NEW n \in Nat, \A m \in 0 .. n - 1 : m \in U
      PROVE  n \in U
    <2>1. ASSUME n \in Ids PROVE n \in T
        <3>1. \A q \in Ids : q < n => q \in 0 .. n - 1
            BY IdsAreNumbers
        <3>2. \A q \in Ids : q < n => q \in T
            BY <1>1, <3>1
        <3>3. QED
            BY <2>1, <3>2
    <2>2. QED
        BY <2>1
<1>2. \A n \in Nat : n \in U
    <2> HIDE DEF U
    <2>1. QED
        BY <1>1, Induction
<1>3. QED
    BY <1>2, IdsAreNumbers

(* Climbing to smaller ids comes to an end: the recursive functions of     *)
(* Top and TrueRoot are what their definitions say.                        *)
StaysInside(par, more) == \A q \in Ids : q \in more => par[q] \in Ids

EndsSomewhere(par, more) ==
    \E g \in [Ids -> Ids] : \A q \in Ids : g[q] = IF q \in more THEN g[par[q]] ELSE q

LEMMA Climb ==
    ASSUME NEW par, NEW more, Downward(par), StaysInside(par, more)
    PROVE  EndsSomewhere(par, more)
<1> DEFINE N == NumPosts + Cardinality(Requests)
           Good(n, g) == \A q \in 1 .. n : g[q] = IF q \in more THEN g[par[q]] ELSE q
           T == {n \in Nat : n =< N => \E g \in [1 .. n -> Ids] : Good(n, g)}
<1>1. N \in Nat /\ Ids = 1 .. N
    BY IdsAreNumbers DEF Ids
<1>2. ASSUME NEW n \in Nat, \A m \in 0 .. n - 1 : m \in T
      PROVE  n \in T
    <2> SUFFICES ASSUME n =< N PROVE \E g \in [1 .. n -> Ids] : Good(n, g)
        OBVIOUS
    <2>1. CASE n = 0
        <3> DEFINE g == [q \in 1 .. n |-> 1]
        <3>1. 1 .. n = {}
            BY <2>1
        <3>2. g \in [1 .. n -> Ids]
            BY <3>1
        <3>3. Good(n, g)
            BY <3>1
        <3> HIDE DEF g
        <3>4. QED
            BY <3>2, <3>3
    <2>2. CASE n # 0
        <3>1. n - 1 \in 0 .. n - 1 /\ n - 1 =< N
            BY <1>1, <2>2
        <3>2. PICK f \in [1 .. n - 1 -> Ids] : Good(n - 1, f)
            BY <1>2, <3>1
        <3>3. n \in Ids /\ par[n] \in Nat /\ par[n] < n
            BY <1>1, <2>2 DEF Downward
        <3>4. n \in more => par[n] \in 1 .. n - 1
            BY <1>1, <3>3 DEF StaysInside
        <3> DEFINE top == IF n \in more THEN f[par[n]] ELSE n
                   g == [q \in 1 .. n |-> IF q = n THEN top ELSE f[q]]
        <3>5. top \in Ids
            BY <3>2, <3>3, <3>4
        <3>6. g \in [1 .. n -> Ids]
            BY <2>2, <3>2, <3>5
        <3>7. ASSUME NEW q \in 1 .. n
              PROVE  g[q] = IF q \in more THEN g[par[q]] ELSE q
            <4>1. q \in Ids /\ par[q] \in Nat /\ par[q] < q
                BY <1>1 DEF Downward
            <4>2. q \in more => par[q] \in 1 .. q - 1
                BY <1>1, <4>1 DEF StaysInside
            <4>3. CASE q = n
                BY <3>4, <4>3
            <4>4. CASE q # n
                <5>1. q \in 1 .. n - 1
                    BY <4>4
                <5>2. q \in more => par[q] \in 1 .. n - 1 /\ par[q] # n
                    BY <4>2, <5>1
                <5>3. f[q] = IF q \in more THEN f[par[q]] ELSE q
                    BY <3>2, <5>1
                <5>4. QED
                    BY <4>4, <5>2, <5>3
            <4>5. QED
                BY <4>3, <4>4
        <3> HIDE DEF g
        <3>8. QED
            BY <3>6, <3>7
    <2>3. QED
        BY <2>1, <2>2
<1>3. \A n \in Nat : n \in T
    <2> HIDE DEF T
    <2>1. QED
        BY <1>2, Induction
<1>4. \E g \in [1 .. N -> Ids] : Good(N, g)
    <2> HIDE DEF N, T
    <2>1. N \in T /\ N =< N
        BY <1>1, <1>3
    <2>2. QED
        BY <2>1 DEF T
<1>5. PICK g \in [Ids -> Ids] : \A q \in Ids : g[q] = IF q \in more THEN g[par[q]] ELSE q
    BY <1>1, <1>4
<1>6. QED
    BY <1>5 DEF EndsSomewhere

-----------------------------------------------------------------------------
(* The root of a post.                                                     *)

LEMMA UpIsId ==
    ASSUME NEW par, Downward(par)
    PROVE  \A q \in Ids : par[q] # NoPost => par[q] \in Ids
<1> SUFFICES ASSUME NEW q \in Ids, par[q] # NoPost PROVE par[q] \in Ids
    OBVIOUS
<1>1. q \in Nat /\ 1 .. q \subseteq Ids
    BY IdsAreNumbers
<1>2. par[q] \in Nat /\ par[q] < q /\ par[q] # 0
    BY DEF Downward, NoPost
<1>3. par[q] \in 1 .. q
    BY <1>1, <1>2
<1>4. QED
    BY <1>1, <1>3

LEMMA TrueRootStep ==
    ASSUME Downward(parent)
    PROVE  /\ rootOf \in [Ids -> Ids]
           /\ \A p \in Ids : rootOf[p] = IF parent[p] = NoPost THEN p ELSE rootOf[parent[p]]
<1> DEFINE up[q \in Ids] == IF parent[q] = NoPost THEN q ELSE up[parent[q]]
           more == {q \in Ids : parent[q] # NoPost}
<1>1. \A q \in Ids : q \in more => parent[q] \in Ids
    BY UpIsId
<1>2. PICK g \in [Ids -> Ids] :
          \A q \in Ids : g[q] = IF q \in more THEN g[parent[q]] ELSE q
    <2> HIDE DEF more, up
    <2>1. StaysInside(parent, more)
        BY <1>1 DEF StaysInside
    <2>2. EndsSomewhere(parent, more)
        BY <2>1, Climb
    <2>3. QED
        BY <2>2 DEF EndsSomewhere
<1>3. g = [q \in Ids |-> IF parent[q] = NoPost THEN q ELSE g[parent[q]]]
    BY <1>2
<1>4. up = [q \in Ids |-> IF parent[q] = NoPost THEN q ELSE up[parent[q]]]
    BY <1>3
<1>5. \A p \in Ids : rootOf[p] = up[p]
    BY DEF TrueRoot, rootOf
<1> HIDE DEF up
<1>6. \A p \in Ids : rootOf[p] = IF parent[p] = NoPost THEN p ELSE rootOf[parent[p]]
    BY <1>1, <1>4, <1>5
<1>7. \A p \in Ids : p \in {q \in Ids : rootOf[q] \in Ids}
    <2> DEFINE T == {q \in Ids : rootOf[q] \in Ids}
    <2>1. ASSUME NEW p \in Ids, \A q \in Ids : q < p => q \in T
          PROVE  p \in T
        <3>1. CASE parent[p] = NoPost
            BY <1>6, <3>1
        <3>2. CASE parent[p] # NoPost
            <4>1. parent[p] \in Ids /\ parent[p] < p
                BY <1>1, <3>2 DEF Downward
            <4>2. rootOf[parent[p]] \in Ids
                BY <2>1, <4>1
            <4>3. QED
                BY <1>6, <3>2, <4>2
        <3>3. QED
            BY <3>1, <3>2
    <2> HIDE DEF T
    <2>2. \A p \in Ids : p \in T
        BY <2>1, IdInduction
    <2>3. QED
        BY <2>2 DEF T
<1>8. QED
    BY <1>6, <1>7 DEF rootOf

LEMMA TrueRootStepAfter ==
    ASSUME Downward(parent')
    PROVE  \A p \in Ids : rootOf'[p] = IF parent'[p] = NoPost THEN p ELSE rootOf'[parent'[p]]
<1> DEFINE up[q \in Ids] == IF parent'[q] = NoPost THEN q ELSE up[parent'[q]]
           more == {q \in Ids : parent'[q] # NoPost}
<1>1. \A q \in Ids : q \in more => parent'[q] \in Ids
    BY UpIsId
<1>2. PICK g \in [Ids -> Ids] :
          \A q \in Ids : g[q] = IF q \in more THEN g[parent'[q]] ELSE q
    <2> HIDE DEF more
    <2>1. StaysInside(parent', more)
        BY <1>1 DEF StaysInside
    <2>2. EndsSomewhere(parent', more)
        BY <2>1, Climb
    <2>3. QED
        BY <2>2 DEF EndsSomewhere
<1>3. g = [q \in Ids |-> IF parent'[q] = NoPost THEN q ELSE g[parent'[q]]]
    BY <1>2
<1>4. up = [q \in Ids |-> IF parent'[q] = NoPost THEN q ELSE up[parent'[q]]]
    BY <1>3
<1>5. \A p \in Ids : rootOf'[p] = up[p]
    BY DEF TrueRoot, rootOf
<1> HIDE DEF up
<1>6. QED
    BY <1>1, <1>4, <1>5

LEMMA RootKept == parent' = parent => rootOf' = rootOf
BY DEF rootOf, TrueRoot

(* A new reply has the root of its parent and changes no other.            *)
LEMMA RootGrown ==
    ASSUME Forest, born + 1 \in Ids, NEW r \in Requests, target[r] \in 1 .. born, NewReply(r)
    PROVE  /\ Downward(parent')
           /\ \A q \in 1 .. born : rootOf'[q] = rootOf[q]
           /\ rootOf'[born + 1] = rootOf[target[r]]
<1>1. born \in Nat /\ 1 .. born \subseteq Ids /\ born + 1 \notin 1 .. born
    BY IdsAreNumbers DEF Forest
<1>2. /\ parent \in [Ids -> Nat] /\ \A q \in Ids : parent[q] < q
      /\ parent' = [parent EXCEPT ![born + 1] = target[r]]
    BY DEF Forest, Downward, NewReply
<1>3. Downward(parent')
    <2>1. parent' \in [Ids -> Nat]
        BY <1>1, <1>2
    <2>2. ASSUME NEW q \in Ids PROVE parent'[q] < q
        <3>1. CASE q = born + 1
            BY <1>1, <1>2, <3>1
        <3>2. CASE q # born + 1
            BY <1>2, <3>2
        <3>3. QED
            BY <3>1, <3>2
    <2>3. QED
        BY <2>1, <2>2 DEF Downward
<1>4. \A p \in Ids : rootOf[p] = IF parent[p] = NoPost THEN p ELSE rootOf[parent[p]]
    BY TrueRootStep DEF Forest
<1>5. \A p \in Ids : rootOf'[p] = IF parent'[p] = NoPost THEN p ELSE rootOf'[parent'[p]]
    BY <1>3, TrueRootStepAfter
<1>6. \A q \in 1 .. born : rootOf'[q] = rootOf[q]
    <2> DEFINE T == {q \in Ids : q \in 1 .. born => rootOf'[q] = rootOf[q]}
    <2>1. ASSUME NEW p \in Ids, \A q \in Ids : q < p => q \in T
          PROVE  p \in T
        <3>1. SUFFICES ASSUME p \in 1 .. born PROVE rootOf'[p] = rootOf[p]
            OBVIOUS
        <3>2. parent'[p] = parent[p]
            BY <1>1, <1>2, <3>1
        <3>3. CASE parent[p] = NoPost
            BY <1>4, <1>5, <3>2, <3>3
        <3>4. CASE parent[p] # NoPost
            <4>1. parent[p] \in Ids /\ parent[p] < p /\ parent[p] \in 1 .. born
                BY <1>1, <1>2, <3>1, <3>4 DEF NoPost
            <4>2. rootOf'[parent[p]] = rootOf[parent[p]]
                BY <2>1, <4>1
            <4>3. QED
                BY <1>4, <1>5, <3>2, <3>4, <4>2
        <3>5. QED
            BY <3>3, <3>4
    <2> HIDE DEF T
    <2>2. \A p \in Ids : p \in T
        BY <2>1, IdInduction
    <2>3. QED
        BY <1>1, <2>2 DEF T
<1>7. rootOf'[born + 1] = rootOf'[target[r]]
    BY <1>1, <1>2, <1>5 DEF NoPost
<1>8. QED
    BY <1>3, <1>6, <1>7

-----------------------------------------------------------------------------
(* threadRootID.                                                           *)

LEMMA TopStep ==
    ASSUME Forest
    PROVE  \A p \in Ids : Top(p) = IF parent[p] \in alive THEN Top(parent[p]) ELSE p
<1> DEFINE up[q \in Ids] == IF parent[q] \in alive THEN up[parent[q]] ELSE q
           more == {q \in Ids : parent[q] \in alive}
<1>1. \A q \in Ids : q \in more => parent[q] \in Ids
    BY IdsAreNumbers DEF Forest
<1>2. PICK g \in [Ids -> Ids] :
          \A q \in Ids : g[q] = IF q \in more THEN g[parent[q]] ELSE q
    <2> HIDE DEF more
    <2>1. StaysInside(parent, more)
        BY <1>1 DEF StaysInside
    <2>2. EndsSomewhere(parent, more)
        BY <2>1, Climb DEF Forest
    <2>3. QED
        BY <2>2 DEF EndsSomewhere
<1>3. g = [q \in Ids |-> IF parent[q] \in alive THEN g[parent[q]] ELSE q]
    BY <1>2
<1>4. up = [q \in Ids |-> IF parent[q] \in alive THEN up[parent[q]] ELSE q]
    BY <1>3
<1>5. \A p \in Ids : Top(p) = up[p]
    BY DEF Top
<1> HIDE DEF up
<1>6. QED
    BY <1>1, <1>4, <1>5

LEMMA TopInThread ==
    ASSUME Forest
    PROVE  \A p \in Ids : Top(p) \in 1 .. p /\ rootOf[Top(p)] = rootOf[p]
<1> DEFINE T == {p \in Ids : Top(p) \in 1 .. p /\ rootOf[Top(p)] = rootOf[p]}
<1>1. ASSUME NEW p \in Ids, \A q \in Ids : q < p => q \in T
      PROVE  p \in T
    <2>1. CASE parent[p] \in alive
        <3>1. parent[p] \in Ids /\ parent[p] < p /\ parent[p] # NoPost /\ p \in Nat
            BY <2>1, IdsAreNumbers DEF Forest, Downward, NoPost
        <3>2. Top(parent[p]) \in 1 .. parent[p] /\ rootOf[Top(parent[p])] = rootOf[parent[p]]
            BY <1>1, <3>1
        <3>3. Top(p) = Top(parent[p]) /\ rootOf[p] = rootOf[parent[p]]
            BY <2>1, <3>1, TopStep, TrueRootStep DEF Forest
        <3>4. parent[p] \in Nat
            BY <3>1, IdsAreNumbers
        <3>5. 1 .. parent[p] \subseteq 1 .. p
            BY <3>1, <3>4
        <3>6. Top(p) \in 1 .. p
            BY <3>2, <3>3, <3>5
        <3>7. QED
            BY <3>2, <3>3, <3>6
    <2>2. CASE parent[p] \notin alive
        <3>1. Top(p) = p
            BY <2>2, TopStep
        <3>2. p \in 1 .. p
            BY IdsAreNumbers
        <3>3. QED
            BY <3>1, <3>2
    <2>3. QED
        BY <2>1, <2>2
<1> HIDE DEF T
<1>2. \A p \in Ids : p \in T
    BY <1>1, IdInduction
<1>3. QED
    BY <1>2 DEF T

(* The key of a post is a post of its thread.                              *)
LEMMA KeyInThread ==
    ASSUME Forest, NEW p \in 1 .. born
    PROVE  Together(ThreadRoot(p), p) /\ Together(Fallback(p), p)
<1>1. p \in Ids /\ p \in Nat /\ born \in Nat
    BY IdsAreNumbers DEF Forest
<1>2. Together(p, p)
    BY DEF Together
<1>3. Top(p) \in 1 .. p /\ rootOf[Top(p)] = rootOf[p]
    BY <1>1, TopInThread
<1>4. Top(p) \in Ids /\ Top(p) \in 1 .. born
    BY <1>1, <1>3, IdsAreNumbers
<1>5. CASE p \notin alive
    BY <1>2, <1>5 DEF ThreadRoot, Fallback
<1>6. CASE p \in alive /\ parent[Top(p)] = NoPost
    BY <1>2, <1>3, <1>4, <1>6 DEF ThreadRoot, Fallback, Together
<1>7. CASE p \in alive /\ parent[Top(p)] # NoPost
    <2>1. parent[Top(p)] \in Ids /\ parent[Top(p)] < Top(p)
        BY <1>4, <1>7, UpIsId DEF Forest, Downward
    <2>2. \A x, t \in Ids : x < t /\ t \in 1 .. born => x \in 1 .. born
        BY <1>1, IdsAreNumbers
    <2>3. parent[Top(p)] \in 1 .. born
        BY <1>4, <2>1, <2>2
    <2>4. rootOf[parent[Top(p)]] = rootOf[Top(p)]
        BY <1>4, <1>7, TrueRootStep DEF Forest
    <2>5. QED
        BY <1>2, <1>3, <1>7, <2>3, <2>4 DEF ThreadRoot, Fallback, Together
<1>8. QED
    BY <1>5, <1>6, <1>7

(* While nothing inside a thread went, it is the root of the thread.       *)
LEMMA KeyIsRoot ==
    ASSUME Forest, Gapless
    PROVE  \A p \in Ids : p \in alive \/ parent[p] = NoPost => ThreadRoot(p) = rootOf[p]
<1> DEFINE T == {p \in Ids : p \in alive => ThreadRoot(p) = rootOf[p]}
<1>1. ASSUME NEW p \in Ids, \A q \in Ids : q < p => q \in T
      PROVE  p \in T
    <2>1. SUFFICES ASSUME p \in alive PROVE ThreadRoot(p) = rootOf[p]
        OBVIOUS
    <2>2. rootOf[p] = IF parent[p] = NoPost THEN p ELSE rootOf[parent[p]]
        BY TrueRootStep DEF Forest
    <2>3. CASE parent[p] \in alive
        <3>1. parent[p] \in Ids /\ parent[p] < p /\ parent[p] # NoPost
            BY <2>3, IdsAreNumbers DEF Forest, Downward, NoPost
        <3>2. Top(p) = Top(parent[p])
            BY <2>3, TopStep
        <3>3. ThreadRoot(p) = ThreadRoot(parent[p])
            BY <2>1, <2>3, <3>2 DEF ThreadRoot
        <3>4. QED
            BY <1>1, <2>2, <2>3, <3>1, <3>3
    <2>4. CASE parent[p] \notin alive /\ parent[p] = NoPost
        <3>1. Top(p) = p
            BY <2>4, TopStep
        <3>2. QED
            BY <2>1, <2>2, <2>4, <3>1 DEF ThreadRoot
    <2>5. CASE parent[p] \notin alive /\ parent[p] # NoPost
        <3>1. Top(p) = p
            BY <2>5, TopStep
        <3>2. parent[p] \in Ids
            BY <2>5, UpIsId DEF Forest
        <3>3. parent[parent[p]] = NoPost
            BY <2>5, <3>2 DEF Gapless
        <3>4. rootOf[parent[p]] = parent[p]
            BY <3>2, <3>3, TrueRootStep DEF Forest
        <3>5. QED
            BY <2>1, <2>2, <2>5, <3>1, <3>4 DEF ThreadRoot
    <2>6. QED
        BY <2>3, <2>4, <2>5
<1> HIDE DEF T
<1>2. \A p \in Ids : p \in T
    BY <1>1, IdInduction
<1>3. \A p \in Ids : parent[p] = NoPost => rootOf[p] = p
    BY TrueRootStep DEF Forest
<1>4. QED
    BY <1>2, <1>3 DEF T, ThreadRoot

-----------------------------------------------------------------------------
(* The ids suffice.                                                        *)

LEMMA RoomKept ==
    ASSUME Room, born \in Nat, born' = born, Done \subseteq Done'
    PROVE  Room'
<1>1. Done' \subseteq Requests
    BY DEF Done
<1>2. IsFiniteSet(Done')
    BY <1>1, FS_Subset, ThreadAssumption
<1>3. IsFiniteSet(Done) /\ Cardinality(Done) =< Cardinality(Done')
    BY <1>2, FS_Subset
<1>4. Cardinality(Done) \in Nat /\ Cardinality(Done') \in Nat
    BY <1>2, <1>3, FS_CardinalityType
<1> HIDE DEF Done
<1>5. QED
    BY <1>3, <1>4, ThreadAssumption DEF Room

LEMMA RoomLeft ==
    ASSUME Room, born \in Nat, NEW r \in Requests, r \notin Done
    PROVE  /\ born + 1 \in Ids
           /\ born' = born + 1 /\ Done' = Done \union {r} => Room'
<1>1. Done \union {r} \subseteq Requests
    BY DEF Done
<1>2. IsFiniteSet(Done)
    BY <1>1, FS_Subset, ThreadAssumption
<1>3. Cardinality(Done \union {r}) = Cardinality(Done) + 1
    BY <1>2, FS_AddElement
<1>4. Cardinality(Done \union {r}) =< Cardinality(Requests)
    BY <1>1, FS_Subset, ThreadAssumption
<1>5. Cardinality(Done) \in Nat /\ Cardinality(Requests) \in Nat
    BY <1>2, FS_CardinalityType, ThreadAssumption
<1>6. born + 1 \in Ids
    BY <1>3, <1>4, <1>5, ThreadAssumption DEF Room, Ids
<1>7. ASSUME born' = born + 1, Done' = Done \union {r} PROVE Room'
    <2>1. Cardinality(Done') = Cardinality(Done) + 1
        BY <1>3, <1>7
    <2> HIDE DEF Done
    <2>2. QED
        BY <1>5, <1>7, <2>1, ThreadAssumption DEF Room
<1>8. QED
    BY <1>6, <1>7

-----------------------------------------------------------------------------
(* Steps that leave the posts alone.                                       *)

LEMMA Numbers ==
    ASSUME Inv
    PROVE  /\ born \in Nat /\ 1 .. born \subseteq Ids /\ alive \subseteq Ids
           /\ \A p \in Ids : p # NoPost
BY IdsAreNumbers DEF Inv, Forest, NoPost

LEMMA QuietPosts ==
    ASSUME Inv, UNCHANGED posts
    PROVE  /\ rootOf' = rootOf /\ parent' = parent /\ born' = born /\ alive' = alive
           /\ Forest' /\ (Gapless => Gapless')
<1>1. rootOf' = rootOf
    BY RootKept DEF posts
<1>2. QED
    BY <1>1 DEF posts, Inv, Forest, Downward, Gapless

(* Requests go on, or end.                                                 *)
LEMMA QuietRoom ==
    ASSUME Inv, UNCHANGED posts, NEW r \in Requests, NEW x, pc' = [pc EXCEPT ![r] = x],
           pc[r] \notin Over \/ x \in Over
    PROVE  pc[r] # "refused" => Room'
<1>1. SUFFICES ASSUME pc[r] # "refused" PROVE Room'
    OBVIOUS
<1>2. Done \subseteq Done'
    BY <1>1 DEF Done, Over, Inv, TypeOK
<1>3. QED
    BY <1>2, RoomKept, Numbers DEF Inv, posts

LEMMA ReadAuthorStep ==
    ASSUME Inv, NEW r \in Requests, NEW p \in 1 .. born, ReadAuthor(r, p)
    PROVE  Inv'
<1>1. UNCHANGED posts /\ pc[r] = "new"
    BY DEF ReadAuthor
<1>2. /\ rootOf' = rootOf /\ born' = born /\ alive' = alive
      /\ Forest' /\ (Gapless => Gapless')
    BY <1>1, QuietPosts
<1>3. p \in Ids
    BY Numbers
<1>4. TypeOK' /\ log' \in Seq(Entries)
    BY <1>3 DEF Inv, TypeOK, ReadAuthor, posts, viewer, poller
<1>5. Room'
    BY <1>1, QuietRoom DEF ReadAuthor, Over
<1>6. Keyed'
    BY <1>1, <1>2 DEF Inv, TypeOK, Keyed, Together, Over, ReadAuthor, viewer
<1>7. Told'
    BY <1>1, <1>2 DEF Inv, TypeOK, Told, AuthorTold, Over, ReadAuthor
<1>8. intact' => Heard'
    BY <1>1, <1>2 DEF Inv, TypeOK, Heard, AllHear, Over, ReadAuthor, viewer, poller
<1>9. QED
    BY <1>2, <1>4, <1>5, <1>6, <1>7, <1>8 DEF Inv

LEMMA ReadRootStep ==
    ASSUME Inv, NEW r \in Requests, ReadRoot(r) \/ ReadRootFails(r)
    PROVE  Inv'
<1>1. UNCHANGED posts /\ pc[r] = "root"
    BY DEF ReadRoot, ReadRootFails
<1>2. /\ rootOf' = rootOf /\ born' = born /\ alive' = alive
      /\ Forest' /\ (Gapless => Gapless')
    BY <1>1, QuietPosts
<1>3. PICK k : /\ root' = [root EXCEPT ![r] = k]
               /\ Together(k, target[r])
               /\ intact' => intact /\ k = ThreadRoot(target[r])
    <2>1. target[r] \in 1 .. born
        BY <1>1 DEF Inv, Keyed
    <2>2. Together(ThreadRoot(target[r]), target[r]) /\ Together(Fallback(target[r]), target[r])
        BY <2>1, KeyInThread DEF Inv
    <2>3. QED
        BY <2>2 DEF ReadRoot, ReadRootFails
<1>4. k \in Ids
    BY <1>3, Numbers DEF Together
<1>5. TypeOK' /\ log' \in Seq(Entries)
    <2>1. faults' \in 0 .. MaxFaults
        BY ThreadAssumption DEF Inv, TypeOK, ReadRoot, ReadRootFails, Fault
    <2>2. intact' \in BOOLEAN
        BY DEF Inv, TypeOK, ReadRoot, ReadRootFails
    <2>3. QED
        BY <1>1, <1>3, <1>4, <2>1, <2>2
        DEF Inv, TypeOK, ReadRoot, ReadRootFails, posts, viewer, poller
<1>6. Room'
    BY <1>1, QuietRoom DEF ReadRoot, ReadRootFails, Over
<1>7. Keyed'
    BY <1>1, <1>2, <1>3 DEF Inv, TypeOK, Keyed, Together, Over, ReadRoot, ReadRootFails, viewer
<1>8. Told'
    <2>1. faults' = 0 => faults = 0
        BY ThreadAssumption DEF Inv, TypeOK, ReadRoot, ReadRootFails, Fault
    <2>2. QED
        BY <1>1, <1>2, <2>1
        DEF Inv, TypeOK, Told, AuthorTold, Over, ReadRoot, ReadRootFails
<1>9. intact' => Heard'
    <2>1. SUFFICES ASSUME intact' PROVE Heard'
        OBVIOUS
    <2>2. intact /\ Heard /\ Gapless /\ target[r] \in 1 .. born
        BY <1>1, <1>3, <2>1 DEF Inv, Heard, Keyed
    <2>3. target[r] \in alive => root'[r] = rootOf[target[r]]
        BY <1>3, <2>1, <2>2, KeyIsRoot, Numbers DEF Inv, TypeOK
    <2>4. /\ UNCHANGED <<view, watched, known, key, log, at, got, owed, target>>
          /\ pc' = [pc EXCEPT ![r] = "insert"]
        BY DEF ReadRoot, ReadRootFails, viewer, poller
    <2>5. /\ pc \in [Requests -> {"new", "root", "insert", "notify", "publish",
                                  "created", "refused"}]
          /\ root \in [Requests -> Ids \union {NoPost}]
        BY DEF Inv, TypeOK
    <2>6. \A q \in Requests : q # r => pc'[q] = pc[q] /\ root'[q] = root[q]
        BY <1>3, <2>4, <2>5
    <2>7. pc'[r] = "insert" /\ "insert" \notin Over
        BY <2>4, <2>5 DEF Over
    <2>8. AllHear'
        BY <1>2, <2>2, <2>4 DEF Heard, AllHear
    <2>9. ASSUME NEW q \in Requests
          PROVE  (pc'[q] = "insert" /\ target'[q] \in alive') \/ pc'[q] \in Over =>
                     root'[q] = rootOf'[target'[q]]
        BY <1>2, <2>2, <2>3, <2>4, <2>6, <2>7 DEF Heard
    <2>10. QED
        BY <1>2, <2>2, <2>4, <2>8, <2>9 DEF Heard
<1>10. QED
    BY <1>2, <1>5, <1>6, <1>7, <1>8, <1>9 DEF Inv

(* The request is turned down, or fails, without a row.                    *)
LEMMA RefusedStep ==
    ASSUME Inv, NEW r \in Requests, pc[r] \in {"new", "insert"},
           pc' = [pc EXCEPT ![r] = "refused"], faults' \in faults .. MaxFaults,
           UNCHANGED <<posts, target, author, root, reply, log, viewer, poller, notified, intact>>
    PROVE  Inv'
<1>1. UNCHANGED posts
    OBVIOUS
<1>2. /\ rootOf' = rootOf /\ born' = born /\ alive' = alive
      /\ Forest' /\ (Gapless => Gapless')
    BY <1>1, QuietPosts
<1>3. TypeOK' /\ log' \in Seq(Entries)
    <2>1. faults' \in 0 .. MaxFaults
        BY ThreadAssumption DEF Inv, TypeOK
    <2>2. QED
        BY <1>1, <2>1 DEF Inv, TypeOK, posts, viewer, poller
<1>4. Room'
    BY <1>1, QuietRoom DEF Over
<1>5. Keyed'
    BY <1>2 DEF Inv, TypeOK, Keyed, Together, Over, viewer
<1>6. Told'
    <2>1. faults' = 0 => faults = 0
        BY ThreadAssumption DEF Inv, TypeOK
    <2>2. QED
        BY <1>2, <2>1 DEF Inv, TypeOK, Told, AuthorTold, Over
<1>7. intact' => Heard'
    BY <1>2 DEF Inv, TypeOK, Heard, AllHear, Over, viewer, poller
<1>8. QED
    BY <1>2, <1>3, <1>4, <1>5, <1>6, <1>7 DEF Inv

LEMMA NotifyStep ==
    ASSUME Inv, NEW r \in Requests, NotifyAuthor(r) \/ NotifyFails(r)
    PROVE  Inv'
<1>1. UNCHANGED posts /\ pc[r] = "notify"
    BY DEF NotifyAuthor, NotifyFails
<1>2. /\ rootOf' = rootOf /\ born' = born /\ alive' = alive
      /\ Forest' /\ (Gapless => Gapless')
    BY <1>1, QuietPosts
<1>3. reply[r] \in Ids /\ author[r]
    BY <1>1, Numbers DEF Inv, Keyed, Told, Together, Over
<1>4. TypeOK' /\ log' \in Seq(Entries)
    <2>1. faults' \in 0 .. MaxFaults
        BY ThreadAssumption DEF Inv, TypeOK, NotifyAuthor, NotifyFails, Fault
    <2>2. notified' \subseteq Ids
        BY <1>3 DEF Inv, TypeOK, NotifyAuthor, NotifyFails
    <2>3. QED
        BY <1>1, <2>1, <2>2 DEF Inv, TypeOK, NotifyAuthor, NotifyFails, posts, viewer, poller
<1>5. Room'
    BY <1>1, QuietRoom DEF NotifyAuthor, NotifyFails, Over
<1>6. Keyed'
    BY <1>1, <1>2 DEF Inv, TypeOK, Keyed, Together, Over, NotifyAuthor, NotifyFails, viewer
<1>7. Told'
    <2>1. faults' = 0 => faults = 0 /\ NotifyAuthor(r)
        BY ThreadAssumption DEF Inv, TypeOK, NotifyAuthor, NotifyFails, Fault
    <2>2. notified \subseteq notified' /\ (NotifyAuthor(r) => reply[r] \in notified')
        BY <1>3 DEF NotifyAuthor, NotifyFails, KnowsAuthor
    <2>3. AuthorTold'
        BY <1>1, <2>1, <2>2 DEF Inv, TypeOK, Told, AuthorTold, NotifyAuthor, NotifyFails
    <2>4. QED
        BY <1>1, <1>2, <2>3 DEF Inv, TypeOK, Told, Over, NotifyAuthor, NotifyFails
<1>8. intact' => Heard'
    BY <1>1, <1>2
    DEF Inv, TypeOK, Heard, AllHear, Over, NotifyAuthor, NotifyFails, viewer, poller
<1>9. QED
    BY <1>2, <1>4, <1>5, <1>6, <1>7, <1>8 DEF Inv

(* The row of the event says which key the reply was given.                *)
LEMMA PublishStep ==
    ASSUME Inv, NEW r \in Requests, PublishReply(r) \/ PublishFails(r)
    PROVE  Inv'
<1>1. UNCHANGED posts /\ pc[r] = "publish"
    BY DEF PublishReply, PublishFails
<1>2. /\ rootOf' = rootOf /\ born' = born /\ alive' = alive
      /\ Forest' /\ (Gapless => Gapless')
    BY <1>1, QuietPosts
<1> DEFINE e == [key |-> root[r], post |-> reply[r]]
<1>3. /\ target[r] \in 1 .. born /\ root[r] \in 1 .. born /\ reply[r] \in 1 .. born
      /\ rootOf[root[r]] = rootOf[reply[r]]
    BY <1>1 DEF Inv, Keyed, Together, Over
<1>4. e \in Entries /\ e.key = root[r] /\ e.post = reply[r]
    BY <1>3, Numbers DEF Entries
<1>5. log \in Seq(Entries) /\ (log' = Append(log, e) \/ log' = log)
    BY DEF Inv, PublishReply, PublishFails
<1> HIDE DEF e
<1>6. /\ Len(log) \in Nat /\ log' \in Seq(Entries) /\ Len(log') \in Len(log) .. Len(log) + 1
      /\ \A i \in 1 .. Len(log') : (i \in 1 .. Len(log) /\ log'[i] = log[i]) \/ log'[i] = e
    BY <1>4, <1>5
<1>7. faults' \in 0 .. MaxFaults /\ (faults' = 0 => faults = 0)
    BY ThreadAssumption DEF Inv, TypeOK, PublishReply, PublishFails, Fault
<1>8. TypeOK'
    <2>1. \A i \in 1 .. Len(log') : log'[i].post \in 1 .. born' /\ log'[i].key \in Ids
        BY <1>2, <1>3, <1>4, <1>6, Numbers DEF Inv, TypeOK
    <2>2. at' \in 0 .. Len(log')
        BY <1>6 DEF Inv, TypeOK, PublishReply, PublishFails, poller
    <2>3. QED
        BY <1>1, <1>7, <2>1, <2>2
        DEF Inv, TypeOK, PublishReply, PublishFails, posts, viewer, poller
<1>9. Room'
    BY <1>1, QuietRoom DEF PublishReply, PublishFails, Over
<1>10. Keyed'
    <2>1. \A i \in 1 .. Len(log') : Together(log[i].key, log[i].post)'
        BY <1>2, <1>3, <1>4, <1>6 DEF Inv, Keyed, Together
    <2>2. QED
        BY <1>1, <1>2, <2>1 DEF Inv, TypeOK, Keyed, Together, Over, PublishReply, PublishFails, viewer
<1>11. Told'
    BY <1>1, <1>2, <1>7
    DEF Inv, TypeOK, Told, AuthorTold, Over, PublishReply, PublishFails
<1>12. intact' => Heard'
    <2>1. SUFFICES ASSUME intact' PROVE Heard'
        OBVIOUS
    <2>2. Heard
        BY <2>1 DEF Inv, PublishReply, PublishFails
    <2>3. root[r] = rootOf[reply[r]]
        BY <1>1, <2>2 DEF Inv, Keyed, Together, Heard, Over
    <2>4. \A i \in 1 .. Len(log') : log'[i].key = rootOf'[log'[i].post]
        BY <1>2, <1>4, <1>6, <2>2, <2>3 DEF Heard
    <2>5. QED
        BY <1>1, <1>2, <2>2, <2>4
        DEF Inv, TypeOK, Heard, AllHear, Over, PublishReply, PublishFails, viewer, poller
<1>13. QED
    BY <1>2, <1>6, <1>8, <1>9, <1>10, <1>11, <1>12 DEF Inv

-----------------------------------------------------------------------------
(* The row of posts.                                                       *)

LEMMA RowStep ==
    ASSUME Inv, NEW r \in Requests, pc[r] = "insert", target[r] \in alive, NewReply(r),
           \/ pc' = [pc EXCEPT ![r] = "notify"] /\ reply' = [reply EXCEPT ![r] = born']
           \/ pc' = [pc EXCEPT ![r] = "refused"] /\ reply' = reply,
           faults' \in faults .. MaxFaults,
           UNCHANGED <<target, author, root, log, viewer, poller, notified, intact>>
    PROVE  Inv'
<1>1. /\ target[r] \in 1 .. born /\ alive \subseteq 1 .. born
      /\ born' = born + 1 /\ alive' = alive \union {born + 1}
      /\ parent' = [parent EXCEPT ![born + 1] = target[r]]
    BY DEF Inv, Keyed, Forest, NewReply
<1>2. born \in Nat /\ 1 .. born \subseteq Ids
    BY Numbers
<1>3. r \notin Done
    BY DEF Done, Over
<1>4. born + 1 \in Ids
    BY <1>2, <1>3, RoomLeft DEF Inv
<1>5. /\ 1 .. born' = 1 .. born \union {born + 1} /\ born + 1 \notin 1 .. born
      /\ 1 .. born \subseteq 1 .. born'
    BY <1>1, <1>2
<1>6. /\ Downward(parent')
      /\ \A q \in 1 .. born : rootOf'[q] = rootOf[q]
      /\ rootOf'[born + 1] = rootOf[target[r]]
    BY <1>1, <1>4, RootGrown DEF Inv
<1>7. Forest'
    <2>1. \A q \in Ids : q > born + 1 => parent'[q] = NoPost
        BY <1>1, <1>2, IdsAreNumbers DEF Inv, Forest, Downward
    <2>2. QED
        BY <1>1, <1>4, <1>5, <1>6, <2>1 DEF Forest
<1>8. faults' \in 0 .. MaxFaults /\ (faults' = 0 => faults = 0)
    BY ThreadAssumption DEF Inv, TypeOK
<1>9. TypeOK' /\ log' \in Seq(Entries)
    <2>1. \A i \in 1 .. Len(log') : log'[i].post \in 1 .. born' /\ log'[i].key \in Ids
        BY <1>5 DEF Inv, TypeOK
    <2>2. parent' \in [Ids -> Ids \union {NoPost}] /\ alive' \subseteq 1 .. born'
        BY <1>1, <1>2, <1>5 DEF Inv, TypeOK
    <2>3. reply' \in [Requests -> Ids \union {NoPost}]
        BY <1>1, <1>4 DEF Inv, TypeOK
    <2>4. QED
        BY <1>1, <1>4, <1>8, <2>1, <2>2, <2>3 DEF Inv, TypeOK, viewer, poller
<1>10. Room'
    <2>1. Done' = Done \union {r}
        BY DEF Done, Over, Inv, TypeOK
    <2>2. QED
        BY <1>1, <1>2, <1>3, <2>1, RoomLeft DEF Inv
<1>11. \A a, b : Together(a, b) =>
            a \in 1 .. born' /\ b \in 1 .. born' /\ rootOf'[a] = rootOf'[b]
    BY <1>5, <1>6 DEF Together
<1>12. Keyed'
    <2>1. \A q \in Requests :
            /\ pc'[q] \in {"root", "insert"} \union Over => target[q] \in 1 .. born
            /\ pc'[q] \in {"insert"} \union Over => Together(root[q], target[q])
            /\ pc'[q] \in Over => q = r \/ Together(reply[q], target[q])
        BY <1>1 DEF Inv, TypeOK, Keyed, Over
    <2>2. \A q \in Requests : q # r => reply'[q] = reply[q]
        BY DEF Inv, TypeOK
    <2>3. pc'[r] \in Over => reply'[r] = born + 1
        BY <1>1 DEF Inv, TypeOK, Over
    <2>4. Together(reply[r], target[r])' \/ pc'[r] \notin Over
        BY <1>1, <1>5, <1>6, <2>3 DEF Together
    <2>5. \A q \in Requests :
            /\ pc'[q] \in {"root", "insert"} \union Over => target'[q] \in 1 .. born'
            /\ pc'[q] \in {"insert"} \union Over => Together(root[q], target[q])'
        BY <1>5, <1>11, <2>1 DEF Together
    <2>6. \A q \in Requests : pc'[q] \in Over => Together(reply[q], target[q])'
        BY <1>11, <2>1, <2>2, <2>4 DEF Together
    <2>7. \A i \in 1 .. Len(log') : Together(log[i].key, log[i].post)'
        <3>1. \A i \in 1 .. Len(log) : Together(log[i].key, log[i].post)
            BY DEF Inv, Keyed
        <3>2. QED
            BY <1>11, <3>1 DEF Together
    <2>8. \A v \in Viewers : view'[v] # "closed" => Together(key[v], watched[v])'
        <3>1. \A v \in Viewers : view[v] # "closed" => Together(key[v], watched[v])
            BY DEF Inv, Keyed
        <3>2. QED
            BY <1>11, <3>1 DEF Together, viewer
    <2>9. QED
        BY <2>5, <2>6, <2>7, <2>8 DEF Keyed
<1>13. \A q \in Requests :
          pc[q] \in {"root", "insert"} \union Over => (target[q] \in alive' => target[q] \in alive)
    BY <1>1, <1>5 DEF Inv, Keyed
<1>14. Told'
    BY <1>8, <1>13 DEF Inv, TypeOK, Told, AuthorTold, Over
<1>15. intact' => Heard'
    <2>1. SUFFICES ASSUME intact' PROVE Heard'
        OBVIOUS
    <2>2. Heard
        BY <2>1 DEF Inv
    <2>3. Gapless'
        <3>1. SUFFICES ASSUME NEW q \in Ids, NEW c \in Ids, q \notin alive', parent'[c] = q
                       PROVE  parent'[q] = NoPost
            BY DEF Gapless
        <3>2. c # born + 1 /\ q # born + 1
            BY <1>1, <1>4, <3>1 DEF Inv, TypeOK
        <3>3. parent[c] = q /\ q \notin alive /\ parent'[q] = parent[q]
            BY <1>1, <3>1, <3>2 DEF Inv, TypeOK
        <3>4. QED
            BY <2>2, <3>1, <3>3 DEF Heard, Gapless
    <2>4. \A q \in Requests :
            (pc'[q] = "insert" /\ target'[q] \in alive') \/ pc'[q] \in Over =>
                root'[q] = rootOf'[target'[q]]
        <3>1. SUFFICES ASSUME NEW q \in Requests,
                              (pc'[q] = "insert" /\ target'[q] \in alive') \/ pc'[q] \in Over
                       PROVE  root[q] = rootOf'[target[q]]
            OBVIOUS
        <3>2. pc[q] \in {"insert"} \union Over
            BY <3>1 DEF Inv, TypeOK, Over
        <3>3. target[q] \in 1 .. born
            BY <3>2 DEF Inv, Keyed
        <3>4. target[q] \in alive \/ pc[q] \in Over
            BY <1>13, <3>1, <3>2 DEF Inv, TypeOK, Over
        <3>5. root[q] = rootOf[target[q]]
            BY <2>2, <3>2, <3>4 DEF Heard
        <3>6. QED
            BY <1>6, <3>3, <3>5
    <2>5. \A i \in 1 .. Len(log') : log'[i].key = rootOf'[log'[i].post]
        BY <1>6, <2>2 DEF Inv, Keyed, Together, Heard
    <2>6. \A v \in Viewers : view'[v] # "closed" /\ known'[v] => key'[v] = rootOf'[watched'[v]]
        BY <1>6, <2>2 DEF Inv, Keyed, Together, Heard, viewer
    <2>7. QED
        BY <2>2, <2>3, <2>4, <2>5, <2>6 DEF Heard, AllHear, poller
<1>16. QED
    BY <1>7, <1>9, <1>10, <1>12, <1>14, <1>15 DEF Inv

LEMMA InsertStep ==
    ASSUME Inv, NEW r \in Requests, InsertReply(r) \/ CreateFails(r)
    PROVE  Inv'
<1>1. faults \in 0 .. MaxFaults
    BY DEF Inv, TypeOK
<1>2. faults' \in faults .. MaxFaults
    BY <1>1, ThreadAssumption DEF InsertReply, CreateFails, Fault
<1>3. CASE InsertReply(r) /\ target[r] \in alive
    BY <1>2, <1>3, RowStep DEF InsertReply
<1>4. CASE InsertReply(r) /\ target[r] \notin alive
    BY <1>2, <1>4, RefusedStep DEF InsertReply
<1>5. CASE CreateFails(r) /\ UNCHANGED posts
    BY <1>2, <1>5, RefusedStep DEF CreateFails
<1>6. CASE CreateFails(r) /\ ~ UNCHANGED posts
    BY <1>2, <1>6, RowStep DEF CreateFails
<1>7. QED
    BY <1>3, <1>4, <1>5, <1>6

(* What is deleted without leaving a gap does not move a key.              *)
LEMMA DeleteStep ==
    ASSUME Inv, NEW p \in Ids, DeletePost(p)
    PROVE  Inv'
<1>1. /\ rootOf' = rootOf /\ born' = born /\ parent' = parent
      /\ alive' = alive \ {p} /\ alive' \subseteq alive
    BY RootKept DEF DeletePost
<1>2. Forest'
    BY <1>1 DEF Inv, Forest, Downward
<1>3. TypeOK' /\ log' \in Seq(Entries)
    BY <1>1 DEF Inv, TypeOK, DeletePost, replier, viewer, poller
<1>4. Room'
    BY <1>1, RoomKept, Numbers DEF DeletePost, Inv, Done, replier
<1>5. Keyed'
    BY <1>1 DEF Inv, Keyed, Together, DeletePost, replier, viewer
<1>6. Told'
    BY <1>1 DEF Inv, Told, AuthorTold, DeletePost, replier
<1>7. intact' => Heard'
    <2>1. SUFFICES ASSUME intact' PROVE Heard'
        OBVIOUS
    <2>2. Heard /\ (parent[p] = NoPost \/ \A q \in Ids : parent[q] # p)
        BY <2>1 DEF Inv, DeletePost
    <2>3. Gapless'
        BY <1>1, <2>2 DEF Heard, Gapless
    <2>4. QED
        BY <1>1, <2>2, <2>3 DEF Heard, AllHear, DeletePost, replier, viewer, poller
<1>8. QED
    BY <1>2, <1>3, <1>4, <1>5, <1>6, <1>7 DEF Inv

-----------------------------------------------------------------------------
(* Viewers.                                                                *)

LEMMA ResolveStep ==
    ASSUME Inv, NEW v \in Viewers, NEW p \in 1 .. born, Resolve(v, p)
    PROVE  Inv'
<1>1. UNCHANGED posts /\ view[v] = "closed"
    BY DEF Resolve
<1>2. /\ rootOf' = rootOf /\ parent' = parent /\ born' = born /\ alive' = alive
      /\ Forest' /\ (Gapless => Gapless')
    BY <1>1, QuietPosts
<1>3. p \in Ids
    BY Numbers
<1>4. PICK k : /\ key' = [key EXCEPT ![v] = k]
               /\ Together(k, p)
               /\ intact' => intact /\ k = ThreadRoot(p)
    <2>1. Together(ThreadRoot(p), p) /\ Together(Fallback(p), p)
        BY KeyInThread DEF Inv
    <2>2. QED
        BY <2>1 DEF Resolve
<1>5. k \in Ids
    BY <1>4, Numbers DEF Together
<1>6. faults' \in 0 .. MaxFaults /\ (faults' = 0 => faults = 0)
    BY ThreadAssumption DEF Inv, TypeOK, Resolve, Fault
<1>7. TypeOK' /\ log' \in Seq(Entries)
    <2>1. intact' \in BOOLEAN
        BY DEF Inv, TypeOK, Resolve
    <2>2. known' \in [Viewers -> BOOLEAN] /\ key' \in [Viewers -> Ids \union {NoPost}]
        BY <1>4, <1>5 DEF Inv, TypeOK, Resolve
    <2>3. QED
        BY <1>3, <1>6, <2>1, <2>2 DEF Inv, TypeOK, Resolve, posts, replier, poller
<1>8. Room'
    BY <1>2, RoomKept, Numbers DEF Resolve, Inv, Done, replier
<1>9. Keyed'
    BY <1>2, <1>4 DEF Inv, TypeOK, Keyed, Together, Resolve, replier
<1>10. Told'
    BY <1>2, <1>6 DEF Inv, Told, AuthorTold, Resolve, replier
<1>11. intact' => Heard'
    <2>1. SUFFICES ASSUME intact' PROVE Heard'
        OBVIOUS
    <2>2. Heard /\ Gapless /\ k = ThreadRoot(p)
        BY <1>4, <2>1 DEF Inv, Heard
    <2>3. known'[v] => k = rootOf[p]
        BY <1>3, <2>2, KeyIsRoot DEF Inv, TypeOK, Resolve
    <2>4. \A w \in Viewers : view'[w] # "closed" /\ known'[w] => key'[w] = rootOf'[watched'[w]]
        BY <1>2, <1>4, <2>2, <2>3 DEF Inv, TypeOK, Heard, Resolve
    <2>5. QED
        BY <1>2, <2>2, <2>4 DEF Heard, AllHear, Resolve, replier, poller
<1>12. QED
    BY <1>2, <1>7, <1>8, <1>9, <1>10, <1>11 DEF Inv

LEMMA StreamStep ==
    ASSUME Inv, NEW v \in Viewers, SubscribeThread(v) \/ CloseStream(v)
    PROVE  Inv'
<1>1. UNCHANGED posts
    BY DEF SubscribeThread, CloseStream
<1>2. /\ rootOf' = rootOf /\ born' = born /\ alive' = alive
      /\ Forest' /\ (Gapless => Gapless')
    BY <1>1, QuietPosts
<1>3. TypeOK' /\ log' \in Seq(Entries)
    <2>1. CASE SubscribeThread(v)
        BY <1>1, <2>1 DEF Inv, TypeOK, SubscribeThread, posts, replier, poller
    <2>2. CASE CloseStream(v)
        BY <1>1, <2>2 DEF Inv, TypeOK, CloseStream, posts, replier, poller
    <2>3. QED
        BY <2>1, <2>2
<1>4. Room'
    BY <1>2, RoomKept, Numbers DEF SubscribeThread, CloseStream, Inv, Done, replier
<1>5. Keyed'
    <2>1. /\ pc' = pc /\ target' = target /\ root' = root /\ reply' = reply
          /\ log' = log
        BY DEF SubscribeThread, CloseStream, replier
    <2>2. \A w \in Viewers :
              view'[w] # "closed" => view[w] # "closed" /\ key'[w] = key[w] /\ watched'[w] = watched[w]
        BY DEF SubscribeThread, CloseStream, Inv, TypeOK
    <2>3. QED
        BY <1>2, <2>1, <2>2 DEF Inv, Keyed, Together
<1>6. Told'
    BY <1>2 DEF Inv, Told, AuthorTold, SubscribeThread, CloseStream, replier
<1>7. intact' => Heard'
    BY <1>2 DEF Inv, TypeOK, Heard, AllHear, SubscribeThread, CloseStream, replier, poller
<1>8. QED
    BY <1>2, <1>3, <1>4, <1>5, <1>6, <1>7 DEF Inv

-----------------------------------------------------------------------------
(* The poller.                                                             *)

LEMMA DeliverStep ==
    ASSUME Inv, Deliver
    PROVE  Inv'
<1> DEFINE e == log[at + 1]
           sent == {v \in Viewers : view[v] = "open" /\ key[v] = e.key /\ e.post \in alive}
           due == IF e.post \in alive THEN Audience(e.post) ELSE {}
           Put(f, S) == [v \in Viewers |-> IF v \in S THEN f[v] \union {e.post} ELSE f[v]]
<1>1. /\ UNCHANGED <<posts, replier, log, viewer, notified, intact, faults>>
      /\ at < Len(log) /\ at' = at + 1
      /\ got' = Put(got, sent) /\ owed' = Put(owed, due)
    BY DEF Deliver
<1>2. /\ rootOf' = rootOf /\ born' = born /\ alive' = alive
      /\ Forest' /\ (Gapless => Gapless')
    BY <1>1, QuietPosts
<1>3. Len(log) \in Nat /\ at \in 0 .. Len(log)
    BY DEF Inv, TypeOK
<1>4. at + 1 \in 1 .. Len(log)
    BY <1>1, <1>3
<1>5. e.post \in 1 .. born
    BY <1>4 DEF Inv, TypeOK
<1>6. e.post \in Ids
    BY <1>5, Numbers
<1>7. TypeOK' /\ log' \in Seq(Entries)
    <2>1. got' \in [Viewers -> SUBSET Ids] /\ owed' \in [Viewers -> SUBSET Ids]
        <3> HIDE DEF e, sent, due
        <3>1. QED
            BY <1>1, <1>6 DEF Inv, TypeOK
    <2>2. at' \in 0 .. Len(log')
        BY <1>1, <1>3
    <2> HIDE DEF e, sent, due, Put
    <2>3. QED
        BY <1>1, <2>1, <2>2 DEF Inv, TypeOK, posts, replier, viewer
<1>8. Room'
    BY <1>1, <1>2, RoomKept, Numbers DEF Inv, Done, replier
<1>9. Keyed'
    BY <1>1, <1>2 DEF Inv, Keyed, Together, replier, viewer
<1>10. Told'
    BY <1>1, <1>2 DEF Inv, Told, AuthorTold, replier
<1>11. intact' => Heard'
    <2>1. SUFFICES ASSUME intact' PROVE Heard'
        OBVIOUS
    <2>2. Heard
        BY <1>1, <2>1 DEF Inv
    <2>3. e.key = rootOf[e.post]
        BY <1>4, <2>2 DEF Heard
    <2>4. ASSUME NEW v \in Audience(e.post)
          PROVE  key[v] = e.key
        <3>1. v \in Viewers /\ view[v] = "open" /\ known[v]
            BY <2>4 DEF Audience
        <3>2. watched[v] \in Ids
            BY <3>1, Numbers DEF Inv, Keyed, Together
        <3>3. rootOf[watched[v]] = rootOf[e.post]
            BY <1>6, <2>4, <3>2 DEF Audience, SameThread, rootOf
        <3>4. QED
            BY <2>2, <2>3, <3>1, <3>3 DEF Heard
    <2>5. due \subseteq sent
        BY <2>4 DEF Audience
    <2>6. AllHear'
        <3> HIDE DEF e, sent, due
        <3>1. QED
            BY <1>1, <2>2, <2>5 DEF Heard, AllHear
    <2> HIDE DEF e, sent, due, Put
    <2>7. QED
        BY <1>1, <1>2, <2>2, <2>6 DEF Heard, replier, viewer
<1>12. QED
    BY <1>2, <1>7, <1>8, <1>9, <1>10, <1>11 DEF Inv

LEMMA GiveUpStep ==
    ASSUME Inv, GiveUp
    PROVE  Inv'
<1>1. UNCHANGED posts
    BY DEF GiveUp
<1>2. /\ rootOf' = rootOf /\ born' = born /\ alive' = alive
      /\ Forest' /\ (Gapless => Gapless')
    BY <1>1, QuietPosts
<1>3. faults' \in 0 .. MaxFaults /\ (faults' = 0 => faults = 0)
    BY ThreadAssumption DEF Inv, TypeOK, GiveUp, Fault
<1>4. TypeOK' /\ log' \in Seq(Entries)
    <2>1. at' \in 0 .. Len(log')
        BY DEF Inv, TypeOK, GiveUp
    <2>2. QED
        BY <1>3, <2>1 DEF Inv, TypeOK, GiveUp, posts, replier, viewer
<1>5. Room'
    BY <1>2, RoomKept, Numbers DEF GiveUp, Inv, Done, replier
<1>6. Keyed'
    BY <1>2 DEF Inv, Keyed, Together, GiveUp, replier, viewer
<1>7. Told'
    BY <1>2, <1>3 DEF Inv, Told, AuthorTold, GiveUp, replier
<1>8. ~ intact'
    BY DEF GiveUp
<1>9. QED
    BY <1>2, <1>4, <1>5, <1>6, <1>7, <1>8 DEF Inv

-----------------------------------------------------------------------------
(* The invariant, and what follows.                                        *)

LEMMA InvInit == Init => Inv
<1> SUFFICES ASSUME Init PROVE Inv
    OBVIOUS
<1>1. Cardinality(Requests) \in Nat /\ NumPosts \in Nat \ {0}
    BY IdsAreNumbers, ThreadAssumption
<1>2. NumPosts \in Ids /\ 1 .. NumPosts \subseteq Ids
    BY <1>1 DEF Ids
<1>3. parent \in [Ids -> 0 .. NumPosts - 1]
    BY DEF Init
<1>4. \A p \in Ids : p > NumPosts => parent[p] = NoPost
    BY DEF Init
<1>5. \A q \in Ids : parent[q] \in Nat /\ parent[q] < q
    <2>1. SUFFICES ASSUME NEW q \in Ids PROVE parent[q] \in Nat /\ parent[q] < q
        OBVIOUS
    <2>2. q \in Nat \ {0} /\ parent[q] \in Nat
        BY <1>1, <1>3, IdsAreNumbers
    <2>3. CASE q > NumPosts
        BY <1>4, <2>2, <2>3 DEF NoPost
    <2>4. CASE ~ (q > NumPosts)
        BY <2>2, <2>4 DEF Init
    <2>5. QED
        BY <2>3, <2>4
<1>6. Downward(parent)
    BY <1>3, <1>5 DEF Downward
<1>7. Forest
    BY <1>2, <1>4, <1>6 DEF Init, Forest
<1>8. parent \in [Ids -> Ids \union {NoPost}]
    <2>1. \A q \in Ids : parent[q] # NoPost => parent[q] \in Ids
        BY <1>6, UpIsId
    <2>2. QED
        BY <1>3, <2>1
<1>9. TypeOK /\ log \in Seq(Entries)
    <2>1. 0 \in 0 .. MaxFaults
        BY ThreadAssumption
    <2>2. QED
        BY <1>2, <1>8, <2>1 DEF Init, TypeOK
<1>10. Room
    <2>1. Done = {}
        BY DEF Init, Done, Over
    <2>2. Cardinality(Done) = 0
        BY <2>1, FS_EmptySet
    <2>3. QED
        BY <1>1, <2>2 DEF Init, Room
<1>11. Keyed /\ Told
    BY DEF Init, Keyed, Told, AuthorTold, Over
<1>12. Heard
    <2>1. Gapless
        <3>1. SUFFICES ASSUME NEW q \in Ids, NEW c \in Ids, q \notin alive, parent[c] = q
                       PROVE  FALSE
            BY DEF Gapless
        <3>2. q \in Nat \ {0} /\ q \in 0 .. NumPosts - 1
            BY <1>3, <3>1, IdsAreNumbers
        <3>3. q \in 1 .. NumPosts
            BY <1>1, <3>2
        <3>4. QED
            BY <3>1, <3>3 DEF Init
    <2>2. QED
        BY <2>1 DEF Init, Heard, AllHear, Over
<1>13. QED
    BY <1>7, <1>9, <1>10, <1>11, <1>12 DEF Inv

LEMMA StutterStep ==
    ASSUME Inv, UNCHANGED vars
    PROVE  Inv'
<1>1. UNCHANGED posts
    BY DEF vars
<1>2. /\ rootOf' = rootOf /\ born' = born /\ alive' = alive
      /\ Forest' /\ (Gapless => Gapless')
    BY <1>1, QuietPosts
<1>3. TypeOK' /\ log' \in Seq(Entries) /\ Keyed' /\ Told' /\ (intact' => Heard')
    BY <1>2 DEF vars, posts, replier, viewer, poller, Inv, TypeOK, Keyed, Together, Told,
                AuthorTold, Heard, AllHear
<1>4. Room'
    BY <1>2, RoomKept, Numbers DEF vars, replier, Inv, Done
<1>5. QED
    BY <1>2, <1>3, <1>4 DEF Inv

LEMMA InvStep == Inv /\ [Next]_vars => Inv'
<1> SUFFICES ASSUME Inv, [Next]_vars PROVE Inv'
    OBVIOUS
<1>1. ASSUME NEW r \in Requests, Create(r) PROVE Inv'
    <2>1. CASE \E p \in 1 .. born : ReadAuthor(r, p)
        BY <2>1, ReadAuthorStep
    <2>2. CASE ReadRoot(r) \/ ReadRootFails(r)
        BY <2>2, ReadRootStep
    <2>3. CASE InsertReply(r) \/ CreateFails(r)
        BY <2>3, InsertStep
    <2>4. CASE NotifyAuthor(r) \/ NotifyFails(r)
        BY <2>4, NotifyStep
    <2>5. CASE PublishReply(r) \/ PublishFails(r)
        BY <2>5, PublishStep
    <2>6. QED
        BY <1>1, <2>1, <2>2, <2>3, <2>4, <2>5 DEF Create
<1>2. ASSUME NEW v \in Viewers, Stream(v) PROVE Inv'
    BY <1>2, ResolveStep, StreamStep DEF Stream
<1>3. CASE Deliver \/ GiveUp
    BY <1>3, DeliverStep, GiveUpStep
<1>4. ASSUME NEW p \in Ids, DeletePost(p) PROVE Inv'
    BY <1>4, DeleteStep
<1>5. CASE UNCHANGED vars
    BY <1>5, StutterStep
<1>6. QED
    BY <1>1, <1>2, <1>3, <1>4, <1>5 DEF Next

(* The invariant holds whatever is deleted and whatever fails.             *)
THEOREM ThreadInvariant == Spec => []Inv
<1>1. QED
    BY InvInit, InvStep, PTL DEF Spec

(* Types: among others, there is an id for every reply.                    *)
THEOREM ThreadTyping == Spec => []TypeOK
<1>1. Inv => TypeOK
    BY DEF Inv
<1>2. QED
    BY <1>1, ThreadInvariant, PTL

(* A stream and an event that have the same key are of the same thread, in *)
(* any forest, whatever was deleted and whichever lookup failed            *)
(* (handler.go, threadRootID and its fallback).                            *)
THEOREM KeysApart == Spec => []NoCrossTalk
<1>1. Inv => NoCrossTalk
    <2>1. SUFFICES ASSUME Inv, NEW v \in Viewers, NEW i \in 1 .. Len(log),
                          view[v] # "closed", key[v] = log[i].key
                   PROVE  SameThread(watched[v], log[i].post)
        BY DEF NoCrossTalk
    <2>2. Together(key[v], watched[v]) /\ Together(log[i].key, log[i].post)
        BY <2>1 DEF Inv, Keyed
    <2>3. /\ watched[v] \in Ids /\ log[i].post \in Ids
          /\ rootOf[watched[v]] = rootOf[log[i].post]
        BY <2>1, <2>2, Numbers DEF Together
    <2>4. QED
        BY <2>3 DEF SameThread, rootOf
<1>2. QED
    BY <1>1, ThreadInvariant, PTL

(* While only roots and leaves of threads go and no lookup fails, every    *)
(* reply reaches whoever watches its thread (docs/api.md:36-37).           *)
THEOREM AllMeet == Spec => []AllHearWhileIntact
<1>1. Inv => AllHearWhileIntact
    BY DEF Inv, Heard, AllHearWhileIntact
<1>2. QED
    BY <1>1, ThreadInvariant, PTL

(* The author of the parent is told of a reply that was created, unless a  *)
(* statement fails (reply.go:33-34): the parent cannot have been there for *)
(* the INSERT and not before.                                              *)
THEOREM AuthorAlwaysTold == Spec => []AuthorTold
<1>1. Inv => AuthorTold
    BY DEF Inv, Told
<1>2. QED
    BY <1>1, ThreadInvariant, PTL
=============================================================================
