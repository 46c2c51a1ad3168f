----------------------------- MODULE ReadsProofs -----------------------------
(***************************************************************************)
(* Theorems about what is read while others write: lists in pages (module  *)
(* Lists) and threads (module PostReads), for any number of entries or     *)
(* posts, any page size and depth, and any number of writes and failures.  *)
(*                                                                         *)
(* Lists.  Each request cuts its page at a place of the list, so what a    *)
(* client will still be shown is what is behind the last cut (Rest).  A    *)
(* write moves at most one entry across the cut in each direction          *)
(* (Removal): the one that is missed or repeated for it is paid for by the *)
(* write (MissedSoFar, RepeatedSoFar).  At the end the total says that     *)
(* nothing is behind the cut (AtLeastFirst), so nothing else is missed.    *)
(*                                                                         *)
(* PostReads.  Posts that were there all along never change, and the       *)
(* request works through them in order: what is to be in the answer is in  *)
(* it, or its id is on the stack of fetchReplyTree, or its parent is the   *)
(* next whose replies are listed (WentDown).  At the answer the stack is   *)
(* empty and no list is next.                                              *)
(*                                                                         *)
(* What the two ways to build an answer give (SameAsSingle) is a fact of   *)
(* each state.  Rows refer to earlier ones (Backwards), so each recursion  *)
(* can be built up to any bound and is what its body says (SingleIs,       *)
(* BelowIs, RowsFromIs, BulkDepthIs).  Both count the rows below a post    *)
(* (RowsAreBelow, CountsAgree), and the rest is induction over the calls   *)
(* of fetchPostsBulkDepth (BulkIsSingle).                                  *)
(***************************************************************************)
EXTENDS Lists, PostReads, FiniteSetTheorems, SequenceTheorems, WellFoundedInduction, TLAPS

-----------------------------------------------------------------------------
(* Lists.                                                                  *)

(* o puts the entries E in a strict order.                                 *)
Strict(o, E) ==
    /\ \A a \in E : <<a, a>> \notin o
    /\ \A a, b \in E : a = b \/ <<a, b>> \in o \/ <<b, a>> \in o
    /\ \A a, b, c \in E : <<a, b>> \in o /\ <<b, c>> \in o => <<a, c>> \in o

(* The entries before k in the order o, and k.                             *)
Upto(E, o, k) == {e \in E : e = k \/ <<e, k>> \in o}

(* The place of k.                                                         *)
RankIn(E, o, k) == Cardinality(Upto(E, o, k))

(* The entries of E that come later than place n.                          *)
Beyond(E, o, n) == {k \in E : n < RankIn(E, o, k)}

(* A set of natural numbers has a least one.                               *)
LEMMA Least ==
    ASSUME NEW T, T \subseteq Nat, T # {}
    PROVE  \E x \in T : \A y \in T : x =< y
<1> DEFINE R == {e \in Nat \X Nat : e[1] < e[2]}
<1>1. IsWellFoundedOn(R, Nat)
    BY NatLessThanWellFounded DEF OpToRel
<1>2. PICK x \in T : \A y \in T : ~ (<<y, x>> \in R)
    <2> HIDE DEF R
    <2>1. QED
        BY <1>1, WFMin
<1>3. \A y \in T : x \in Nat /\ y \in Nat /\ ~ (y < x)
    BY <1>2
<1>4. QED
    BY <1>3

(* A place is a number.                                                    *)
LEMMA RankType ==
    ASSUME NEW E, IsFiniteSet(E), NEW o, NEW k
    PROVE  IsFiniteSet(Upto(E, o, k)) /\ RankIn(E, o, k) \in Nat
  BY FS_Subset, FS_CardinalityType, Upto(E, o, k) \subseteq E DEF Upto, RankIn

(* A subset of a finite set is finite and has no more elements.            *)
LEMMA SmallerSet ==
    ASSUME NEW S, IsFiniteSet(S), NEW T \in SUBSET S
    PROVE  /\ IsFiniteSet(T) /\ Cardinality(T) \in Nat /\ Cardinality(S) \in Nat
           /\ Cardinality(T) <= Cardinality(S)
           /\ T # S => Cardinality(T) < Cardinality(S)
  BY FS_Subset, FS_CardinalityType

(* What comes first has the smaller place.                                 *)
LEMMA RankGrows ==
    ASSUME NEW E, IsFiniteSet(E), NEW o, Strict(o, E),
           NEW a \in E, NEW b \in E, <<a, b>> \in o
    PROVE  RankIn(E, o, a) < RankIn(E, o, b)
<1>1. Upto(E, o, a) \subseteq Upto(E, o, b)
  BY DEF Upto, Strict
<1>2. b \in Upto(E, o, b) /\ b \notin Upto(E, o, a)
  BY DEF Upto, Strict
<1> QED
  BY <1>1, <1>2, RankType, SmallerSet DEF RankIn

(* At most n entries have the places 1 to n ...                            *)
LEMMA AtMostFirst ==
    ASSUME NEW E, IsFiniteSet(E), NEW o, Strict(o, E), NEW n \in Nat
    PROVE  Cardinality(E \ Beyond(E, o, n)) <= n
<1> DEFINE A == E \ Beyond(E, o, n)
<1>1. CASE A = {}
  BY <1>1, FS_EmptySet
<1>2. CASE A # {}
  <2>1. \A a \in A : RankIn(E, o, a) \in Nat /\ RankIn(E, o, a) <= n
    BY RankType DEF Beyond
  <2> DEFINE D == {n - RankIn(E, o, a) : a \in A}
  <2>2. D \subseteq Nat /\ D # {}
    BY <2>1, <1>2
  <2>3. PICK d \in D : \A e \in D : d <= e
    <3> HIDE DEF D
    <3> QED BY <2>2, Least
  <2>4. PICK m \in A : d = n - RankIn(E, o, m)
    BY <2>3
  <2>5. \A a \in A : RankIn(E, o, a) <= RankIn(E, o, m)
    <3> SUFFICES ASSUME NEW a \in A PROVE RankIn(E, o, a) <= RankIn(E, o, m)
      OBVIOUS
    <3>1. n - RankIn(E, o, m) <= n - RankIn(E, o, a)
      BY <2>3, <2>4
    <3> QED BY <3>1, <2>1
  <2>6. A \subseteq Upto(E, o, m)
    <3> SUFFICES ASSUME NEW a \in A PROVE a = m \/ <<a, m>> \in o
      BY DEF Upto
    <3> a \in E /\ m \in E
      OBVIOUS
    <3>1. ~ <<m, a>> \in o
      BY <2>5, <2>1, RankGrows
    <3> QED BY <3>1 DEF Strict
  <2> QED BY <2>6, <2>1, RankType, SmallerSet DEF RankIn
<1> QED BY <1>1, <1>2

(* ... and at least n when there are later ones: no place is empty.        *)
LEMMA AtLeastFirst ==
    ASSUME NEW E, IsFiniteSet(E), NEW o, Strict(o, E), NEW n \in Nat,
           Beyond(E, o, n) # {}
    PROVE  n <= Cardinality(E \ Beyond(E, o, n))
<1> DEFINE A == E \ Beyond(E, o, n)
           D == {RankIn(E, o, b) : b \in Beyond(E, o, n)}
<1>1. D \subseteq Nat /\ D # {}
  BY RankType
<1>2. PICK d \in D : \A e \in D : d <= e
  <2> HIDE DEF D
  <2> QED BY <1>1, Least
<1>3. PICK b \in Beyond(E, o, n) : d = RankIn(E, o, b)
  BY <1>2
<1>4. RankIn(E, o, b) \in Nat /\ n < RankIn(E, o, b) /\ b \in E
  BY RankType DEF Beyond
<1>5. Upto(E, o, b) \ {b} \subseteq A
  <2> SUFFICES ASSUME NEW e \in E, <<e, b>> \in o, e \in Beyond(E, o, n) PROVE FALSE
    BY DEF Upto
  <2>1. RankIn(E, o, e) < RankIn(E, o, b)
    BY <1>4, RankGrows
  <2>2. RankIn(E, o, e) \in D
    OBVIOUS
  <2> QED BY <2>1, <2>2, <1>2, <1>3, <1>1, <1>4
<1>6. b \in Upto(E, o, b)
  BY <1>4 DEF Upto
<1>7. Cardinality(Upto(E, o, b) \ {b}) = RankIn(E, o, b) - 1
  BY <1>6, RankType, FS_RemoveElement DEF RankIn
<1>8. IsFiniteSet(A)
  BY FS_Subset
<1>9. Cardinality(Upto(E, o, b) \ {b}) <= Cardinality(A) /\ Cardinality(A) \in Nat
  BY <1>5, <1>8, SmallerSet
<1> QED BY <1>9, <1>7, <1>4

(* When one entry goes, at most one other moves up across the cut behind   *)
(* place n (OFFSET n), and none moves down.                                *)
LEMMA Removal ==
    ASSUME NEW E, IsFiniteSet(E), NEW o, Strict(o, E), NEW n \in Nat, NEW d, NEW p,
           \A a, b \in E \ {d} : <<a, b>> \in p <=> <<a, b>> \in o
    PROVE  /\ Beyond(E \ {d}, p, n) \subseteq Beyond(E, o, n)
           /\ IsFiniteSet(Beyond(E, o, n) \ Beyond(E \ {d}, p, n))
           /\ Cardinality(Beyond(E, o, n) \ Beyond(E \ {d}, p, n)) <= 1
           /\ d \notin E => Beyond(E \ {d}, p, n) = Beyond(E, o, n)
<1> DEFINE F == E \ {d}
           B == Beyond(E, o, n)
           C == Beyond(F, p, n)
           A == E \ B
           Z == F \ C
<1>1. IsFiniteSet(F) /\ Strict(p, F)
  <2>1. IsFiniteSet(F)
    BY FS_Subset
  <2>2. Strict(p, F)
    BY DEF Strict
  <2> QED BY <2>1, <2>2
<1>2. \A k \in F : Upto(F, p, k) \subseteq Upto(E, o, k)
  BY DEF Upto
<1>3. C \subseteq B
  <2> SUFFICES ASSUME NEW k \in F, n < RankIn(F, p, k) PROVE n < RankIn(E, o, k)
    BY DEF Beyond
  <2>1. RankIn(F, p, k) <= RankIn(E, o, k)
    BY <1>2, RankType, SmallerSet DEF RankIn
  <2> QED BY <2>1, <1>1, RankType
<1>4. IsFiniteSet(B \ C) /\ IsFiniteSet(A) /\ IsFiniteSet(Z) /\ IsFiniteSet(Z \ A) /\ IsFiniteSet(A \ {d})
  BY FS_Subset DEF Beyond
<1>5. d \notin E => C = B
  <2> SUFFICES ASSUME d \notin E PROVE C = B
    OBVIOUS
  <2>1. F = E
    OBVIOUS
  <2>2. \A k \in E : Upto(F, p, k) = Upto(E, o, k)
    BY <2>1 DEF Upto
  <2> QED BY <2>1, <2>2 DEF Beyond, RankIn
<1>6. B \ C \subseteq (Z \ A) \union {d}
  BY DEF Beyond
<1>7. CASE Z \ A = {}
  <2>1. B \ C \subseteq {d}
    BY <1>6, <1>7
  <2>2. Cardinality(B \ C) <= 1
    <3> HIDE DEF B, C
    <3>1. IsFiniteSet({d}) /\ Cardinality({d}) = 1
      BY FS_Singleton
    <3> QED BY <2>1, <3>1, SmallerSet
  <2> QED BY <2>2, <1>3, <1>4, <1>5
<1>8. CASE Z \ A # {}
  <2>1. B # {}
    BY <1>8
  <2>2. n <= Cardinality(A)
    BY <2>1, AtLeastFirst
  <2>3. Cardinality(Z) <= n
    BY <1>1, AtMostFirst
  <2>4. A \ {d} \subseteq Z
    BY <1>3
  <2>5. Z = (A \ {d}) \union (Z \ A) /\ (A \ {d}) \intersect (Z \ A) = {}
    BY <2>4
  <2>6. Cardinality(Z) = Cardinality(A \ {d}) + Cardinality(Z \ A)
    <3> HIDE DEF A, Z
    <3> DEFINE X == A \ {d}
               Y == Z \ A
    <3>1. IsFiniteSet(X) /\ IsFiniteSet(Y) /\ Z = X \union Y /\ X \intersect Y = {}
      BY <2>5, <1>4
    <3> SUFFICES Cardinality(Z) = Cardinality(X) + Cardinality(Y)
      OBVIOUS
    <3> HIDE DEF X, Y
    <3>2. Cardinality(X \union Y) = Cardinality(X) + Cardinality(Y) - Cardinality(X \intersect Y)
      BY <3>1, FS_Union
    <3>3. Cardinality(X \intersect Y) = 0 /\ Cardinality(X) \in Nat /\ Cardinality(Y) \in Nat
      BY <3>1, FS_EmptySet, FS_CardinalityType
    <3> QED BY <3>1, <3>2, <3>3
  <2>7. CASE d \in A
    <3>1. Cardinality(A \ {d}) = Cardinality(A) - 1
      BY <2>7, <1>4, FS_RemoveElement
    <3>2. Cardinality(Z \ A) <= 1
      BY <3>1, <2>2, <2>3, <2>6, <1>4, FS_CardinalityType
    <3>3. B \ C \subseteq Z \ A
      BY <2>7, <1>6
    <3>4. Cardinality(B \ C) <= Cardinality(Z \ A) /\ Cardinality(B \ C) \in Nat /\ Cardinality(Z \ A) \in Nat
      <4> HIDE DEF A, Z, B, C
      <4> QED BY <3>3, <1>4, SmallerSet
    <3>5. Cardinality(B \ C) <= 1
      BY <3>2, <3>4
    <3> QED BY <3>5, <1>3, <1>4, <1>5
  <2>8. CASE d \notin A
    <3>1. A \ {d} = A
      BY <2>8
    <3>2. Cardinality(A) \in Nat /\ Cardinality(Z \ A) \in Nat /\ Cardinality(Z \ A) # 0
      <4> HIDE DEF A, Z
      <4> QED BY <1>4, <1>8, FS_EmptySet, FS_CardinalityType
    <3>3. Cardinality(Z) = Cardinality(A) + Cardinality(Z \ A)
      BY <3>1, <2>6
    <3> QED BY <3>2, <3>3, <2>2, <2>3
  <2> QED BY <2>7, <2>8
<1> QED BY <1>7, <1>8

(* How many elements a union has.                                          *)
LEMMA UnionBound ==
    ASSUME NEW S, IsFiniteSet(S), NEW T, IsFiniteSet(T)
    PROVE  /\ IsFiniteSet(S \union T)
           /\ Cardinality(S \union T) \in Nat /\ Cardinality(S) \in Nat /\ Cardinality(T) \in Nat
           /\ Cardinality(S \union T) <= Cardinality(S) + Cardinality(T)
<1>1. /\ IsFiniteSet(S \union T)
      /\ Cardinality(S \union T) =
            Cardinality(S) + Cardinality(T) - Cardinality(S \intersect T)
  BY FS_Union
<1>2. IsFiniteSet(S \intersect T)
  BY FS_Intersection
<1> QED BY <1>1, <1>2, FS_CardinalityType

(* What the pages to come are cut from, if the list t in the order o stays *)
(* as it is: whatever is behind the last page that was cut                 *)
(* (handler.go:47-58), and all that a request for the next one would still *)
(* read.                                                                   *)
RestOf(t, o) ==
    IF list = "people" /\ pc # "list" THEN {}
    ELSE Beyond({k \in t : want \in {All, TypeOf[k]}}, o,
                IF pc = "list" THEN Offset(page) ELSE Offset(page) + PerPage)

Rest == RestOf(table, order)

(* The rows of the page that is being loaded.                              *)
OnPage == IF pc = "load" THEN ids ELSE {}

(* The entries that were there at the start, and neither were shown nor    *)
(* will be if nothing changes any more.                                    *)
Missing == ((start \ (shown \union OnPage)) \ Rest) \ gone

(* People and users are in the order of their ids.                         *)
Numbered == list \in {"users", "people"} => order = Ascending(table)

(* Users are never deleted.                                                *)
OnlyPostsGo == gone # {} => list \in {"notifications", "feed"}

(* The list of people has one page.                                        *)
FirstPage == list = "people" /\ pc = "list" => shown = {}

(* Each entry that is missed has another, or itself, that left its place.  *)
MissedSoFar == ~ failed => Cardinality(Missing) <= left

(* Entries that were shown twice, or will be, came to their place.         *)
RepeatedSoFar ==
    again + Cardinality(OnPage \intersect shown)
          + Cardinality(Rest \intersect (shown \union OnPage)) <= came

(* The same at the end of the list, when nothing is to come.               *)
MissedAtEnd ==
    (pc = "done" \/ (pc = "page" /\ ~ MorePages)) /\ ~ failed =>
        Cardinality((start \ gone) \ shown) <= left

(* The inductive invariant of Lists.                                       *)
ListInv ==
    /\ TypeOK
    /\ Strict(order, table)
    /\ Numbered
    /\ OnlyPostsGo
    /\ FirstPage
    /\ MissedSoFar
    /\ RepeatedSoFar
    /\ MissedAtEnd

(* All the sets of entries are finite.                                     *)
LEMMA KeysFinite ==
    /\ IsFiniteSet(Keys) /\ Cardinality(Keys) = NumKeys
    /\ \A S \in SUBSET Keys :
        IsFiniteSet(S) /\ Cardinality(S) \in Nat /\ Cardinality(S) <= NumKeys
<1>1. IsFiniteSet(Keys) /\ Cardinality(Keys) = NumKeys
  <2>1. Cardinality(1 .. NumKeys) = NumKeys
    BY ListsAssumption, FS_Interval
  <2> QED BY <2>1, FS_Interval, ListsAssumption DEF Keys
<1> QED BY <1>1, SmallerSet

(* The pages follow each other without a gap (pagination,                  *)
(* handler.go:47-58).                                                      *)
LEMMA OffsetsAreNumbers ==
    \A n \in Nat \ {0} : /\ Offset(n) \in Nat /\ Offset(n) + PerPage \in Nat
                         /\ Offset(n) + PerPage = Offset(n + 1)
                         /\ Offset(n) + PerPage = n * PerPage
<1> SUFFICES ASSUME NEW n \in Nat \ {0}
             PROVE  /\ Offset(n) \in Nat /\ Offset(n) + PerPage \in Nat
                    /\ Offset(n) + PerPage = Offset(n + 1)
                    /\ Offset(n) + PerPage = n * PerPage
  OBVIOUS
<1>1. PICK m \in Nat : n = m + 1
  BY n - 1 \in Nat, n = (n - 1) + 1
<1>2. m * PerPage \in Nat /\ n - 1 = m /\ (n + 1) - 1 = m + 1
  BY <1>1, ListsAssumption
<1>3. (m + 1) * PerPage = m * PerPage + PerPage
  BY <1>1, ListsAssumption
<1> QED BY <1>1, <1>2, <1>3, ListsAssumption DEF Offset

(* What is to come is in the list.                                         *)
LEMMA RestSize ==
    ASSUME TypeOK, NEW t \in SUBSET Keys, NEW o
    PROVE  RestOf(t, o) \subseteq t
  BY DEF RestOf, Beyond

(* An entry that goes takes at most one entry out of what is to come:      *)
(* itself, or the first behind the cut.                                    *)
LEMMA DropOne ==
    ASSUME TypeOK, NEW t \in SUBSET Keys, NEW o, Strict(o, t), NEW k, NEW p,
           \A a, b \in t \ {k} : <<a, b>> \in p <=> <<a, b>> \in o
    PROVE  /\ RestOf(t \ {k}, p) \subseteq RestOf(t, o)
           /\ IsFiniteSet(RestOf(t, o) \ RestOf(t \ {k}, p))
           /\ Cardinality(RestOf(t, o) \ RestOf(t \ {k}, p)) <= 1
           /\ k \notin t => RestOf(t \ {k}, p) = RestOf(t, o)
<1> DEFINE E == {e \in t : want \in {All, TypeOf[e]}}
           F == {e \in t \ {k} : want \in {All, TypeOf[e]}}
           n == IF pc = "list" THEN Offset(page) ELSE Offset(page) + PerPage
<1>1. CASE list = "people" /\ pc # "list"
  BY <1>1, FS_EmptySet DEF RestOf
<1>2. CASE ~ (list = "people" /\ pc # "list")
  <2>1. RestOf(t, o) = Beyond(E, o, n) /\ RestOf(t \ {k}, p) = Beyond(F, p, n)
    BY <1>2 DEF RestOf
  <2>2. F = E \ {k} /\ E \subseteq t /\ (k \notin t => k \notin E)
    OBVIOUS
  <2>3. n \in Nat
    BY OffsetsAreNumbers DEF TypeOK
  <2>4. IsFiniteSet(E)
    BY <2>2, KeysFinite
  <2>5. Strict(o, E)
    BY <2>2 DEF Strict
  <2>6. \A a, b \in E \ {k} : <<a, b>> \in p <=> <<a, b>> \in o
    BY <2>2
  <2> HIDE DEF E, F, n
  <2>7. /\ Beyond(E \ {k}, p, n) \subseteq Beyond(E, o, n)
        /\ IsFiniteSet(Beyond(E, o, n) \ Beyond(E \ {k}, p, n))
        /\ Cardinality(Beyond(E, o, n) \ Beyond(E \ {k}, p, n)) <= 1
        /\ k \notin E => Beyond(E \ {k}, p, n) = Beyond(E, o, n)
    BY <2>3, <2>4, <2>5, <2>6, Removal
  <2> QED BY <2>1, <2>2, <2>7
<1> QED BY <1>1, <1>2

(* What is not in the list takes nothing with it.                          *)
LEMMA NoneDropped ==
    ASSUME NEW t, NEW o, NEW k, k \notin t, NEW p,
           \A a, b \in t \ {k} : <<a, b>> \in p <=> <<a, b>> \in o
    PROVE  RestOf(t \ {k}, p) = RestOf(t, o)
<1>1. t \ {k} = t
  OBVIOUS
<1>2. ASSUME NEW E, E \subseteq t, NEW n
      PROVE  Beyond(E, p, n) = Beyond(E, o, n)
  <2>1. \A e \in E : Upto(E, p, e) = Upto(E, o, e)
    BY <1>1, <1>2 DEF Upto
  <2> QED BY <2>1 DEF Beyond, RankIn
<1>3. {e \in t : want \in {All, TypeOf[e]}} \subseteq t
  OBVIOUS
<1> QED BY <1>1, <1>2, <1>3 DEF RestOf

(* The same for the list that is read, when an entry leaves it (Leave).    *)
LEMMA EntryGoes ==
    ASSUME ListInv, NEW k \in Keys,
           table' = table \ {k}, order' = Among(table \ {k}),
           UNCHANGED <<list, want, start, pc, page, ids, shown>>
    PROVE  /\ Rest' \subseteq Rest
           /\ IsFiniteSet(Rest \ Rest') /\ Cardinality(Rest \ Rest') <= 1
           /\ Strict(order', table') /\ order' \subseteq table' \X table'
<1>1. \A a, b \in table \ {k} : <<a, b>> \in order' <=> <<a, b>> \in order
  BY DEF Among
<1>2. Rest' = RestOf(table \ {k}, order')
  BY DEF Rest, RestOf, Offset
<1>3. TypeOK /\ Strict(order, table) /\ table \in SUBSET Keys
  BY DEF ListInv, TypeOK
<1>4. Strict(order', table')
  <2>1. \A a, b \in table' : <<a, b>> \in order' <=> <<a, b>> \in order
    BY <1>1
  <2> QED BY <2>1, <1>3 DEF Strict
<1>5. order' \subseteq table' \X table'
  BY DEF Among

<1>6. /\ RestOf(table \ {k}, order') \subseteq RestOf(table, order)
      /\ IsFiniteSet(RestOf(table, order) \ RestOf(table \ {k}, order'))
      /\ Cardinality(RestOf(table, order) \ RestOf(table \ {k}, order')) <= 1
  BY <1>1, <1>3, DropOne
<1> QED BY <1>2, <1>4, <1>5, <1>6 DEF Rest

(* An entry that comes, or comes to another place, moves at most one entry *)
(* out of what is to come, and none if it is new, and at most one into it  *)
(* (Enter).                                                                *)
LEMMA EntryComes ==
    ASSUME ListInv, NEW k \in Keys, NEW ahead \in Places(k), Enter(k, ahead),
           UNCHANGED <<list, want, start, pc, page, ids, shown>>
    PROVE  /\ Strict(order', table') /\ order' \subseteq table' \X table'
           /\ \E S \in SUBSET Keys :
                /\ S \subseteq Rest /\ S \subseteq Rest'
                /\ IsFiniteSet(Rest \ S) /\ Cardinality(Rest \ S) <= 1
                /\ IsFiniteSet(Rest' \ S) /\ Cardinality(Rest' \ S) <= 1
                /\ k \notin table => S = Rest
<1> DEFINE T == table \ {k}
<1>0. TypeOK /\ Strict(order, table) /\ table \in SUBSET Keys
  BY DEF ListInv, TypeOK
<1>1. /\ table' = T \union {k} /\ ahead \subseteq T
      /\ \A e \in ahead, f \in T : <<f, e>> \in order => f \in ahead
  BY DEF Enter, Places
<1>2. \A a, b : <<a, b>> \in order' <=>
                  \/ a \in T /\ b \in T /\ <<a, b>> \in order
                  \/ a \in ahead /\ b = k
                  \/ a = k /\ b \in T \ ahead
  BY <1>1 DEF Enter, Among
<1>3. order' \subseteq table' \X table'
  BY <1>1 DEF Enter, Among
<1>4. Strict(order', table')
  <2>1. \A a \in table' : <<a, a>> \notin order'
    BY <1>0, <1>1, <1>2 DEF Strict
  <2>2. \A a, b \in table' : a = b \/ <<a, b>> \in order' \/ <<b, a>> \in order'
    BY <1>0, <1>1, <1>2 DEF Strict
  <2>3. ASSUME NEW a \in table', NEW b \in table', NEW c \in table',
               <<a, b>> \in order', <<b, c>> \in order'
        PROVE  <<a, c>> \in order'
    <3>1. \A x, y, z \in T : <<x, y>> \in order /\ <<y, z>> \in order => <<x, z>> \in order
      BY <1>0 DEF Strict
    <3>2. \A x, y \in T : x = y \/ <<x, y>> \in order \/ <<y, x>> \in order
      BY <1>0 DEF Strict
    <3>3. CASE a = k
      BY <3>3, <3>1, <1>1, <1>2, <2>3
    <3>4. CASE b = k
      BY <3>4, <3>1, <3>2, <1>1, <1>2, <2>3
    <3>5. CASE c = k
      BY <3>5, <3>1, <1>1, <1>2, <2>3
    <3>6. CASE a # k /\ b # k /\ c # k
      BY <3>6, <3>1, <1>1, <1>2, <2>3
    <3> QED BY <3>3, <3>4, <3>5, <3>6
  <2> QED BY <2>1, <2>2, <2>3 DEF Strict
<1> DEFINE S == RestOf(T, order')
<1>5. \A a, b \in T : <<a, b>> \in order' <=> <<a, b>> \in order
  BY <1>2
<1>6. /\ S \subseteq Rest /\ IsFiniteSet(Rest \ S) /\ Cardinality(Rest \ S) <= 1
      /\ k \notin table => S = Rest
  <2>1. TypeOK /\ Strict(order, table) /\ table \in SUBSET Keys
    BY <1>0
  <2>2. \A a, b \in table \ {k} : <<a, b>> \in order' <=> <<a, b>> \in order
    BY <1>5
  <2>3. /\ RestOf(table \ {k}, order') \subseteq RestOf(table, order)
        /\ IsFiniteSet(RestOf(table, order) \ RestOf(table \ {k}, order'))
        /\ Cardinality(RestOf(table, order) \ RestOf(table \ {k}, order')) <= 1
    BY <2>1, <2>2, DropOne
  <2>4. k \notin table => RestOf(table \ {k}, order') = RestOf(table, order)
    BY <2>1, <2>2, NoneDropped
  <2> QED BY <2>3, <2>4 DEF Rest
<1>7. Rest' = RestOf(table', order')
  BY DEF Rest, RestOf, Offset
<1>8. table' \in SUBSET Keys /\ table' \ {k} = T
  BY <1>0, <1>1
<1>9. S \subseteq Rest' /\ IsFiniteSet(Rest' \ S) /\ Cardinality(Rest' \ S) <= 1
  <2>1. /\ RestOf(table' \ {k}, order') \subseteq RestOf(table', order')
        /\ IsFiniteSet(RestOf(table', order') \ RestOf(table' \ {k}, order'))
        /\ Cardinality(RestOf(table', order') \ RestOf(table' \ {k}, order')) <= 1
    BY <1>0, <1>4, <1>8, DropOne
  <2> QED BY <2>1, <1>7, <1>8
<1>10. S \in SUBSET Keys
  BY <1>0, RestSize
<1> QED BY <1>3, <1>4, <1>6, <1>9, <1>10

(* What is to come are entries.                                            *)
LEMMA RestInKeys == TypeOK => Rest \subseteq Keys
  BY RestSize DEF Rest, TypeOK

(* The invariant holds when the client begins.                             *)
LEMMA InitInv == Init => ListInv
<1> SUFFICES ASSUME Init PROVE ListInv
  OBVIOUS
<1> USE ListsAssumption
<1>1. order \subseteq table \X table /\ Strict(order, table) /\ Numbered
  <2>1. CASE list = "notifications" /\ order = {e \in table \X table : e[1] > e[2]}
    BY <2>1 DEF Init, Strict, Numbered, Keys
  <2>2. CASE list \in {"footprints", "feed"} /\ order \in Orders(table)
    BY <2>2 DEF Strict, Numbered, Orders
  <2>3. CASE list \in {"users", "people"} /\ order = Ascending(table)
    BY <2>3 DEF Init, Strict, Numbered, Ascending, Keys
  <2> QED BY <2>1, <2>2, <2>3 DEF Init
<1>2. TypeOK
  <2>1. /\ list \in {"notifications", "footprints", "users", "feed", "people"}
        /\ want \in Types \union {All} /\ unread \subseteq table
    BY DEF Init
  <2>2. table \subseteq Keys /\ start \subseteq Keys
    BY DEF Init, Entries
  <2>3. came = 0 /\ left = 0 /\ page = 1 /\ again = 0 /\ total = 0
    BY DEF Init
  <2>4. came + left <= MaxWrites + 1 /\ total \in 0 .. NumKeys
    BY <2>3
  <2>5. /\ gone = {} /\ ids = {} /\ shown = {} /\ badge = {}
        /\ pc = "list" /\ failed \in BOOLEAN
    BY DEF Init
  <2> QED BY <1>1, <2>1, <2>2, <2>3, <2>4, <2>5 DEF TypeOK
<1>3. Rest = Entries
  <2>1. Offset(1) = 0
    BY DEF Offset
  <2>2. Rest = Beyond(Entries, order, 0)
    BY <2>1 DEF Init, Rest, RestOf, Entries
  <2>3. \A k \in Entries : 0 < RankIn(Entries, order, k)
    <3> TAKE k \in Entries
    <3>1. IsFiniteSet(Entries)
      BY <1>2, KeysFinite DEF TypeOK, Entries
    <3>2. k \in Upto(Entries, order, k)
      BY DEF Upto
    <3> QED BY <3>1, <3>2, RankType, FS_EmptySet DEF RankIn
  <2> QED BY <2>2, <2>3 DEF Beyond
<1>4. Missing = {} /\ OnPage = {} /\ shown = {}
  BY <1>3 DEF Init, Missing, OnPage
<1>5. MissedSoFar /\ RepeatedSoFar
  <2>1. OnPage \intersect shown = {} /\ Rest \intersect (shown \union OnPage) = {}
    BY <1>4
  <2> QED BY <1>4, <2>1, FS_EmptySet DEF Init, MissedSoFar, RepeatedSoFar
<1> QED BY <1>1, <1>2, <1>5 DEF ListInv, Init, OnlyPostsGo, FirstPage, MissedAtEnd

(* A write that moves no more than one entry out of what is to come, and   *)
(* no more than one into it, and is counted for it, keeps the invariant.   *)
LEMMA WritesDriftByOne ==
    ASSUME ListInv, TypeOK', pc # "done", gone \subseteq gone',
           UNCHANGED <<list, want, start, pc, failed, page, answer>>,
           NEW S \in SUBSET Keys, S \subseteq Rest, S \subseteq Rest',
           IsFiniteSet(Rest \ S), IsFiniteSet(Rest' \ S),
           \/ left' = left /\ S = Rest
           \/ left' = left + 1 /\ Cardinality(Rest \ S) <= 1,
           \/ came' = came /\ S = Rest'
           \/ came' = came + 1 /\ Cardinality(Rest' \ S) <= 1
    PROVE  MissedSoFar' /\ RepeatedSoFar' /\ MissedAtEnd' /\ FirstPage'
<1> USE DEF answer
<1>0. TypeOK /\ MissedSoFar /\ RepeatedSoFar /\ MissedAtEnd /\ FirstPage
  BY DEF ListInv
<1>1. OnPage' = OnPage /\ shown' = shown /\ OnPage \subseteq Keys /\ shown \subseteq Keys
  BY <1>0 DEF OnPage, TypeOK
<1>2. /\ IsFiniteSet(Missing) /\ IsFiniteSet(Missing')
      /\ Cardinality(Missing) \in Nat /\ Cardinality(Missing') \in Nat
  BY <1>0, <1>1, KeysFinite DEF Missing, TypeOK
<1>3. MissedSoFar'
  <2>1. Missing' \subseteq Missing \union (Rest \ S)
    BY <1>1 DEF Missing
  <2>2. /\ Cardinality(Missing \union (Rest \ S)) <= Cardinality(Missing) + Cardinality(Rest \ S)
        /\ IsFiniteSet(Missing \union (Rest \ S))
        /\ Cardinality(Rest \ S) \in Nat
        /\ Cardinality(Missing \union (Rest \ S)) \in Nat
    BY <1>2, UnionBound
  <2>3. Cardinality(Missing') <= Cardinality(Missing) + Cardinality(Rest \ S)
    BY <1>2, <2>1, <2>2, SmallerSet
  <2>4. S = Rest => Cardinality(Rest \ S) = 0
    BY FS_EmptySet
  <2>5. failed' = failed /\ left \in Nat
    BY <1>0 DEF TypeOK
  <2> QED BY <1>0, <1>2, <2>2, <2>3, <2>4, <2>5 DEF MissedSoFar
<1>4. RepeatedSoFar'
  <2> DEFINE Got1 == shown \union OnPage
  <2>1. Rest' \intersect Got1 \subseteq (Rest \intersect Got1) \union (Rest' \ S)
    OBVIOUS
  <2>2. IsFiniteSet(Rest \intersect Got1) /\ Got1 \in SUBSET Keys
    BY <1>1, KeysFinite
  <2>3. /\ Cardinality((Rest \intersect Got1) \union (Rest' \ S))
                <= Cardinality(Rest \intersect Got1) + Cardinality(Rest' \ S)
        /\ IsFiniteSet((Rest \intersect Got1) \union (Rest' \ S))
        /\ Cardinality(Rest' \ S) \in Nat /\ Cardinality(Rest \intersect Got1) \in Nat
        /\ Cardinality((Rest \intersect Got1) \union (Rest' \ S)) \in Nat
    BY <2>2, UnionBound
  <2>4. /\ Cardinality(Rest' \intersect Got1) \in Nat
        /\ Cardinality(Rest' \intersect Got1) <= Cardinality(Rest \intersect Got1) + Cardinality(Rest' \ S)
    BY <2>1, <2>3, SmallerSet
  <2>5. S = Rest' => Cardinality(Rest' \ S) = 0
    BY FS_EmptySet
  <2>6. again' = again /\ again \in Nat /\ came \in Nat
    BY <1>0 DEF TypeOK
  <2>7. Cardinality(OnPage \intersect shown) \in Nat
    BY <1>1, KeysFinite
  <2>8. again' + Cardinality(OnPage \intersect shown) + Cardinality(Rest' \intersect Got1) <= came'
    BY <1>0, <2>3, <2>4, <2>5, <2>6, <2>7 DEF RepeatedSoFar
  <2> QED BY <2>8, <1>1 DEF RepeatedSoFar
<1>5. MissedAtEnd'
  <2>1. (start \ gone') \ shown \subseteq (start \ gone) \ shown
    OBVIOUS
  <2>2. Cardinality((start \ gone') \ shown) <= Cardinality((start \ gone) \ shown)
    BY <2>1, <1>0, KeysFinite, SmallerSet DEF TypeOK
  <2>3. Cardinality((start \ gone') \ shown) \in Nat /\ Cardinality((start \ gone) \ shown) \in Nat
    BY <1>0, KeysFinite DEF TypeOK
  <2>4. left \in Nat /\ left' \in Nat /\ left <= left'
    BY <1>0 DEF TypeOK
  <2> QED BY <1>0, <2>2, <2>3, <2>4 DEF MissedAtEnd, MorePages
<1>6. FirstPage'
  BY <1>0 DEF FirstPage
<1> QED BY <1>3, <1>4, <1>5, <1>6

(* The counts of writes keep their type.                                   *)
LEMMA FewWrites ==
    ASSUME TypeOK, came + left < MaxWrites
    PROVE  /\ came + 1 \in Nat /\ left + 1 \in Nat
           /\ (came + 1) + left <= MaxWrites + 1
           /\ came + (left + 1) <= MaxWrites + 1
           /\ (came + 1) + (left + 1) <= MaxWrites + 1
  BY ListsAssumption DEF TypeOK

(* Whatever comes keeps the invariant.                                     *)
LEMMA EnterKeeps ==
    ASSUME ListInv, Write, NEW k \in Keys, k \notin gone,
           NEW ahead \in Places(k), Enter(k, ahead),
           unread' \in {unread, unread \union {k}},
           Numbered'
    PROVE  ListInv'
<1> USE DEF Write, answer
<1>0. TypeOK
  BY DEF ListInv
<1>1. /\ Strict(order', table') /\ order' \subseteq table' \X table'
      /\ \E S \in SUBSET Keys :
            /\ S \subseteq Rest /\ S \subseteq Rest'
            /\ IsFiniteSet(Rest \ S) /\ Cardinality(Rest \ S) <= 1
            /\ IsFiniteSet(Rest' \ S) /\ Cardinality(Rest' \ S) <= 1
            /\ k \notin table => S = Rest
  BY EntryComes
<1>2. TypeOK'
  <2>1. /\ table' = table \union {k} /\ gone' = gone
        /\ came' = came + 1 /\ left' \in {left, left + 1}
    BY DEF Enter
  <2>2. came' \in Nat /\ left' \in Nat /\ came' + left' <= MaxWrites + 1
    <3>1. came' = came + 1 /\ (left' = left \/ left' = left + 1) /\ left \in Nat
      BY <1>0, <2>1 DEF TypeOK
    <3> QED BY <3>1, <1>0, FewWrites
  <2> QED BY <1>0, <1>1, <2>1, <2>2 DEF TypeOK
<1>3. MissedSoFar' /\ RepeatedSoFar' /\ MissedAtEnd' /\ FirstPage'
  <2>1. PICK S \in SUBSET Keys :
            /\ S \subseteq Rest /\ S \subseteq Rest'
            /\ IsFiniteSet(Rest \ S) /\ Cardinality(Rest \ S) <= 1
            /\ IsFiniteSet(Rest' \ S) /\ Cardinality(Rest' \ S) <= 1
            /\ k \notin table => S = Rest
    BY <1>1
  <2>2. /\ \/ left' = left /\ S = Rest
           \/ left' = left + 1 /\ Cardinality(Rest \ S) <= 1
        /\ came' = came + 1 /\ gone \subseteq gone'
    BY <2>1 DEF Enter
  <2> QED BY <1>2, <2>1, <2>2, WritesDriftByOne
<1>4. OnlyPostsGo'
  BY DEF ListInv, OnlyPostsGo, Enter
<1> QED BY <1>1, <1>2, <1>3, <1>4 DEF ListInv

(* Whatever others write keeps the invariant.                              *)
LEMMA OthersKeep == ListInv /\ Others => ListInv'
<1> SUFFICES ASSUME ListInv, Others PROVE ListInv'
  OBVIOUS
<1>0. TypeOK /\ Numbered /\ OnlyPostsGo
  BY DEF ListInv
<1>1. ASSUME NEW k \in Keys, Notify(k) PROVE ListInv'
  <2>1. PICK ahead \in Places(k) : Enter(k, ahead)
    BY <1>1 DEF Notify
  <2>2. Numbered' /\ Write /\ unread' = unread \union {k} /\ k \notin gone
    BY <1>1 DEF Notify, Write, Numbered
  <2> QED BY <2>1, <2>2, EnterKeeps
<1>2. ASSUME NEW k \in Keys, Visit(k) PROVE ListInv'
  <2>1. PICK ahead \in Places(k) : Enter(k, ahead)
    BY <1>2 DEF Visit
  <2>2. Numbered' /\ Write /\ unread' = unread
    BY <1>2 DEF Visit, Write, Numbered
  <2>3. k \notin gone
    BY <1>0, <1>2 DEF Visit, OnlyPostsGo
  <2> QED BY <2>1, <2>2, <2>3, EnterKeeps
<1>3. ASSUME NEW k \in Keys, Join(k) PROVE ListInv'
  <2> DEFINE ahead == {e \in table : e < k}
  <2>1. ahead \in Places(k) /\ Enter(k, ahead) /\ Write /\ unread' = unread
    BY <1>0, <1>3 DEF Join, Places, TypeOK, Numbered, Ascending, Keys
  <2>2. Numbered'
    <3>1. /\ k \notin table /\ table \subseteq Keys /\ order = Ascending(table)
          /\ table' = table \union {k}
          /\ order' = (order \intersect (table \X table)) \union (ahead \X {k})
                        \union ({k} \X (table \ ahead))
      <4>1. table \ {k} = table /\ table \ (ahead \union {k}) = table \ ahead
        BY <1>3 DEF Join
      <4> QED BY <1>0, <1>3, <4>1 DEF Join, Enter, Among, Numbered, TypeOK
    <3> HIDE DEF ahead
    <3>2. \A e \in table : e \in ahead <=> e < k
      BY DEF ahead
    <3>3. \A a, b \in Keys : a # b <=> a < b \/ b < a
      BY DEF Keys
    <3>4. ahead \subseteq table /\ \A a \in Keys : ~ (a < a)
      BY DEF ahead, Keys
    <3>5. order' \subseteq table' \X table'
      BY <3>1, <3>4
    <3>6. \A a, b \in table' : <<a, b>> \in order' <=> a < b
      <4> SUFFICES ASSUME NEW a \in table', NEW b \in table'
                   PROVE  <<a, b>> \in order' <=> a < b
        OBVIOUS
      <4>1. a \in Keys /\ b \in Keys
        BY <3>1
      <4>2. \A x, y \in table : <<x, y>> \in order <=> x < y
        BY <3>1 DEF Ascending
      <4>3. <<a, b>> \in order' <=> \/ a \in table /\ b \in table /\ <<a, b>> \in order
                                    \/ a \in ahead /\ b = k
                                    \/ a = k /\ b \in table \ ahead
        BY <3>1
      <4>4. CASE a \in table /\ b \in table
        BY <4>2, <4>3, <4>4, <3>1
      <4>5. CASE a \in table /\ b = k
        BY <4>3, <4>5, <3>1, <3>2
      <4>6. CASE a = k /\ b \in table
        <5>1. <<a, b>> \in order' <=> ~ (b < k)
          BY <4>3, <4>6, <3>1, <3>2, <3>4
        <5>2. ~ (b < k) <=> k < b
          BY <4>1, <4>6, <3>1 DEF Keys
        <5> QED BY <5>1, <5>2, <4>6
      <4>7. CASE a = k /\ b = k
        BY <4>3, <4>7, <3>1, <3>4
      <4> QED BY <4>4, <4>5, <4>6, <4>7, <3>1
    <3>7. order' = Ascending(table')
      BY <3>5, <3>6 DEF Ascending
    <3> QED BY <3>7 DEF Numbered
  <2>3. k \notin gone
    BY <1>0, <1>3 DEF Join, OnlyPostsGo
  <2> QED BY <2>1, <2>2, <2>3, EnterKeeps
<1>4. ASSUME NEW k \in Keys, JoinFeed(k) PROVE ListInv'
  <2>1. PICK ahead \in Places(k) : Enter(k, ahead)
    BY <1>4 DEF JoinFeed
  <2>2. Numbered' /\ Write /\ unread' = unread /\ k \notin gone
    BY <1>4 DEF JoinFeed, Write, Numbered
  <2> QED BY <2>1, <2>2, EnterKeeps
<1>5. ASSUME NEW k \in Keys, Leave(k) PROVE ListInv'
  <2> USE DEF Leave, Write, answer
  <2>1. /\ Rest' \subseteq Rest
        /\ IsFiniteSet(Rest \ Rest') /\ Cardinality(Rest \ Rest') <= 1
        /\ Strict(order', table') /\ order' \subseteq table' \X table'
    BY <1>5, EntryGoes
  <2>2. TypeOK'
    <3>1. came' = came /\ left' = left + 1
      BY <1>5
    <3>2. came' \in Nat /\ left' \in Nat /\ came' + left' <= MaxWrites + 1
      BY <1>0, <1>5, <3>1, FewWrites DEF TypeOK
    <3>3. /\ table' \subseteq Keys /\ gone' \subseteq Keys \ table'
          /\ unread' \subseteq table'
      BY <1>0, <1>5 DEF TypeOK
    <3> QED BY <1>0, <1>5, <2>1, <3>2, <3>3 DEF TypeOK
  <2>3. Numbered'
    BY <1>0, <1>5 DEF Numbered, Ascending, Among, TypeOK
  <2>4. MissedSoFar' /\ RepeatedSoFar' /\ MissedAtEnd' /\ FirstPage'
    <3>1. Rest' \in SUBSET Keys /\ IsFiniteSet(Rest' \ Rest')
      BY <1>0, <2>1, RestInKeys, FS_EmptySet
    <3>2. left' = left + 1 /\ came' = came /\ gone \subseteq gone'
      BY <1>5
    <3> QED BY <1>5, <2>1, <2>2, <3>1, <3>2, WritesDriftByOne
  <2>5. OnlyPostsGo'
    BY <1>5 DEF ListInv, OnlyPostsGo
  <2> QED BY <2>1, <2>2, <2>3, <2>4, <2>5 DEF ListInv
<1>6. ASSUME MarkNotificationsRead PROVE ListInv'
  <2> USE DEF MarkNotificationsRead, answer
  <2>1. Rest' = Rest /\ OnPage' = OnPage /\ Missing' = Missing
    BY <1>6 DEF Rest, RestOf, OnPage, Missing, Offset
  <2>2. MissedSoFar' /\ RepeatedSoFar'
    BY <1>6, <2>1 DEF ListInv, MissedSoFar, RepeatedSoFar
  <2>3. TypeOK'
    BY <1>0, <1>6 DEF TypeOK
  <2> QED BY <1>6, <2>2, <2>3 DEF ListInv, Strict, Numbered, OnlyPostsGo, FirstPage, MissedAtEnd, MorePages
<1> QED BY <1>1, <1>2, <1>3, <1>4, <1>5, <1>6 DEF Others

(* The rows of a page are read (ListPage): they are no more to come, they  *)
(* are on the page, or the result set broke off.                           *)
LEMMA ListPageKeeps == ListInv /\ ListPage => ListInv'
<1> SUFFICES ASSUME ListInv, ListPage PROVE ListInv'
  OBVIOUS
<1> USE DEF ListPage, tables
<1>0. TypeOK /\ pc = "list" /\ pc' = "load"
  BY DEF ListInv
<1>1. /\ OnPage = {} /\ OnPage' = ids' /\ ids' \subseteq Window /\ Window \subseteq Entries
      /\ failed' = TRUE \/ (failed' = failed /\ ids' = Window)
  BY <1>0 DEF OnPage, Window
<1>2. Entries \subseteq Keys /\ Rest \subseteq Entries
  BY <1>0 DEF Entries, TypeOK, Rest, RestOf, Beyond
<1>3. \A k \in Entries : Rank(k) = RankIn(Entries, order, k) /\ Rank(k) \in Nat
  BY <1>2, KeysFinite, RankType DEF Rank, RankIn, Upto
<1>4. /\ Rest' \subseteq Rest \ Window /\ Rest \subseteq Rest' \union Window
      /\ Window \intersect shown \subseteq Rest
  <2>1. CASE list = "people"
    <3>1. Rest' = {} /\ Window = Entries /\ shown = {}
      BY <1>0, <1>1, <2>1 DEF Rest, RestOf, Window, ListInv, FirstPage
    <3> QED BY <3>1, <1>2
  <2>2. CASE list # "people"
    <3>1. Rest = {k \in Entries : Offset(page) < Rank(k)}
      BY <1>0, <1>3 DEF Rest, RestOf, Beyond, Entries
    <3>2. Rest' = {k \in Entries : Offset(page) + PerPage < Rank(k)}
      BY <1>0, <1>3, <2>2 DEF Rest, RestOf, Beyond, Entries, Offset
    <3>3. Window = {k \in Entries : Offset(page) < Rank(k) /\ Rank(k) <= Offset(page) + PerPage}
      BY <2>2 DEF Window
    <3>4. Offset(page) \in Nat /\ PerPage \in Nat
      BY <1>0, OffsetsAreNumbers, ListsAssumption DEF TypeOK
    <3>5. Rest' \subseteq Rest \ Window
      BY <1>3, <3>1, <3>2, <3>3, <3>4
    <3>6. Rest \subseteq Rest' \union Window
      BY <1>3, <3>1, <3>2, <3>3, <3>4
    <3>7. Window \subseteq Rest
      BY <3>1, <3>3
    <3> QED BY <3>5, <3>6, <3>7
  <2> QED BY <2>1, <2>2
<1>5. TypeOK'
  BY <1>0, <1>1, <1>2 DEF TypeOK
<1>6. MissedSoFar'
  <2> SUFFICES ASSUME ~ failed' PROVE MissedSoFar'
    BY DEF MissedSoFar
  <2>1. Missing' \subseteq Missing
    BY <1>1, <1>4 DEF Missing
  <2>2. Missing \subseteq Keys
    BY <1>0 DEF Missing, TypeOK
  <2>3. /\ Cardinality(Missing') \in Nat /\ Cardinality(Missing) \in Nat
        /\ Cardinality(Missing') <= Cardinality(Missing)
    BY <2>1, <2>2, KeysFinite, SmallerSet
  <2>4. left \in Nat /\ left' = left /\ failed' = failed
    BY <1>0, <1>1 DEF TypeOK
  <2> QED BY <2>3, <2>4 DEF MissedSoFar, ListInv
<1>7. RepeatedSoFar'
  <2> DEFINE X == ids' \intersect shown
             Y == Rest' \intersect (shown \union ids')
             Z == Rest \intersect shown
  <2>1. X \subseteq Z /\ Y \subseteq Z /\ X \intersect Y = {} /\ Z \subseteq Keys
    BY <1>1, <1>2, <1>4
  <2>2. Cardinality(X) + Cardinality(Y) <= Cardinality(Z)
    <3> HIDE DEF X, Y, Z
    <3>1. IsFiniteSet(X) /\ IsFiniteSet(Y) /\ IsFiniteSet(Z)
      BY <2>1, KeysFinite
    <3>2. Cardinality(X \union Y) = Cardinality(X) + Cardinality(Y) - Cardinality(X \intersect Y)
      BY <3>1, FS_Union
    <3>3. Cardinality(X \intersect Y) = 0 /\ Cardinality(X) \in Nat /\ Cardinality(Y) \in Nat
      BY <2>1, <3>1, FS_EmptySet, FS_CardinalityType
    <3>4. Cardinality(X \union Y) <= Cardinality(Z)
      BY <2>1, <3>1, SmallerSet
    <3> QED BY <3>2, <3>3, <3>4
  <2>3. Cardinality(X) \in Nat /\ Cardinality(Y) \in Nat /\ Cardinality(Z) \in Nat
    BY <2>1, KeysFinite
  <2>4. again + Cardinality(OnPage \intersect shown) + Cardinality(Z) <= came
    BY <1>1 DEF ListInv, RepeatedSoFar
  <2>5. OnPage \intersect shown = {}
    BY <1>1
  <2>6. again + 0 + Cardinality(Z) <= came /\ again \in Nat /\ came \in Nat
    BY <2>4, <2>5, <1>0, FS_EmptySet DEF TypeOK
  <2>7. again + Cardinality(X) + Cardinality(Y) <= came
    BY <2>2, <2>3, <2>6
  <2> QED BY <2>7, <1>1 DEF RepeatedSoFar
<1>8. FirstPage' /\ MissedAtEnd'
  BY <1>0 DEF FirstPage, MissedAtEnd
<1>9. Strict(order', table') /\ Numbered' /\ OnlyPostsGo'
  BY DEF ListInv, Numbered, OnlyPostsGo
<1> QED BY <1>5, <1>6, <1>7, <1>8, <1>9 DEF ListInv

(* The users or posts of the rows are read (LoadRows): what is on the page *)
(* has been shown, or is deleted, or a statement failed.                   *)
LEMMA GotKeeps ==
    ASSUME ListInv, pc = "load", NEW kept \in SUBSET ids, Got(kept),
           failed' \in BOOLEAN, failed => failed',
           failed' \/ ids \ gone \subseteq kept
    PROVE  ListInv'
<1> USE DEF Got, tables
<1>0. TypeOK /\ shown' = shown \union kept /\ OnPage = ids /\ pc' # "load" /\ pc' # "list"
  BY DEF ListInv, OnPage
<1>1. OnPage' = {} /\ Rest' = Rest /\ Rest \subseteq Keys
  BY <1>0, RestInKeys DEF OnPage, Rest, RestOf, Offset
<1>2. /\ Cardinality(kept) \in 0 .. NumKeys /\ Cardinality(kept \intersect shown) \in Nat
      /\ again \in Nat /\ came \in Nat /\ left \in Nat
  <2>1. kept \in SUBSET Keys
    BY <1>0 DEF TypeOK
  <2> QED BY <1>0, <2>1, KeysFinite, ListsAssumption DEF TypeOK
<1>3. TypeOK'
  <2>1. total' \in 0 .. NumKeys /\ again' \in Nat
    BY <1>0, <1>2 DEF TypeOK
  <2>2. pc' \in {"unread", "page", "total"} /\ shown' \subseteq Keys
    BY <1>0 DEF TypeOK
  <2> QED BY <1>0, <2>1, <2>2 DEF TypeOK
<1>4. MissedSoFar'
  <2>1. Missing' \subseteq Missing \/ failed'
    BY <1>0, <1>1 DEF Missing
  <2>2. Missing \subseteq Keys
    BY <1>0 DEF Missing, TypeOK
  <2>3. Missing' \subseteq Missing =>
            /\ Cardinality(Missing') \in Nat /\ Cardinality(Missing) \in Nat
            /\ Cardinality(Missing') <= Cardinality(Missing)
    BY <2>2, KeysFinite, SmallerSet
  <2>4. left' = left /\ MissedSoFar
    BY DEF ListInv
  <2> QED BY <2>1, <2>3, <2>4, <1>2 DEF MissedSoFar
<1>5. RepeatedSoFar'
  <2> DEFINE X == kept \intersect shown
             Y == ids \intersect shown
             U == Rest \intersect (shown \union kept)
             V == Rest \intersect (shown \union ids)
  <2>1. X \subseteq Y /\ U \subseteq V /\ Y \subseteq Keys /\ V \subseteq Keys
    BY <1>0, <1>1 DEF TypeOK
  <2>2. /\ Cardinality(X) \in Nat /\ Cardinality(Y) \in Nat /\ Cardinality(X) <= Cardinality(Y)
        /\ Cardinality(U) \in Nat /\ Cardinality(V) \in Nat /\ Cardinality(U) <= Cardinality(V)
    BY <2>1, KeysFinite, SmallerSet
  <2>3. again + Cardinality(Y) + Cardinality(V) <= came
    BY <1>0 DEF ListInv, RepeatedSoFar
  <2>4. again' = again + Cardinality(X) /\ came' = came
    OBVIOUS
  <2>5. OnPage' \intersect shown' = {} /\ Rest' \intersect (shown' \union OnPage') = U
    BY <1>0, <1>1
  <2>6. Cardinality(OnPage' \intersect shown') = 0
    BY <2>5, FS_EmptySet
  <2>7. again + Cardinality(X) + 0 + Cardinality(U) <= came
    BY <1>2, <2>2, <2>3
  <2>8. again' + Cardinality(OnPage' \intersect shown') + Cardinality(Rest' \intersect (shown' \union OnPage')) <= came'
    BY <2>4, <2>5, <2>6, <2>7
  <2> QED BY <2>8 DEF RepeatedSoFar
<1>6. MissedAtEnd'
  <2> SUFFICES ASSUME pc' = "page", ~ failed' PROVE Cardinality((start \ gone) \ shown') <= left
    BY <1>0 DEF MissedAtEnd
  <2>1. Rest' = {}
    BY <1>0 DEF Rest, RestOf
  <2>2. Missing' = (start \ gone) \ shown'
    BY <2>1, <1>1 DEF Missing
  <2> QED BY <2>2, <1>4 DEF MissedSoFar
<1>7. FirstPage'
  BY <1>0 DEF FirstPage
<1>8. Strict(order', table') /\ Numbered' /\ OnlyPostsGo'
  BY DEF ListInv, Numbered, OnlyPostsGo
<1> QED BY <1>3, <1>4, <1>5, <1>6, <1>7, <1>8 DEF ListInv

(* The total is counted (CountTotal): when it says that there are no more  *)
(* pages, nothing is to come.                                              *)
LEMMA CountTotalKeeps == ListInv /\ CountTotal => ListInv'
<1> SUFFICES ASSUME ListInv, CountTotal PROVE ListInv'
  OBVIOUS
<1> USE DEF CountTotal, tables
<1>0. TypeOK /\ pc = "total" /\ pc' = "page" /\ failed' \in BOOLEAN /\ (failed => failed')
  BY DEF ListInv, TypeOK
<1>1. Entries \subseteq Keys
  BY <1>0 DEF Entries, TypeOK
<1>2. TypeOK'
  <2>1. total' \in 0 .. NumKeys
    BY <1>1, KeysFinite, ListsAssumption
  <2> QED BY <1>0, <2>1 DEF TypeOK
<1>3. Rest' = Rest /\ OnPage' = OnPage /\ Missing' = Missing /\ OnPage = {}
  BY <1>0 DEF Rest, RestOf, Missing, OnPage, Offset
<1>4. MissedSoFar' /\ RepeatedSoFar'
  BY <1>0, <1>3 DEF ListInv, MissedSoFar, RepeatedSoFar
<1>5. MissedAtEnd'
  <2> SUFFICES ASSUME ~ failed', ~ MorePages' PROVE Cardinality((start \ gone) \ shown) <= left
    BY <1>0 DEF MissedAtEnd
  <2>1. total' = Cardinality(Entries)
    BY <1>0
  <2>2. CASE list = "people"
    BY <2>2, <1>0, <1>3, <1>4 DEF Rest, RestOf, Missing, MissedSoFar
  <2>3. CASE list # "people"
    <3>1. ~ (page * PerPage < Cardinality(Entries)) /\ page \in Nat \ {0}
      BY <2>1, <2>3, <1>0 DEF MorePages, TypeOK
    <3>2. Offset(page) + PerPage = page * PerPage /\ page * PerPage \in Nat
      BY <3>1, OffsetsAreNumbers
    <3>3. \A k \in Entries :
            /\ RankIn(Entries, order, k) \in Nat
            /\ RankIn(Entries, order, k) <= Cardinality(Entries)
      <4> TAKE k \in Entries
      <4>1. IsFiniteSet(Entries) /\ Upto(Entries, order, k) \subseteq Entries
        BY <1>1, KeysFinite DEF Upto
      <4> QED BY <4>1, SmallerSet DEF RankIn
    <3>4. Rest = Beyond(Entries, order, Offset(page) + PerPage)
      BY <1>0, <2>3 DEF Rest, RestOf, Entries
    <3>5. Cardinality(Entries) \in Nat
      BY <1>1, KeysFinite
    <3>6. Rest = {}
      BY <3>1, <3>2, <3>3, <3>4, <3>5 DEF Beyond
    <3>7. Missing' = (start \ gone) \ shown
      BY <3>6, <1>3 DEF Missing
    <3> QED BY <3>7, <1>4 DEF MissedSoFar
  <2> QED BY <2>2, <2>3
<1>6. FirstPage'
  BY <1>0 DEF ListInv, FirstPage
<1>7. Strict(order', table') /\ Numbered' /\ OnlyPostsGo'
  BY DEF ListInv, Numbered, OnlyPostsGo
<1> QED BY <1>2, <1>4, <1>5, <1>6, <1>7 DEF ListInv

(* The client's own steps keep the invariant.                              *)
LEMMA ReadKeeps == ListInv /\ Read => ListInv'
<1> SUFFICES ASSUME ListInv, Read PROVE ListInv'
  OBVIOUS
<1>0. TypeOK /\ MissedSoFar /\ RepeatedSoFar /\ MissedAtEnd
  BY DEF ListInv
<1>1. CASE ListPage
  BY <1>1, ListPageKeeps
<1>2. CASE LoadRows
  <2>0. pc = "load" /\ failed \in BOOLEAN
    BY <1>0, <1>2 DEF LoadRows, TypeOK
  <2>1. CASE Got(ids) /\ failed' = failed
    BY <2>0, <2>1, GotKeeps
  <2>2. CASE Got(ids \ gone) /\ failed' = failed
    BY <2>0, <2>2, GotKeeps
  <2>3. CASE (\E k \in ids : Got(ids \ {k})) /\ failed' = TRUE
    <3>1. PICK k \in ids : Got(ids \ {k})
      BY <2>3
    <3> QED BY <2>0, <2>3, <3>1, GotKeeps
  <2> QED BY <1>2, <2>1, <2>2, <2>3 DEF LoadRows
<1>3. CASE CountUnread
  <2> USE DEF CountUnread, tables
  <2>1. pc = "unread" /\ pc' = "total" /\ failed' \in BOOLEAN /\ (failed => failed')
    BY <1>0, <1>3 DEF TypeOK
  <2>2. Rest' = Rest /\ OnPage' = OnPage /\ Missing' = Missing
    BY <1>3, <2>1 DEF Rest, RestOf, OnPage, Missing, Offset
  <2>3. MissedSoFar' /\ RepeatedSoFar'
    BY <1>0, <1>3, <2>1, <2>2 DEF MissedSoFar, RepeatedSoFar
  <2>4. TypeOK'
    BY <1>0, <1>3, <2>1 DEF TypeOK, Counted
  <2>5. FirstPage' /\ MissedAtEnd'
    BY <2>1 DEF FirstPage, MissedAtEnd
  <2>6. Strict(order', table') /\ Numbered' /\ OnlyPostsGo'
    BY <1>3 DEF ListInv, Numbered, OnlyPostsGo
  <2> QED BY <2>3, <2>4, <2>5, <2>6 DEF ListInv
<1>4. CASE CountTotal
  BY <1>4, CountTotalKeeps
<1>5. CASE NextPage
  <2> USE DEF NextPage, tables
  <2>1. pc = "page" /\ pc' = "list" /\ page' = page + 1 /\ list # "people" /\ page \in Nat \ {0}
    BY <1>0, <1>5 DEF MorePages, TypeOK
  <2>2. Rest' = Rest
    <3>1. Offset(page') = Offset(page) + PerPage /\ (Offset(page))' = Offset(page')
      BY <2>1, OffsetsAreNumbers DEF Offset
    <3> QED BY <1>5, <2>1, <3>1 DEF Rest, RestOf
  <2>3. OnPage' = OnPage /\ Missing' = Missing
    BY <1>5, <2>1, <2>2 DEF OnPage, Missing
  <2>4. MissedSoFar' /\ RepeatedSoFar'
    BY <1>0, <1>5, <2>2, <2>3 DEF MissedSoFar, RepeatedSoFar
  <2>5. TypeOK'
    BY <1>0, <1>5, <2>1 DEF TypeOK
  <2>6. FirstPage' /\ MissedAtEnd'
    BY <1>5, <2>1 DEF FirstPage, MissedAtEnd
  <2>7. Strict(order', table') /\ Numbered' /\ OnlyPostsGo'
    BY <1>5 DEF ListInv, Numbered, OnlyPostsGo
  <2> QED BY <2>4, <2>5, <2>6, <2>7 DEF ListInv
<1>6. CASE EndOfList
  <2> USE DEF EndOfList, tables, answer
  <2>1. pc = "page" /\ pc' = "done"
    BY <1>6
  <2>2. Rest' = Rest /\ OnPage' = OnPage /\ Missing' = Missing
    BY <1>6, <2>1 DEF Rest, RestOf, OnPage, Missing, Offset
  <2>3. MissedSoFar' /\ RepeatedSoFar'
    BY <1>0, <1>6, <2>2 DEF MissedSoFar, RepeatedSoFar
  <2>4. TypeOK' /\ FirstPage'
    BY <1>0, <1>6, <2>1 DEF TypeOK, FirstPage
  <2>5. MissedAtEnd'
    BY <1>0, <1>6, <2>1 DEF MissedAtEnd, MorePages
  <2>6. Strict(order', table') /\ Numbered' /\ OnlyPostsGo'
    BY <1>6 DEF ListInv, Numbered, OnlyPostsGo
  <2> QED BY <2>3, <2>4, <2>5, <2>6 DEF ListInv
<1> QED BY <1>1, <1>2, <1>3, <1>4, <1>5, <1>6 DEF Read

(* The invariant holds in every state of Lists.                            *)
LEMMA ListInvHolds == Spec => []ListInv
<1>1. ListInv /\ [Next]_vars => ListInv'
  <2> SUFFICES ASSUME ListInv, [Next]_vars PROVE ListInv'
    OBVIOUS
  <2>1. CASE UNCHANGED vars
    BY <2>1 DEF vars, tables, answer, ListInv, TypeOK, Numbered, OnlyPostsGo, FirstPage,
        MissedSoFar, RepeatedSoFar, MissedAtEnd, MorePages,
        Missing, Rest, RestOf, OnPage, Offset
  <2> QED BY <2>1, OthersKeep, ReadKeeps DEF Next
<1> QED BY <1>1, InitInv, PTL DEF Spec

(* Lists keeps its types: for any number of entries, any page size and any *)
(* number of writes, the rows, the order they are in and what the client   *)
(* has got are what they are declared to be.                               *)
THEOREM ListTyping == Spec => []TypeOK
<1>1. ListInv => TypeOK
  BY DEF ListInv
<1> QED BY <1>1, ListInvHolds, PTL

(* Who reads a list to the end misses no more of what was there all along  *)
(* than entries left their place meanwhile, whatever the page size, the    *)
(* list and the order in which requests and writes meet (LIMIT and OFFSET  *)
(* of footprint.go:29-36, post.go:143-152).                                *)
THEOREM FewMissed == Spec => []MissedAtMostLeft
<1>1. ListInv => MissedAtMostLeft
  <2> SUFFICES ASSUME MissedAtEnd, pc = "done", ~ failed
               PROVE  Cardinality((start \ gone) \ shown) <= left
    BY DEF ListInv, MissedAtMostLeft
  <2> QED BY DEF MissedAtEnd
<1> QED BY <1>1, ListInvHolds, PTL

(* And is shown an entry again no more often than entries came to a place, *)
(* also when statements fail (same lines).                                 *)
THEOREM FewRepeated == Spec => []RepeatedAtMostCame
<1>1. ListInv => RepeatedAtMostCame
  <2> SUFFICES ASSUME ListInv PROVE again <= came
    BY DEF RepeatedAtMostCame
  <2>1. TypeOK
    BY DEF ListInv
  <2>2. OnPage \subseteq Keys /\ shown \subseteq Keys /\ Rest \subseteq Keys
    BY <2>1, RestInKeys DEF TypeOK, OnPage
  <2>3. /\ Cardinality(OnPage \intersect shown) \in Nat
        /\ Cardinality(Rest \intersect (shown \union OnPage)) \in Nat
    BY <2>2, KeysFinite
  <2> QED BY <2>1, <2>3 DEF ListInv, RepeatedSoFar, TypeOK
<1> QED BY <1>1, ListInvHolds, PTL

(* What the badge counts is in the table or deleted, and what was not in   *)
(* the list at the start came since.                                       *)
BadgeSoFar ==
    /\ badge \subseteq table \union gone
    /\ list # "notifications" => badge = {} /\ pc # "unread"
    /\ Cardinality(Entries \ start) <= came

LEMMA BadgeSoFarStep == TypeOK /\ BadgeSoFar /\ [Next]_vars => BadgeSoFar'
<1> SUFFICES ASSUME TypeOK, BadgeSoFar, [Next]_vars PROVE BadgeSoFar'
  OBVIOUS
<1>0. /\ IsFiniteSet(Entries \ start) /\ Cardinality(Entries \ start) \in Nat /\ came \in Nat
      /\ unread \subseteq table
  BY KeysFinite DEF TypeOK, Entries
<1>1. ASSUME NEW k \in Keys, NEW ahead, Write, Enter(k, ahead) PROVE BadgeSoFar'
  <2>1. /\ table' = table \union {k} /\ came' = came + 1
        /\ UNCHANGED <<list, want, start, pc, gone, badge>>
    BY <1>1 DEF Write, Enter, answer
  <2>2. Entries' \ start' \subseteq (Entries \ start) \union {k}
    BY <2>1 DEF Entries
  <2>3. IsFiniteSet({k}) /\ Cardinality({k}) = 1
    BY FS_Singleton
  <2>4. /\ IsFiniteSet((Entries \ start) \union {k})
        /\ Cardinality((Entries \ start) \union {k}) <= Cardinality(Entries \ start) + 1
        /\ Cardinality((Entries \ start) \union {k}) \in Nat
    BY <1>0, <2>3, UnionBound
  <2>5. /\ Cardinality(Entries' \ start') \in Nat
        /\ Cardinality(Entries' \ start') <= Cardinality((Entries \ start) \union {k})
    BY <2>2, <2>4, SmallerSet
  <2>6. Cardinality(Entries' \ start') <= came'
    BY <1>0, <2>1, <2>4, <2>5 DEF BadgeSoFar
  <2> QED BY <2>1, <2>6 DEF BadgeSoFar
<1>2. ASSUME NEW k \in Keys, Leave(k) PROVE BadgeSoFar'
  <2>1. /\ table' = table \ {k} /\ came' = came
        /\ gone' = gone \union {k} \/ (gone' = gone /\ list # "notifications")
        /\ UNCHANGED <<list, want, start, pc, badge>>
    BY <1>2 DEF Leave, Write, answer
  <2>2. Entries' \ start' \subseteq Entries \ start
    BY <2>1 DEF Entries
  <2>3. /\ Cardinality(Entries' \ start') \in Nat
        /\ Cardinality(Entries' \ start') <= Cardinality(Entries \ start)
    BY <1>0, <2>2, SmallerSet
  <2>4. badge' \subseteq table' \union gone'
    BY <2>1 DEF BadgeSoFar
  <2> QED BY <1>0, <2>1, <2>3, <2>4 DEF BadgeSoFar
<1>3. ASSUME UNCHANGED <<list, want, start, table, gone, came>>,
             badge' = badge \/ (badge' \subseteq unread /\ list = "notifications"),
             pc' = "unread" => pc = "unread" \/ list = "notifications"
      PROVE  BadgeSoFar'
  <2>1. Entries' \ start' = Entries \ start
    BY <1>3 DEF Entries
  <2>2. badge' \subseteq table' \union gone'
    BY <1>0, <1>3 DEF BadgeSoFar
  <2> QED BY <1>3, <2>1, <2>2 DEF BadgeSoFar
<1>4. ASSUME NEW k \in Keys, Notify(k) \/ Visit(k) \/ Join(k) \/ JoinFeed(k) PROVE BadgeSoFar'
  <2>1. Write /\ \E ahead : Enter(k, ahead)
    BY <1>4 DEF Notify, Visit, Join, JoinFeed
  <2> QED BY <1>1, <2>1
<1>5. CASE MarkNotificationsRead \/ ListPage \/ CountTotal \/ NextPage \/ EndOfList \/ UNCHANGED vars
  BY <1>3, <1>5 DEF MarkNotificationsRead, ListPage, CountTotal, NextPage, EndOfList, vars, tables, answer
<1>6. CASE LoadRows
  <2>1. PICK kept : Got(kept)
    BY <1>6 DEF LoadRows
  <2> QED BY <1>3, <2>1 DEF Got, tables
<1>7. CASE CountUnread
  <2>1. list = "notifications"
    BY <1>7 DEF CountUnread, BadgeSoFar
  <2> QED BY <1>3, <1>7, <2>1 DEF CountUnread, Counted, tables
<1> QED BY <1>2, <1>4, <1>5, <1>6, <1>7 DEF Next, Others, Read

(* Who reads all pages has been shown what the last badge counts of that   *)
(* type, but for one notification for each that came or went meanwhile     *)
(* (GetNotifications, notification.go:34-111).                             *)
THEOREM BadgeIsShown == Spec => []BadgeWasShown
<1>1. Init => BadgeSoFar
  <2> SUFFICES ASSUME Init PROVE BadgeSoFar
    OBVIOUS
  <2>1. Entries \ start = {} /\ came = 0
    BY DEF Init
  <2> QED BY <2>1, FS_EmptySet DEF Init, BadgeSoFar
<1>2. ListInv /\ BadgeSoFar => BadgeWasShown
  <2> SUFFICES ASSUME ListInv, BadgeSoFar, pc = "done", ~ failed
               PROVE  Cardinality({k \in badge \ gone : want \in {All, TypeOf[k]}} \ shown)
                        <= left + came
    BY DEF BadgeWasShown
  <2> DEFINE B == {k \in badge \ gone : want \in {All, TypeOf[k]}} \ shown
             M == (start \ gone) \ shown
             N == Entries \ start
  <2>1. TypeOK /\ Cardinality(M) <= left /\ Cardinality(N) <= came
    BY DEF ListInv, MissedAtEnd, BadgeSoFar
  <2>2. left \in Nat /\ came \in Nat /\ M \in SUBSET Keys /\ N \in SUBSET Keys
    BY <2>1 DEF TypeOK, Entries
  <2>3. B \subseteq M \union N
    BY DEF BadgeSoFar, Entries
  <2> HIDE DEF B, M, N
  <2>4. IsFiniteSet(M) /\ IsFiniteSet(N)
    BY <2>2, KeysFinite
  <2>5. /\ IsFiniteSet(M \union N) /\ Cardinality(M \union N) \in Nat
        /\ Cardinality(M \union N) <= Cardinality(M) + Cardinality(N)
        /\ Cardinality(M) \in Nat /\ Cardinality(N) \in Nat
    BY <2>4, UnionBound
  <2>6. Cardinality(B) \in Nat /\ Cardinality(B) <= Cardinality(M \union N)
    BY <2>3, <2>5, SmallerSet
  <2>7. Cardinality(B) <= left + came
    BY <2>1, <2>2, <2>5, <2>6
  <2> QED BY <2>7 DEF B
<1> QED BY <1>1, <1>2, BadgeSoFarStep, ListTyping, ListInvHolds, PTL DEF Spec

-----------------------------------------------------------------------------
(* PostReads.                                                              *)

(* The ancestors are fetched.                                              *)
ListsEnded == at \in {"replies", "answered"}

(* Posts that were there at some time since the client began.              *)
Known == alive \union lost

(* What GetThread has fetched was there: its row cannot change any more,   *)
(* and its id is never drawn again.                                        *)
ChainKnown ==
    /\ subject \in Known
    /\ \A i \in 1 .. Len(ancestors) : ancestors[i] \in Known

(* Each one fetched on the way up is the parent of the next.               *)
Linked == \A i \in 1 .. Len(Chain) - 1 : Chain[i] = parent[Chain[i + 1]]

(* The way up ended at the limit, or at one that was not there all along.  *)
WentUp == ListsEnded /\ ~ flawed => Len(ancestors) = MaxThreadDepth \/ Up \notin Steady

(* The subject and the replies of the answer, with their level.            *)
Nodes == tree \union {<<subject, 0>>}

(* fetchReplyTree will come to q on level d (the ids of the loop at        *)
(* reply.go:162).                                                          *)
Awaited(q, d) == d \in 1 .. Len(stack) /\ q \in stack[d]

(* Every reply to e that was there all along is in the answer or awaited.  *)
Fetched(e) == \A q \in Steady : parent[q] = e[1] => <<q, e[2] + 1>> \in tree \/ Awaited(q, e[2] + 1)

(* Of each node the replies are fetched or awaited, or will be listed      *)
(* next.                                                                   *)
WentDown ==
    ListsEnded /\ ~ flawed =>
        \A e \in Nodes :
            e[2] < MaxThreadDepth => (listing = e[1] /\ Len(stack) = e[2]) \/ Fetched(e)

(* No reply is fetched before the ancestors are, or after the answer.      *)
Pause ==
    /\ ~ ListsEnded => stack = <<>> /\ tree = {}
    /\ at = "answered" => stack = <<>> /\ listing = NoPost

(* The inductive invariant of PostReads.                                   *)
ReadInv ==
    ReadTypeOK /\ ChainKnown /\ Linked /\ WentUp /\ WentDown /\ Pause

(* A deleted post takes its reposts along, and theirs.                     *)
LEMMA SmallCascade ==
    ASSUME NEW p
    PROVE  /\ p \in Ids => p \in Cascade(p)
           /\ Cascade(p) \subseteq Ids
           /\ \A c \in alive \intersect Ids : original[c] \in Cascade(p) => c \in Cascade(p)
  BY DEF Cascade

(* The invariant holds when the request comes.                             *)
LEMMA ReadInitInv == ReadInit => ReadInv
<1> SUFFICES ASSUME ReadInit PROVE ReadInv
  OBVIOUS
<1> USE ReadsAssumption
<1>1. ReadTypeOK
  <2>1. flawed \in BOOLEAN
    BY DEF ReadInit
  <2>2. /\ ancestors = <<>> /\ stack = <<>>
        /\ ancestors \in Seq(Ids) /\ Len(ancestors) = 0
        /\ stack \in Seq(SUBSET Ids) /\ Len(stack) = 0
    BY EmptySeq DEF ReadInit
  <2>3. /\ parent \in [Ids -> Ref] /\ original \in [Ids -> Ref]
        /\ alive \subseteq Ids
    BY DEF ReadInit, Earlier
  <2>4. \A p \in alive : original[p] = NoPost \/ original[p] \in alive
    BY <2>3 DEF ReadInit
  <2> QED
    BY <2>1, <2>2, <2>3, <2>4 DEF ReadInit, ReadTypeOK, Ref, Ids, NoPost
<1>2. ChainKnown
  BY DEF ReadInit, ChainKnown, Known
<1>3. Linked
  <2>1. Len(Chain) = 1
    BY <1>1 DEF ReadInit, Chain, ReadTypeOK
  <2> QED
    BY <2>1 DEF Linked
<1> QED
  BY <1>1, <1>2, <1>3 DEF ReadInit, ReadInv, WentUp, WentDown, Pause, ListsEnded

(* What has been fetched of the way up, as a sequence.                     *)
LEMMA ChainIs ==
    ASSUME ReadTypeOK
    PROVE  /\ Chain \in Seq(Ids) /\ Len(Chain) = Len(ancestors) + 1
           /\ Len(ancestors) \in Nat
           /\ \A i \in 1 .. Len(ancestors) : Chain[i] = ancestors[i]
           /\ Chain[Len(ancestors) + 1] = subject
           /\ Head(Chain) = Chain[1] /\ Chain[1] \in Ids
           /\ Up = parent[Chain[1]] /\ Up \in Ref
<1>1. /\ ancestors \in Seq(Ids) /\ subject \in Ids /\ parent \in [Ids -> Ref]
      /\ Len(ancestors) \in Nat
  BY LenProperties DEF ReadTypeOK
<1>2. /\ Chain \in Seq(Ids) /\ Len(Chain) = Len(ancestors) + 1
      /\ \A i \in 1 .. Len(ancestors) : Chain[i] = ancestors[i]
      /\ Chain[Len(ancestors) + 1] = subject
  BY <1>1, AppendProperties DEF Chain
<1>3. Head(Chain) = Chain[1] /\ Chain[1] \in Ids
  BY <1>1, <1>2, ElementOfSeq, HeadTailProperties, EmptySeq
<1> QED
  BY <1>1, <1>2, <1>3 DEF Up

(* All of it was there.                                                    *)
LEMMA SubjectKnown ==
    ASSUME ReadInv
    PROVE  \A i \in 1 .. Len(Chain) : Chain[i] \in Known
  BY ChainIs DEF ReadInv, ChainKnown

(* Whatever others do keeps the invariant, when it keeps the parents of    *)
(* the posts that were there and adds none that was there all along.       *)
LEMMA WritesKeep ==
    ASSUME ReadInv, ReadTypeOK', UNCHANGED <<at, flawed, thread>>,
           Known \subseteq Known', Steady' \subseteq Steady,
           \A q \in Known : parent'[q] = parent[q]
    PROVE  ReadInv'
<1> USE DEF ReadInv, thread
<1>1. /\ at' = at /\ flawed' = flawed /\ subject' = subject /\ ancestors' = ancestors
      /\ stack' = stack /\ listing' = listing /\ tree' = tree
  OBVIOUS
<1>2. Chain' = Chain /\ \A i \in 1 .. Len(Chain) : Chain[i] \in Known
  BY <1>1, SubjectKnown DEF Chain
<1>3. Up' = Up
  BY <1>2, ChainIs DEF Up
<1>4. ChainKnown'
  BY <1>1 DEF ChainKnown
<1>5. Linked'
  BY <1>2, ChainIs DEF Linked
<1>6. WentUp'
  BY <1>1, <1>3 DEF WentUp, ListsEnded
<1>7. WentDown'
  <2>1. \A e : Fetched(e) => Fetched(e)'
    BY <1>1 DEF Fetched, Awaited, Steady, Known
  <2>2. Nodes' = Nodes
    BY <1>1 DEF Nodes
  <2> QED
    BY <1>1, <2>1, <2>2 DEF WentDown, ListsEnded
<1>8. Pause'
  BY <1>1 DEF Pause, ListsEnded
<1> QED
  BY <1>4, <1>5, <1>6, <1>7, <1>8

(* A new post is none that GetThread has seen.                             *)
LEMMA CreateKeeps ==
    ASSUME ReadInv, NEW p \in Ids, NEW up \in Ref, NEW orig \in Ref, CreatePost(p, up, orig)
    PROVE  ReadInv'
<1> USE ReadsAssumption DEF ReadInv, CreatePost, Request
<1>1. p \notin Known
  BY DEF Unused, Known
<1>2. ReadTypeOK'
  <2>1. /\ parent' \in [Ids -> Ref] /\ original' \in [Ids -> Ref]
        /\ alive' \subseteq Ids /\ made' \subseteq Ids /\ lost' \subseteq Ids \ alive'
        /\ \A q \in alive' : original'[q] = NoPost \/ original'[q] \in alive'
    BY <1>1 DEF ReadTypeOK, Known
  <2>2. requests' \in 0 .. MaxRequests
    BY DEF ReadTypeOK
  <2> QED
    BY <2>1, <2>2 DEF ReadTypeOK, thread
<1>3. Known \subseteq Known' /\ Steady' \subseteq Steady
  BY DEF Known, Steady
<1>4. \A q \in Known : parent'[q] = parent[q]
  BY <1>1 DEF ReadTypeOK, Known
<1> QED
  BY <1>2, <1>3, <1>4, WritesKeep

(* A deleted post was not there all along, and neither was what went with  *)
(* it.                                                                     *)
LEMMA DeleteKeeps ==
    ASSUME ReadInv, NEW p \in Ids, DeletePost(p)
    PROVE  ReadInv'
<1> USE ReadsAssumption DEF ReadInv, DeletePost, Request
<1>1. ReadTypeOK'
  <2>1. /\ alive' \subseteq Ids /\ lost' \subseteq Ids \ alive'
        /\ \A q \in alive' : original'[q] = NoPost \/ original'[q] \in alive'
    BY SmallCascade DEF ReadTypeOK
  <2>2. requests' \in 0 .. MaxRequests
    BY DEF ReadTypeOK
  <2> QED
    BY <2>1, <2>2 DEF ReadTypeOK, thread
<1>2. Known \subseteq Known' /\ Steady' \subseteq Steady
  BY DEF Known, Steady
<1> QED
  BY <1>1, <1>2, WritesKeep

(* The stack of fetchReplyTree has a level for each call                   *)
(* (reply.go:138-173).                                                     *)
LEMMA StackIs ==
    ASSUME ReadTypeOK
    PROVE  /\ Len(stack) \in Nat /\ Len(stack) <= MaxThreadDepth
           /\ stack # <<>> => /\ Len(stack) \in 1 .. MaxThreadDepth
                              /\ Level \subseteq Ids
<1> USE ReadsAssumption DEF ReadTypeOK
<1>1. /\ stack \in Seq(SUBSET Ids) /\ Len(stack) \in Nat /\ Len(stack) <= MaxThreadDepth
      /\ MaxThreadDepth \in Nat
  BY LenProperties
<1>2. ASSUME stack # <<>> PROVE Len(stack) \in 1 .. MaxThreadDepth
  BY <1>1, <1>2, EmptySeq
<1>3. ASSUME stack # <<>> PROVE Level \subseteq Ids
  <2>1. Len(stack) \in 1 .. Len(stack)
    BY <1>1, <1>2, <1>3
  <2>2. stack[Len(stack)] \in SUBSET Ids
    BY <1>1, <2>1, ElementOfSeq
  <2> QED
    BY <2>2 DEF Level
<1> QED
  BY <1>1, <1>2, <1>3

(* The last level is replaced.                                             *)
LEMMA LevelReplaced ==
    ASSUME ReadTypeOK, stack # <<>>, NEW S \in SUBSET Ids,
           stack' = [stack EXCEPT ![Len(stack)] = S]
    PROVE  /\ stack' \in Seq(SUBSET Ids) /\ Len(stack') = Len(stack)
           /\ \A d \in 1 .. Len(stack) :
                stack'[d] = IF d = Len(stack) THEN S ELSE stack[d]
<1>1. stack \in Seq(SUBSET Ids) /\ Len(stack) \in 1 .. Len(stack)
  BY StackIs DEF ReadTypeOK
<1> QED
  BY <1>1, ExceptSeq

(* A level is added.                                                       *)
LEMMA LevelAdded ==
    ASSUME ReadTypeOK, NEW S \in SUBSET Ids, stack' = Append(stack, S)
    PROVE  /\ stack' \in Seq(SUBSET Ids) /\ Len(stack') = Len(stack) + 1
           /\ \A d \in 1 .. Len(stack) : stack'[d] = stack[d]
           /\ stack'[Len(stack) + 1] = S
<1>1. stack \in Seq(SUBSET Ids)
  BY DEF ReadTypeOK
<1> QED
  BY <1>1, AppendProperties

(* A level is removed.                                                     *)
LEMMA LevelRemoved ==
    ASSUME ReadTypeOK, stack # <<>>, stack' = Front(stack)
    PROVE  /\ stack' \in Seq(SUBSET Ids) /\ Len(stack') = Len(stack) - 1
           /\ \A d \in 1 .. Len(stack) - 1 : stack'[d] = stack[d]
<1>1. stack \in Seq(SUBSET Ids) /\ Len(stack) \in Nat \ {0}
  BY StackIs DEF ReadTypeOK
<1>2. \A i \in 1 .. Len(stack) - 1 : stack[i] \in SUBSET Ids
  BY <1>1, ElementOfSeq
<1>3. Len(stack) - 1 \in Int /\ 1 \in Int
  BY <1>1
<1>4. stack' = SubSeq(stack, 1, Len(stack) - 1)
  BY DEF Front
<1>5. /\ SubSeq(stack, 1, Len(stack) - 1) \in Seq(SUBSET Ids)
      /\ Len(SubSeq(stack, 1, Len(stack) - 1)) =
            IF 1 <= Len(stack) - 1 THEN Len(stack) - 1 - 1 + 1 ELSE 0
      /\ \A i \in 1 .. Len(stack) - 1 - 1 + 1 :
            SubSeq(stack, 1, Len(stack) - 1)[i] = stack[1 + i - 1]
  BY <1>2, <1>3, SubSeqProperties
<1>6. Len(stack') = Len(stack) - 1
  <2> DEFINE n == Len(stack)
             m == Len(SubSeq(stack, 1, Len(stack) - 1))
  <2>1. n \in Nat \ {0} /\ m = IF 1 <= n - 1 THEN n - 1 - 1 + 1 ELSE 0
    BY <1>1, <1>5
  <2>2. stack' = SubSeq(stack, 1, Len(stack) - 1)
    BY <1>4
  <2>3. m = n - 1
    <3> HIDE DEF n, m
    <3> QED
      BY <2>1
  <2> QED
    BY <2>2, <2>3, Zenon
<1>7. ASSUME NEW d \in 1 .. Len(stack) - 1 PROVE stack'[d] = stack[d]
  <2>1. d \in 1 .. Len(stack) - 1 - 1 + 1 /\ 1 + d - 1 = d
    BY <1>1
  <2> QED
    BY <2>1, <1>4, <1>5
<1> QED
  BY <1>4, <1>5, <1>6, <1>7

(* The statements of GetThread before the replies.                         *)
LEMMA FetchSubjectKeeps == ReadInv /\ FetchSubject => ReadInv'
<1> SUFFICES ASSUME ReadInv, FetchSubject PROVE ReadInv'
  OBVIOUS
<1> USE DEF ReadInv, FetchSubject, posts, thread
<1>1. ReadTypeOK'
  BY DEF ReadTypeOK
<1>2. ChainKnown' /\ Linked'
  BY DEF ChainKnown, Known, Linked, Chain
<1>3. WentUp' /\ WentDown' /\ Pause'
  BY DEF WentUp, WentDown, Pause, ListsEnded
<1> QED
  BY <1>1, <1>2, <1>3

LEMMA RefuseThreadKeeps == ReadInv /\ RefuseThread => ReadInv'
<1> SUFFICES ASSUME ReadInv, RefuseThread PROVE ReadInv'
  OBVIOUS
<1> USE DEF ReadInv, RefuseThread, posts, thread
<1>1. ReadTypeOK'
  BY DEF ReadTypeOK
<1>2. ChainKnown' /\ Linked'
  BY DEF ChainKnown, Known, Linked, Chain
<1>3. WentUp' /\ WentDown' /\ Pause'
  BY DEF WentUp, WentDown, Pause, ListsEnded
<1> QED
  BY <1>1, <1>2, <1>3

(* The parent of the oldest ancestor becomes the oldest                    *)
(* (reply.go:122-129): the others move on by one place.                    *)
LEMMA FetchAncestorKeeps == ReadInv /\ FetchAncestor => ReadInv'
<1> SUFFICES ASSUME ReadInv, FetchAncestor PROVE ReadInv'
  OBVIOUS
<1> USE ReadsAssumption DEF ReadInv, FetchAncestor, posts
<1>1. Up \in Ids /\ Up \in Known
  BY DEF ReadTypeOK, Known
<1>2. /\ <<Up>> \in Seq(Ids) /\ Len(<<Up>>) = 1 /\ <<Up>>[1] = Up
      /\ ancestors \in Seq(Ids) /\ Len(ancestors) \in Nat
  BY <1>1, LenProperties DEF ReadTypeOK
<1>3. /\ ancestors' \in Seq(Ids) /\ Len(ancestors') = Len(ancestors) + 1
      /\ ancestors'[1] = Up
      /\ \A i \in 1 .. Len(ancestors) : ancestors'[i + 1] = ancestors[i]
  <2>1. /\ ancestors' \in Seq(Ids) /\ Len(ancestors') = 1 + Len(ancestors)
        /\ \A i \in 1 .. 1 + Len(ancestors) :
              ancestors'[i] = IF i <= 1 THEN <<Up>>[i] ELSE ancestors[i - 1]
    BY <1>2, ConcatProperties
  <2> QED
    BY <1>2, <2>1
<1>4. ReadTypeOK'
  BY <1>2, <1>3 DEF ReadTypeOK, MoreAncestors
<1>5. ChainKnown'
  <2>1. \A i \in 1 .. Len(ancestors') : ancestors'[i] \in Known
    <3> SUFFICES ASSUME NEW i \in 1 .. Len(ancestors') PROVE ancestors'[i] \in Known
      OBVIOUS
    <3>1. CASE i = 1
      BY <1>1, <1>3, <3>1
    <3>2. CASE i # 1
      <4>1. i - 1 \in 1 .. Len(ancestors) /\ (i - 1) + 1 = i
        BY <1>2, <1>3, <3>2
      <4>2. ancestors'[(i - 1) + 1] = ancestors[i - 1]
        BY <1>3, <4>1
      <4> QED
        BY <4>1, <4>2 DEF ChainKnown
    <3> QED
      BY <3>1, <3>2
  <2> QED
    BY <2>1 DEF ChainKnown, Known
<1>6. Linked'
  <2>1. /\ Len(Chain') = Len(Chain) + 1 /\ Chain'[1] = Up
        /\ \A i \in 1 .. Len(Chain) : Chain'[i + 1] = Chain[i]
    <3>1. /\ Len(Chain') = Len(ancestors') + 1
          /\ \A i \in 1 .. Len(ancestors') : Chain'[i] = ancestors'[i]
          /\ Chain'[Len(ancestors') + 1] = subject
      BY <1>3, AppendProperties DEF Chain, ReadTypeOK
    <3> HIDE DEF ReadInv, FetchAncestor
    <3>2. /\ Len(Chain) = Len(ancestors) + 1
          /\ \A i \in 1 .. Len(ancestors) : Chain[i] = ancestors[i]
          /\ Chain[Len(ancestors) + 1] = subject
      BY ChainIs DEF ReadInv
    <3>3. ASSUME NEW i \in 1 .. Len(Chain) PROVE Chain'[i + 1] = Chain[i]
      <4>1. CASE i \in 1 .. Len(ancestors)
        <5>1. i + 1 \in 1 .. Len(ancestors')
          BY <1>2, <1>3, <4>1
        <5> QED
          BY <1>3, <3>1, <3>2, <4>1, <5>1
      <4>2. CASE i = Len(ancestors) + 1
        <5>1. i = Len(ancestors')
          BY <1>3, <4>2
        <5> QED
          BY <3>1, <3>2, <4>2, <5>1
      <4> QED
        BY <1>2, <3>2, <4>1, <4>2
    <3>4. Chain'[1] = Up
      <4>1. 1 \in 1 .. Len(ancestors')
        BY <1>2, <1>3
      <4> QED
        BY <1>3, <3>1, <4>1
    <3> QED
      BY <1>3, <3>1, <3>2, <3>3, <3>4
  <2>2. Len(Chain) \in Nat \ {0} /\ Up = parent[Chain[1]]
    BY ChainIs
  <2>3. ASSUME NEW i \in 1 .. Len(Chain') - 1 PROVE Chain'[i] = parent'[Chain'[i + 1]]
    <3>1. CASE i = 1
      <4>1. Chain'[1 + 1] = Chain[1]
        <5>1. 1 \in 1 .. Len(Chain)
          BY <2>2
        <5> QED
          BY <2>1, <5>1
      <4> QED
        BY <3>1, <2>1, <2>2, <4>1
    <3>2. CASE i # 1
      <4>1. /\ i - 1 \in 1 .. Len(Chain) - 1 /\ (i - 1) + 1 = i
            /\ i \in 1 .. Len(Chain)
        BY <2>1, <2>2, <3>2
      <4>2. Chain'[i] = Chain[i - 1] /\ Chain'[i + 1] = Chain[i]
        <5>1. Chain'[(i - 1) + 1] = Chain[i - 1]
          <6>1. i - 1 \in 1 .. Len(Chain)
            BY <4>1, <2>2
          <6> QED
            BY <6>1, <2>1
        <5> QED
          BY <4>1, <5>1, <2>1
      <4>3. Chain[i - 1] = parent[Chain[(i - 1) + 1]]
        BY <4>1 DEF Linked
      <4> QED
        BY <4>1, <4>2, <4>3
    <3> QED
      BY <3>1, <3>2
  <2> QED
    BY <2>3 DEF Linked
<1>7. WentUp' /\ WentDown' /\ Pause'
  BY DEF WentUp, WentDown, Pause, ListsEnded
<1> QED
  BY <1>4, <1>5, <1>6, <1>7

(* The way up ends at the limit, at a gap or by a failure that is noted.   *)
LEMMA AncestorsEndKeeps ==
    ASSUME ReadInv, at = "ancestors", AncestorsEnd,
           flawed' \in BOOLEAN,
           ~ flawed' => Len(ancestors) = MaxThreadDepth \/ Up \notin Steady
    PROVE  ReadInv'
<1> USE DEF ReadInv, AncestorsEnd, posts
<1>1. ReadTypeOK'
  BY DEF ReadTypeOK, Ref
<1>2. ChainKnown' /\ Linked'
  BY DEF ChainKnown, Known, Linked, Chain
<1>3. WentUp'
  BY DEF WentUp, Up, Chain, Steady
<1>4. WentDown'
  <2>1. stack = <<>> /\ tree = {} /\ Len(stack) = 0
    BY EmptySeq DEF Pause, ListsEnded
  <2>2. Nodes' = {<<subject, 0>>} /\ listing' = subject /\ Len(stack') = 0
    BY <2>1 DEF Nodes
  <2> QED
    BY <2>2 DEF WentDown
<1>5. Pause'
  BY DEF Pause, ListsEnded
<1> QED
  BY <1>1, <1>2, <1>3, <1>4, <1>5

LEMMA StopAncestorsKeeps == ReadInv /\ StopAncestors => ReadInv'
<1> SUFFICES ASSUME ReadInv, StopAncestors PROVE ReadInv'
  OBVIOUS
<1> USE ReadsAssumption DEF StopAncestors
<1>1. flawed' \in BOOLEAN
  BY DEF ReadInv, ReadTypeOK
<1>2. Len(ancestors) = MaxThreadDepth \/ Up \notin Steady
  <2>1. Len(ancestors) \in Nat /\ Len(ancestors) <= MaxThreadDepth /\ alive \subseteq Ids
    BY ChainIs DEF ReadInv, ReadTypeOK
  <2> QED
    BY <2>1 DEF MoreAncestors, Steady, NoPost, Ids
<1> QED
  BY <1>1, <1>2, AncestorsEndKeeps

LEMMA FetchAncestorFailsKeeps == ReadInv /\ FetchAncestorFails => ReadInv'
  BY AncestorsEndKeeps DEF FetchAncestorFails

(* The steps inside the tree of replies leave the ancestors alone.         *)
LEMMA TreeStepKeeps ==
    ASSUME ReadInv, at = "replies", UNCHANGED <<posts, at, subject, ancestors>>,
           flawed => flawed',
           ReadTypeOK', WentDown'
    PROVE  ReadInv'
<1> USE DEF ReadInv, posts
<1>1. ChainKnown' /\ Linked'
  BY DEF ChainKnown, Known, Linked, Chain
<1>2. WentUp'
  BY DEF WentUp, Up, Chain, Steady, ListsEnded
<1>3. Pause'
  BY DEF Pause, ListsEnded
<1> QED
  BY <1>1, <1>2, <1>3

(* A node is a post and a level.                                           *)
LEMMA NodesAre ==
    ASSUME ReadTypeOK
    PROVE  \A e \in Nodes : e[1] \in Ids /\ e[2] \in 0 .. MaxThreadDepth /\ e = <<e[1], e[2]>>
  BY ReadsAssumption DEF ReadTypeOK, Nodes

(* The replies to a node are listed (reply.go:145-160): all that were      *)
(* there all along are awaited.                                            *)
LEMMA ListRepliesKeeps == ReadInv /\ ListReplies => ReadInv'
<1> SUFFICES ASSUME ReadInv, ListReplies PROVE ReadInv'
  OBVIOUS
<1> USE ReadsAssumption DEF ReadInv, ListReplies, posts
<1>1. CASE DeepEnough
  <2>1. ReadTypeOK'
    BY <1>1 DEF ReadTypeOK, Ref
  <2>2. WentDown'
    <3>1. Len(stack) \in Nat /\ MaxThreadDepth \in Nat /\ Len(stack) >= MaxThreadDepth
      BY <1>1, StackIs DEF DeepEnough
    <3>2. ASSUME ~ flawed, NEW e \in Nodes, e[2] < MaxThreadDepth PROVE Fetched(e)
      <4>1. Len(stack) # e[2]
        BY <3>1, <3>2, NodesAre
      <4> QED
        BY <3>2, <4>1 DEF WentDown, ListsEnded
    <3>3. stack' = stack /\ Nodes' = Nodes /\ \A e : Fetched(e) => Fetched(e)'
      BY <1>1 DEF Nodes, Fetched, Awaited, Steady
    <3> QED
      BY <3>2, <3>3 DEF WentDown
  <2> QED
    BY <2>1, <2>2, TreeStepKeeps
<1>2. CASE ~ DeepEnough
  <2>1. Children(listing) \subseteq Ids
    BY DEF Children, ReadTypeOK
  <2>2. stack' = Append(stack, Children(listing))
    BY <1>2
  <2>3. /\ stack' \in Seq(SUBSET Ids) /\ Len(stack') = Len(stack) + 1
        /\ \A d \in 1 .. Len(stack) : stack'[d] = stack[d]
        /\ stack'[Len(stack) + 1] = Children(listing)
    <3>1. Children(listing) \in SUBSET Ids
      BY <2>1
    <3> HIDE DEF ReadInv, ListReplies
    <3>2. ReadTypeOK
      BY DEF ReadInv
    <3> QED
      BY <2>2, <3>1, <3>2, LevelAdded
  <2>4. Len(stack) \in Nat /\ Len(stack) < MaxThreadDepth
    BY <1>2, StackIs DEF DeepEnough
  <2>5. ReadTypeOK'
    BY <2>3, <2>4 DEF ReadTypeOK, Ref
  <2>6. WentDown'
    <3>1. ASSUME ~ flawed, NEW e \in Nodes, e[2] < MaxThreadDepth PROVE Fetched(e)'
      <4>1. e[2] \in Nat
        BY NodesAre
      <4>2. SUFFICES ASSUME NEW q \in Steady, parent[q] = e[1], <<q, e[2] + 1>> \notin tree
                     PROVE  Awaited(q, e[2] + 1)'
        BY DEF Fetched, Steady
      <4>3. CASE listing = e[1] /\ Len(stack) = e[2]
        <5>1. q \in Children(listing)
          BY <4>2, <4>3 DEF Children, Steady
        <5>2. e[2] + 1 \in 1 .. Len(stack')
          BY <2>3, <2>4, <4>3
        <5> QED
          BY <2>3, <4>3, <5>1, <5>2 DEF Awaited
      <4>4. CASE ~ (listing = e[1] /\ Len(stack) = e[2])
        <5>1. Awaited(q, e[2] + 1)
          BY <3>1, <4>2, <4>4 DEF WentDown, ListsEnded, Fetched
        <5>2. e[2] + 1 \in 1 .. Len(stack) /\ q \in stack[e[2] + 1]
          BY <5>1 DEF Awaited
        <5>3. e[2] + 1 \in 1 .. Len(stack') /\ stack'[e[2] + 1] = stack[e[2] + 1]
          BY <2>3, <2>4, <5>2
        <5> QED
          BY <5>2, <5>3 DEF Awaited
      <4> QED
        BY <4>3, <4>4
    <3>2. Nodes' = Nodes
      BY DEF Nodes
    <3> QED
      BY <3>1, <3>2 DEF WentDown
  <2> QED
    BY <2>5, <2>6, TreeStepKeeps
<1> QED
  BY <1>1, <1>2

(* Or the statement fails, which is noted.                                 *)
LEMMA ListRepliesFailsKeeps == ReadInv /\ ListRepliesFails => ReadInv'
<1> SUFFICES ASSUME ReadInv, ListRepliesFails PROVE ReadInv'
  OBVIOUS
<1> USE DEF ReadInv, ListRepliesFails, posts
<1>1. ReadTypeOK'
  BY DEF ReadTypeOK, Ref
<1>2. WentDown'
  BY DEF WentDown
<1> QED
  BY <1>1, <1>2, TreeStepKeeps

(* A reply is taken from its level, and is in the answer then or was not   *)
(* there all along: nothing else is awaited less.                          *)
LEMMA Fetches ==
    ASSUME ReadInv, NEW q \in Ids, TakeReply(q),
           stack' = [stack EXCEPT ![Len(stack)] = Level \ {q}],
           tree \subseteq tree',
           q \in Steady => <<q, Len(stack)>> \in tree',
           NEW e \in Nodes, Fetched(e)
    PROVE  Fetched(e)'
<1>1. /\ UNCHANGED <<parent, alive, made>> /\ Steady' = Steady
      /\ listing = NoPost /\ stack # <<>>
  BY DEF TakeReply, posts, Steady
<1>2. ReadTypeOK
  BY DEF ReadInv
<1>3. Len(stack) \in 1 .. MaxThreadDepth /\ Level \subseteq Ids
  BY <1>1, <1>2, StackIs
<1>4. /\ Len(stack') = Len(stack)
      /\ \A d \in 1 .. Len(stack) :
            stack'[d] = IF d = Len(stack) THEN Level \ {q} ELSE stack[d]
  <2>1. Level \ {q} \in SUBSET Ids
    BY <1>3
  <2> QED
    BY <1>1, <1>2, <2>1, LevelReplaced
<1> SUFFICES ASSUME NEW c \in Steady, parent[c] = e[1], <<c, e[2] + 1>> \notin tree'
             PROVE  Awaited(c, e[2] + 1)'
  BY <1>1 DEF Fetched
<1>5. Awaited(c, e[2] + 1)
  BY DEF Fetched
<1>6. e[2] + 1 \in 1 .. Len(stack) /\ c \in stack[e[2] + 1]
  BY <1>5 DEF Awaited
<1>7. CASE e[2] + 1 = Len(stack)
  <2>1. c # q
    BY <1>7
  <2> QED
    BY <1>4, <1>6, <1>7, <2>1 DEF Awaited, Level
<1>8. CASE e[2] + 1 # Len(stack)
  BY <1>4, <1>6, <1>8 DEF Awaited
<1> QED
  BY <1>7, <1>8

(* The reply is in the answer, and its own replies are listed next         *)
(* (reply.go:163-171).                                                     *)
LEMMA FetchReplyKeeps == \A q \in Ids : ReadInv /\ FetchReply(q) => ReadInv'
<1> SUFFICES ASSUME NEW q \in Ids, ReadInv, FetchReply(q) PROVE ReadInv'
  OBVIOUS
<1>1. /\ TakeReply(q) /\ ReadTypeOK /\ at = "replies" /\ listing = NoPost /\ stack # <<>>
      /\ UNCHANGED <<posts, at, flawed, subject, ancestors>>
      /\ tree' = tree \union {<<q, Len(stack)>>} /\ listing' = q
      /\ stack' = [stack EXCEPT ![Len(stack)] = Level \ {q}]
  BY DEF ReadInv, FetchReply, TakeReply
<1>2. Len(stack) \in 1 .. MaxThreadDepth /\ Level \subseteq Ids
  BY <1>1, StackIs
<1>3. stack' \in Seq(SUBSET Ids) /\ Len(stack') = Len(stack)
  <2>1. Level \ {q} \in SUBSET Ids
    BY <1>2
  <2> QED
    BY <1>1, <2>1, LevelReplaced
<1>4. ReadTypeOK'
  BY <1>1, <1>2, <1>3 DEF ReadTypeOK, Ref, posts
<1>5. WentDown'
  <2>1. ASSUME ~ flawed, NEW e \in Nodes', e[2] < MaxThreadDepth
        PROVE  (listing' = e[1] /\ Len(stack') = e[2]) \/ Fetched(e)'
    <3>1. CASE e = <<q, Len(stack)>>
      BY <1>1, <1>3, <3>1
    <3>2. CASE e # <<q, Len(stack)>>
      <4>1. e \in Nodes
        BY <1>1, <3>2 DEF Nodes
      <4>2. listing # e[1]
        BY <1>1, <4>1, NodesAre DEF NoPost, Ids
      <4>3. Fetched(e)
        BY <1>1, <2>1, <4>1, <4>2 DEF ReadInv, WentDown, ListsEnded
      <4> QED
        BY <1>1, <4>1, <4>3, Fetches
    <3> QED
      BY <3>1, <3>2
  <2> QED
    BY <1>1, <2>1 DEF WentDown
<1> QED
  BY <1>1, <1>4, <1>5, TreeStepKeeps

(* The reply is gone or its statement failed (reply.go:163-166).           *)
LEMMA FetchReplyFailsKeeps == \A q \in Ids : ReadInv /\ FetchReplyFails(q) => ReadInv'
<1> SUFFICES ASSUME NEW q \in Ids, ReadInv, FetchReplyFails(q) PROVE ReadInv'
  OBVIOUS
<1>1. /\ TakeReply(q) /\ ReadTypeOK /\ at = "replies" /\ listing = NoPost /\ stack # <<>>
      /\ UNCHANGED <<posts, at, subject, ancestors, listing, tree>>
      /\ (q \notin alive /\ UNCHANGED flawed) \/ flawed' = TRUE
      /\ stack' = [stack EXCEPT ![Len(stack)] = Level \ {q}]
  BY DEF ReadInv, FetchReplyFails, TakeReply, Still
<1>2. Len(stack) \in 1 .. MaxThreadDepth /\ Level \subseteq Ids
  BY <1>1, StackIs
<1>3. stack' \in Seq(SUBSET Ids) /\ Len(stack') = Len(stack)
  <2>1. Level \ {q} \in SUBSET Ids
    BY <1>2
  <2> QED
    BY <1>1, <2>1, LevelReplaced
<1>4. flawed' \in BOOLEAN /\ (flawed => flawed')
  BY <1>1 DEF ReadTypeOK
<1>5. ReadTypeOK'
  BY <1>1, <1>2, <1>3, <1>4 DEF ReadTypeOK, posts
<1>6. WentDown'
  <2>1. ASSUME ~ flawed', NEW e \in Nodes, e[2] < MaxThreadDepth
        PROVE  Fetched(e)'
    <3>1. listing # e[1]
      BY <1>1, NodesAre DEF NoPost, Ids
    <3>2. Fetched(e)
      BY <1>1, <1>4, <2>1, <3>1 DEF ReadInv, WentDown, ListsEnded
    <3>3. q \notin Steady
      BY <1>1, <2>1 DEF Steady
    <3> QED
      BY <1>1, <3>2, <3>3, Fetches
  <2>2. Nodes' = Nodes
    BY <1>1 DEF Nodes
  <2> QED
    BY <2>1, <2>2 DEF WentDown
<1> QED
  BY <1>1, <1>4, <1>5, <1>6, TreeStepKeeps

(* A level without replies to fetch is left: nothing was awaited on it.    *)
LEMMA ReturnLevelKeeps == ReadInv /\ ReturnLevel => ReadInv'
<1> SUFFICES ASSUME ReadInv, ReturnLevel PROVE ReadInv'
  OBVIOUS
<1>1. /\ ReadTypeOK /\ at = "replies" /\ listing = NoPost /\ stack # <<>> /\ Level = {}
      /\ UNCHANGED <<posts, at, flawed, subject, ancestors, listing, tree>>
      /\ stack' = Front(stack)
  BY DEF ReadInv, ReturnLevel
<1>2. Len(stack) \in 1 .. MaxThreadDepth
  BY <1>1, StackIs
<1>3. /\ stack' \in Seq(SUBSET Ids) /\ Len(stack') = Len(stack) - 1
      /\ \A d \in 1 .. Len(stack) - 1 : stack'[d] = stack[d]
  BY <1>1, LevelRemoved
<1>4. ReadTypeOK'
  BY <1>1, <1>2, <1>3, ReadsAssumption DEF ReadTypeOK, posts
<1>5. WentDown'
  <2>1. ASSUME ~ flawed, NEW e \in Nodes, e[2] < MaxThreadDepth
        PROVE  Fetched(e)'
    <3>1. listing # e[1]
      BY <1>1, NodesAre DEF NoPost, Ids
    <3>2. Fetched(e)
      BY <1>1, <2>1, <3>1 DEF ReadInv, WentDown, ListsEnded
    <3>3. SUFFICES ASSUME NEW q \in Steady, parent[q] = e[1], <<q, e[2] + 1>> \notin tree
                   PROVE  Awaited(q, e[2] + 1)'
      BY <1>1 DEF Fetched, Steady, posts
    <3>4. e[2] + 1 \in 1 .. Len(stack) /\ q \in stack[e[2] + 1]
      BY <3>2, <3>3 DEF Fetched, Awaited
    <3>5. e[2] + 1 # Len(stack)
      BY <1>1, <3>4 DEF Level
    <3>6. e[2] + 1 \in 1 .. Len(stack) - 1
      BY <1>2, <3>4, <3>5
    <3> QED
      BY <1>3, <3>4, <3>6 DEF Awaited
  <2>2. Nodes' = Nodes
    BY <1>1 DEF Nodes
  <2> QED
    BY <1>1, <2>1, <2>2 DEF WentDown
<1> QED
  BY <1>1, <1>4, <1>5, TreeStepKeeps

(* The answer leaves all as it is.                                         *)
LEMMA AnswerThreadKeeps == ReadInv /\ AnswerThread => ReadInv'
<1> SUFFICES ASSUME ReadInv, AnswerThread PROVE ReadInv'
  OBVIOUS
<1> USE DEF ReadInv, AnswerThread, posts, thread
<1>1. ReadTypeOK'
  BY DEF ReadTypeOK
<1>2. ChainKnown' /\ Linked'
  BY DEF ChainKnown, Known, Linked, Chain
<1>3. WentUp'
  BY DEF WentUp, Up, Chain, Steady, ListsEnded
<1>4. WentDown'
  <2>1. Nodes' = Nodes /\ \A e : Fetched(e)' <=> Fetched(e)
    BY DEF Nodes, Fetched, Awaited, Steady
  <2> QED
    BY <2>1 DEF WentDown, ListsEnded
<1>5. Pause'
  BY DEF Pause, ListsEnded
<1> QED
  BY <1>1, <1>2, <1>3, <1>4, <1>5

(* The invariant holds in every state of PostReads.                        *)
THEOREM ReadInvHolds == ReadSpec => []ReadInv
<1>1. ReadInv /\ [ReadNext]_readVars => ReadInv'
  <2> SUFFICES ASSUME ReadInv, [ReadNext]_readVars PROVE ReadInv'
    OBVIOUS
  <2>1. CASE OthersPost
    BY <2>1, CreateKeeps, DeleteKeeps DEF OthersPost
  <2>2. CASE GetThread
    BY <2>2, FetchSubjectKeeps, RefuseThreadKeeps, FetchAncestorKeeps, StopAncestorsKeeps,
       FetchAncestorFailsKeeps, ListRepliesKeeps, ListRepliesFailsKeeps, FetchReplyKeeps,
       FetchReplyFailsKeeps, ReturnLevelKeeps, AnswerThreadKeeps
    DEF GetThread
  <2>3. CASE UNCHANGED readVars
    <3> USE <2>3 DEF ReadInv, readVars, posts, thread
    <3>1. ReadTypeOK' /\ ChainKnown' /\ Linked'
      BY DEF ReadTypeOK, ChainKnown, Known, Linked, Chain
    <3>2. WentUp' /\ Pause'
      BY DEF WentUp, Up, Chain, Steady, ListsEnded, Pause
    <3>3. WentDown'
      <4>1. Nodes' = Nodes /\ \A e : Fetched(e)' <=> Fetched(e)
        BY DEF Nodes, Fetched, Awaited, Steady
      <4> QED
        BY <4>1 DEF WentDown, ListsEnded
    <3> QED
      BY <3>1, <3>2, <3>3
  <2> QED
    BY <2>1, <2>2, <2>3 DEF ReadNext
<1> QED
  BY ReadInitInv, <1>1, PTL DEF ReadSpec

(* PostReads keeps its types: the answer is never deeper than the limit,   *)
(* in either direction, and a deletion leaves no repost without its        *)
(* original, for any number of posts and requests and any limit.           *)
THEOREM ReadTyping == ReadSpec => []ReadTypeOK
<1>1. ReadInv => ReadTypeOK
  BY DEF ReadInv
<1> QED
  BY <1>1, ReadInvHolds, PTL

(* Whatever others post and delete between the statements of GetThread, an *)
(* answer without an error has every ancestor and every reply that was     *)
(* there all along and hangs together with the subject, down to the limit: *)
(* for any table of posts, any number of requests and any limit            *)
(* (reply.go:120-134, 162-171).                                            *)
THEOREM ThreadWhole == ReadSpec => []ThreadComplete
<1>1. ReadInv => ThreadComplete
  <2> SUFFICES ASSUME ReadInv, at = "answered", ~ flawed
               PROVE  AncestorsComplete /\ RepliesComplete
    BY DEF ThreadComplete
  <2> USE DEF ReadInv
  <2>1. AncestorsComplete
    BY DEF Linked, WentUp, ListsEnded, AncestorsComplete
  <2>2. stack = <<>> /\ listing = NoPost /\ Len(stack) = 0
    BY EmptySeq DEF Pause
  <2>3. ASSUME NEW e \in Nodes, e[2] < MaxThreadDepth, NEW q \in Steady, parent[q] = e[1]
        PROVE  <<q, e[2] + 1>> \in tree
    <3>1. listing # e[1]
      BY <2>2, NodesAre DEF NoPost, Ids
    <3>2. Fetched(e)
      BY <2>3, <3>1 DEF WentDown, ListsEnded
    <3>3. ~ Awaited(q, e[2] + 1)
      BY <2>2 DEF Awaited
    <3> QED
      BY <2>3, <3>2, <3>3 DEF Fetched
  <2>4. RepliesComplete
    BY <2>3 DEF RepliesComplete, Nodes
  <2> QED
    BY <2>1, <2>4
<1> QED
  BY <1>1, ReadInvHolds, PTL

-----------------------------------------------------------------------------
(* One post and many (PostReads).                                          *)

(* What the operators that build answers need: rows refer to earlier ones, *)
(* and no repost is without its original.                                  *)
Sound ==
    /\ parent \in [Ids -> Ref] /\ original \in [Ids -> Ref]
    /\ \A p \in Ids : parent[p] < p /\ original[p] < p
    /\ alive \subseteq Ids
    /\ \A p \in alive : original[p] = NoPost \/ original[p] \in alive

(* Induction over the natural numbers, for a set.                          *)
LEMMA FromZero ==
    ASSUME NEW T, 0 \in T, \A n \in Nat : n \in T => n + 1 \in T
    PROVE  \A n \in Nat : n \in T
<1> SUFFICES ASSUME Nat \ T # {} PROVE FALSE
  OBVIOUS
<1>1. PICK x \in Nat \ T : \A y \in Nat \ T : x =< y
  BY Least
<1>2. x # 0 /\ x - 1 \in Nat /\ (x - 1) + 1 = x
  BY <1>1
<1>3. x - 1 \in T
  BY <1>1, <1>2
<1> QED
  BY <1>1, <1>2, <1>3

(* Induction over the ids, from earlier posts to later ones ...            *)
LEMMA FromBelow ==
    ASSUME NEW T, \A p \in Ids : (\A q \in Ids : q < p => q \in T) => p \in T
    PROVE  \A p \in Ids : p \in T
<1> SUFFICES ASSUME Ids \ T # {} PROVE FALSE
  OBVIOUS
<1>1. Ids \subseteq Nat
  BY DEF Ids
<1>2. PICK x \in Ids \ T : \A y \in Ids \ T : x =< y
  <2>1. Ids \ T \subseteq Nat
    BY <1>1
  <2> QED
    BY <2>1, Least
<1>3. \A q \in Ids : q < x => q \in T
  BY <1>1, <1>2
<1> QED
  BY <1>2, <1>3

(* ... and from later posts to earlier ones.                               *)
LEMMA FromAbove ==
    ASSUME NEW T, \A p \in Ids : (\A q \in Ids : p < q => q \in T) => p \in T
    PROVE  \A p \in Ids : p \in T
<1> SUFFICES ASSUME NEW z \in Ids \ T PROVE FALSE
  OBVIOUS
<1> DEFINE D == {n \in Nat : \E y \in Ids \ T : n = NumIds - y}
<1>1. D \subseteq Nat /\ D # {}
  <2>1. NumIds - z \in Nat
    BY ReadsAssumption DEF Ids
  <2> QED
    BY <2>1
<1>2. PICK d \in D : \A e \in D : d =< e
  <2> HIDE DEF D
  <2> QED
    BY <1>1, Least
<1>3. PICK x \in Ids \ T : d = NumIds - x
  BY <1>2
<1>4. ASSUME NEW q \in Ids, x < q PROVE q \in T
  <2> SUFFICES ASSUME q \notin T PROVE FALSE
    OBVIOUS
  <2>1. NumIds - q \in D
    BY ReadsAssumption DEF Ids
  <2>2. d =< NumIds - q
    BY <1>2, <2>1
  <2> QED
    BY <1>3, <1>4, <2>2, ReadsAssumption DEF Ids
<1> QED
  BY <1>3, <1>4

(* fetchPost gives what its body says: originals are earlier, so the       *)
(* recursion can be built up to each id.                                   *)
LEMMA SingleIs ==
    ASSUME Sound
    PROVE  \A p \in Ids : Single[p] =
              [id |-> p, replies |-> CountReplies(p), replyTo |-> HasReplyTo(p),
               original |-> IF original[p] \in alive THEN <<Single[original[p]]>> ELSE <<>>]
<1> DEFINE Body(g, p) ==
              [id |-> p, replies |-> CountReplies(p), replyTo |-> HasReplyTo(p),
               original |-> IF original[p] \in alive THEN <<g[original[p]]>> ELSE <<>>]
           Good(n, g) == \A q \in 1 .. n : g[q] = Body(g, q)
           T == {n \in Nat : n <= NumIds => \E g : Good(n, g)}
<1>1. 0 \in T
  OBVIOUS
<1>2. ASSUME NEW n \in Nat, n \in T PROVE n + 1 \in T
  <2> SUFFICES ASSUME n + 1 <= NumIds PROVE \E g : Good(n + 1, g)
    <3> HIDE DEF Good
    <3> QED
      OBVIOUS
  <2>1. n <= NumIds
    BY ReadsAssumption
  <2>2. PICK f : Good(n, f)
    <3> HIDE DEF Good
    <3> QED
      BY <1>2, <2>1
  <2> DEFINE g == [q \in 1 .. n + 1 |-> IF q = n + 1 THEN Body(f, q) ELSE f[q]]
  <2>3. ASSUME NEW q \in 1 .. n + 1 PROVE g[q] = Body(g, q)
    <3>1. q \in Ids /\ original[q] \in Ref /\ original[q] < q
      BY ReadsAssumption DEF Ids, Sound
    <3>2. ASSUME original[q] \in alive
          PROVE  original[q] \in 1 .. n /\ g[original[q]] = f[original[q]]
      <4>1. original[q] \in 1 .. n
        <5>1. original[q] \in Ids
          BY <3>2 DEF Sound
        <5>2. original[q] < q
          BY <3>1
        <5> HIDE DEF g, Good, Body
        <5> QED
          BY <5>1, <5>2 DEF Ids
      <4>2. original[q] \in 1 .. n + 1 /\ original[q] # n + 1
        BY <4>1
      <4> HIDE DEF Body
      <4> QED
        BY <4>1, <4>2
    <3>3. Body(g, q) = Body(f, q)
      <4> HIDE DEF g
      <4> QED
        BY <3>2
    <3>4. g[q] = Body(f, q)
      <4>1. CASE q = n + 1
        <5> HIDE DEF Body
        <5> QED
          BY <4>1
      <4>2. CASE q # n + 1
        <5>1. q \in 1 .. n
          BY <4>2
        <5>2. f[q] = Body(f, q)
          BY <2>2, <5>1
        <5> HIDE DEF Body
        <5> QED
          BY <4>2, <5>2
      <4> QED
        BY <4>1, <4>2
    <3> QED
      BY <3>3, <3>4
  <2> HIDE DEF g
  <2> QED
    BY <2>3
<1>3. \A n \in Nat : n \in T
  <2> HIDE DEF T
  <2> QED
    BY <1>1, <1>2, FromZero
<1>4. PICK f : Good(NumIds, f)
  <2>1. NumIds \in T
    BY <1>3, ReadsAssumption
  <2> HIDE DEF Good
  <2> QED
    BY <2>1, ReadsAssumption
<1> DEFINE h == [p \in Ids |-> f[p]]
<1>5. h = [p \in Ids |-> Body(h, p)]
  <2> SUFFICES ASSUME NEW p \in Ids PROVE h[p] = Body(h, p)
    OBVIOUS
  <2>1. original[p] \in alive => original[p] \in Ids
    BY DEF Sound
  <2>2. h[p] = Body(f, p)
    BY <1>4 DEF Ids
  <2> QED
    BY <2>1, <2>2
<1> HIDE DEF h
<1>6. Single = [p \in Ids |-> Body(Single, p)]
  BY <1>5 DEF Single
<1> QED
  <2> DEFINE s == Single
  <2>1. s = [p \in Ids |-> Body(s, p)]
    BY <1>6
  <2> HIDE DEF s
  <2>2. \A p \in Ids : s[p] = Body(s, p)
    BY <2>1
  <2> QED
    BY <2>2 DEF s

(* The same for the number of reposts between a post and what it shows.    *)
LEMMA NestingIs ==
    ASSUME Sound
    PROVE  \A p \in Ids : Nesting[p] =
              IF original[p] = NoPost THEN 0 ELSE 1 + Nesting[original[p]]
<1> DEFINE Body(g, p) == IF original[p] = NoPost THEN 0 ELSE 1 + g[original[p]]
           Good(n, g) == \A q \in 1 .. n : g[q] = Body(g, q)
           T == {n \in Nat : n <= NumIds => \E g : Good(n, g)}
<1>1. 0 \in T
  OBVIOUS
<1>2. ASSUME NEW n \in Nat, n \in T PROVE n + 1 \in T
  <2> SUFFICES ASSUME n + 1 <= NumIds PROVE \E g : Good(n + 1, g)
    <3> HIDE DEF Good
    <3> QED
      OBVIOUS
  <2>1. n <= NumIds
    BY ReadsAssumption
  <2>2. PICK f : Good(n, f)
    <3> HIDE DEF Good
    <3> QED
      BY <1>2, <2>1
  <2> DEFINE g == [q \in 1 .. n + 1 |-> IF q = n + 1 THEN Body(f, q) ELSE f[q]]
  <2>3. ASSUME NEW q \in 1 .. n + 1 PROVE g[q] = Body(g, q)
    <3>1. q \in Ids /\ original[q] \in Ref /\ original[q] < q
      BY ReadsAssumption DEF Ids, Sound
    <3>2. ASSUME original[q] # NoPost
          PROVE  original[q] \in 1 .. n /\ g[original[q]] = f[original[q]]
      <4>1. original[q] \in 1 .. n
        <5> HIDE DEF g, Good, Body
        <5> QED
          BY <3>1, <3>2 DEF Ids, Ref, NoPost
      <4>2. original[q] \in 1 .. n + 1 /\ original[q] # n + 1
        BY <4>1
      <4> HIDE DEF Body
      <4> QED
        BY <4>1, <4>2
    <3>3. Body(g, q) = Body(f, q)
      <4> HIDE DEF g
      <4> QED
        BY <3>2
    <3>4. g[q] = Body(f, q)
      <4>1. CASE q = n + 1
        <5> HIDE DEF Body
        <5> QED
          BY <4>1
      <4>2. CASE q # n + 1
        <5>1. q \in 1 .. n
          BY <4>2
        <5>2. f[q] = Body(f, q)
          BY <2>2, <5>1
        <5> HIDE DEF Body
        <5> QED
          BY <4>2, <5>2
      <4> QED
        BY <4>1, <4>2
    <3> QED
      BY <3>3, <3>4
  <2> HIDE DEF g
  <2> QED
    BY <2>3
<1>3. \A n \in Nat : n \in T
  <2> HIDE DEF T
  <2> QED
    BY <1>1, <1>2, FromZero
<1>4. PICK f : Good(NumIds, f)
  <2>1. NumIds \in T
    BY <1>3, ReadsAssumption
  <2> HIDE DEF Good
  <2> QED
    BY <2>1, ReadsAssumption
<1> DEFINE h == [p \in Ids |-> f[p]]
<1>5. h = [p \in Ids |-> Body(h, p)]
  <2> SUFFICES ASSUME NEW p \in Ids PROVE h[p] = Body(h, p)
    OBVIOUS
  <2>1. original[p] # NoPost => original[p] \in Ids
    BY DEF Sound, Ref
  <2>2. h[p] = Body(f, p)
    BY <1>4 DEF Ids
  <2> QED
    BY <2>1, <2>2
<1> HIDE DEF h
<1>6. Nesting = [p \in Ids |-> Body(Nesting, p)]
  BY <1>5 DEF Nesting
<1> QED
  <2> DEFINE s == Nesting
  <2>1. s = [p \in Ids |-> Body(s, p)]
    BY <1>6
  <2> HIDE DEF s
  <2>2. \A p \in Ids : s[p] = Body(s, p)
    BY <2>1
  <2> QED
    BY <2>2 DEF s

(* A repost of reposts ends at a post that is none.                        *)
LEMMA NestingIsNumber ==
    ASSUME Sound
    PROVE  \A p \in Ids : Nesting[p] \in Nat
<1> DEFINE T == {p \in Ids : Nesting[p] \in Nat}
<1>1. ASSUME NEW p \in Ids, \A q \in Ids : q < p => q \in T PROVE p \in T
  <2>1. original[p] = NoPost \/ (original[p] \in Ids /\ original[p] < p)
    BY DEF Sound, Ref
  <2> QED
    BY <1>1, <2>1, NestingIs
<1> HIDE DEF T
<1>2. \A p \in Ids : p \in T
  BY <1>1, FromBelow
<1> QED
  BY <1>2 DEF T

(* Replies come after the post they reply to.                              *)
LEMMA ChildrenAreLater ==
    ASSUME Sound, NEW p \in Ids
    PROVE  \A c \in Children(p) : c \in Ids /\ c \in alive /\ p < c
  BY DEF Sound, Children

(* The rows below a post are its replies and what is below them: the       *)
(* smallest set with the replies of the post and of each of its posts is   *)
(* one that is as the definition says.                                     *)
LEMMA BelowIs ==
    ASSUME Sound
    PROVE  \A p \in Ids : Below[p] = Children(p) \union UNION {Below[c] : c \in Children(p)}
<1> DEFINE Closed(p, S) == Children(p) \subseteq S /\ \A c \in S : Children(c) \subseteq S
           D == [p \in Ids |-> {x \in alive : \A S \in SUBSET alive : Closed(p, S) => x \in S}]
<1>0. \A p : Children(p) \subseteq alive
  BY DEF Children
<1>1. ASSUME NEW p \in Ids PROVE D[p] = Children(p) \union UNION {D[c] : c \in Children(p)}
  <2> DEFINE R == Children(p) \union UNION {D[c] : c \in Children(p)}
  <2>1. \A c \in Children(p) : c \in Ids
    BY ChildrenAreLater
  <2>2. \A q \in Ids : \A x \in D[q] : Children(x) \subseteq D[q]
    BY <1>0
  <2>3. \A q \in Ids : Children(q) \subseteq D[q]
    BY <1>0
  <2>4. R \subseteq D[p]
    <3>1. ASSUME NEW c \in Children(p), NEW x \in D[c] PROVE x \in D[p]
      <4>1. c \in Ids
        BY <2>1
      <4>2. \A S \in SUBSET alive : Closed(p, S) => Closed(c, S)
        OBVIOUS
      <4> QED
        BY <3>1, <4>1, <4>2
    <3> HIDE DEF D
    <3> QED
      BY <2>3, <3>1
  <2>5. Closed(p, R)
    <3>1. ASSUME NEW y \in R PROVE Children(y) \subseteq R
      <4>1. CASE y \in Children(p)
        <5>1. Children(y) \subseteq D[y]
          BY <2>1, <2>3, <4>1
        <5> HIDE DEF D
        <5> QED
          BY <4>1, <5>1
      <4>2. CASE \E c \in Children(p) : y \in D[c]
        <5> PICK c \in Children(p) : y \in D[c]
          BY <4>2
        <5>1. Children(y) \subseteq D[c]
          BY <2>1, <2>2
        <5> HIDE DEF D
        <5> QED
          BY <5>1
      <4> HIDE DEF D
      <4> QED
        BY <4>1, <4>2
    <3> HIDE DEF D
    <3> QED
      BY <3>1
  <2>6. R \subseteq alive
    <3>1. \A q \in Ids : D[q] \subseteq alive
      OBVIOUS
    <3> HIDE DEF D
    <3> QED
      BY <1>0, <2>1, <3>1
  <2>7. D[p] \subseteq R
    <3> HIDE DEF R, Closed
    <3> QED
      BY <2>5, <2>6
  <2> HIDE DEF D
  <2> QED
    BY <2>4, <2>7
<1>2. D = [p \in Ids |-> Children(p) \union UNION {D[c] : c \in Children(p)}]
  <2>1. DOMAIN D = Ids /\ D = [p \in Ids |-> D[p]]
    OBVIOUS
  <2> HIDE DEF D
  <2> QED
    BY <1>1, <2>1
<1> HIDE DEF D
<1>3. Below = [p \in Ids |-> Children(p) \union UNION {Below[c] : c \in Children(p)}]
  BY <1>2 DEF Below
<1> DEFINE b == Below
<1>4. b = [p \in Ids |-> Children(p) \union UNION {b[c] : c \in Children(p)}]
  BY <1>3
<1> HIDE DEF b
<1>5. \A p \in Ids : b[p] = Children(p) \union UNION {b[c] : c \in Children(p)}
  BY <1>4
<1> QED
  BY <1>5 DEF b

(* What is below a post is in the table, and so are the replies to it      *)
(* below that post.                                                        *)
LEMMA BelowInside ==
    ASSUME Sound
    PROVE  \A p \in Ids : Below[p] \subseteq alive /\ \A c \in Below[p] : Children(c) \subseteq Below[p]
<1> DEFINE T == {p \in Ids : /\ Below[p] \subseteq alive
                             /\ \A c \in Below[p] : Children(c) \subseteq Below[p]}
<1>1. ASSUME NEW p \in Ids, \A q \in Ids : p < q => q \in T PROVE p \in T
  <2>1. Below[p] = Children(p) \union UNION {Below[c] : c \in Children(p)}
    BY BelowIs
  <2>2. \A c \in Children(p) : /\ c \in Ids /\ c \in alive
                               /\ Below[c] \subseteq alive
                               /\ \A d \in Below[c] : Children(d) \subseteq Below[c]
                               /\ Children(c) \subseteq Below[c]
    BY <1>1, ChildrenAreLater, BelowIs
  <2>3. Below[p] \subseteq alive
    BY <2>1, <2>2
  <2>4. ASSUME NEW c \in Below[p] PROVE Children(c) \subseteq Below[p]
    BY <2>1, <2>2
  <2> QED
    BY <2>3, <2>4
<1> HIDE DEF T
<1>2. \A p \in Ids : p \in T
  BY <1>1, FromAbove
<1> QED
  BY <1>2 DEF T

(* f is the rows of applyRepliesCount, step by step.                       *)
RowsOf(S, f) ==
    /\ f[0] = {e \in S \X alive : parent[e[2]] = e[1]}
    /\ \A n \in 1 .. NumIds :
          f[n] = f[n - 1] \union {e \in S \X alive : <<e[1], parent[e[2]]>> \in f[n - 1]}

(* The rows of applyRepliesCount are the last of such steps.               *)
LEMMA RowsFromIs ==
    ASSUME NEW S
    PROVE  \E f : RowsOf(S, f) /\ RowsFrom(S) = f[NumIds]
<1> DEFINE Body(g, n) ==
              IF n = 0 THEN {e \in S \X alive : parent[e[2]] = e[1]}
              ELSE g[n - 1] \union {e \in S \X alive : <<e[1], parent[e[2]]>> \in g[n - 1]}
           Good(n, g) == \A m \in 0 .. n : g[m] = Body(g, m)
           T == {n \in Nat : \E g : Good(n, g)}
<1>1. 0 \in T
  <2> DEFINE g == [m \in {0} |-> {e \in S \X alive : parent[e[2]] = e[1]}]
  <2>1. Good(0, g)
    OBVIOUS
  <2> QED
    BY <2>1
<1>2. ASSUME NEW n \in Nat, n \in T PROVE n + 1 \in T
  <2>1. PICK f : Good(n, f)
    BY <1>2
  <2> DEFINE g == [m \in 0 .. n + 1 |-> IF m = n + 1 THEN Body(f, m) ELSE f[m]]
  <2>2. ASSUME NEW m \in 0 .. n + 1 PROVE g[m] = Body(g, m)
    <3>1. ASSUME m # 0 PROVE g[m - 1] = f[m - 1]
      <4>1. m - 1 \in 0 .. n + 1 /\ m - 1 # n + 1
        BY <3>1
      <4> HIDE DEF Body
      <4> QED
        BY <4>1
    <3>2. Body(g, m) = Body(f, m)
      <4> HIDE DEF g
      <4> QED
        BY <3>1
    <3>3. g[m] = Body(f, m)
      <4>1. CASE m = n + 1
        <5> HIDE DEF Body
        <5> QED
          BY <4>1
      <4>2. CASE m # n + 1
        <5>1. m \in 0 .. n
          BY <4>2
        <5>2. f[m] = Body(f, m)
          BY <2>1, <5>1
        <5> HIDE DEF Body
        <5> QED
          BY <4>2, <5>2
      <4> QED
        BY <4>1, <4>2
    <3> QED
      BY <3>2, <3>3
  <2>3. Good(n + 1, g)
    BY <2>2
  <2> HIDE DEF g, Good
  <2> QED
    BY <2>3
<1>3. \A n \in Nat : n \in T
  <2> HIDE DEF T
  <2> QED
    BY <1>1, <1>2, FromZero
<1>4. PICK f : Good(NumIds, f)
  <2>1. NumIds \in T
    BY <1>3, ReadsAssumption
  <2> HIDE DEF Good
  <2> QED
    BY <2>1
<1> DEFINE h == [n \in 0 .. NumIds |-> f[n]]
<1>5. h = [n \in 0 .. NumIds |-> Body(h, n)]
  <2> SUFFICES ASSUME NEW n \in 0 .. NumIds PROVE h[n] = Body(h, n)
    OBVIOUS
  <2>1. h[n] = Body(f, n)
    BY <1>4
  <2>2. n # 0 => n - 1 \in 0 .. NumIds
    BY ReadsAssumption
  <2> QED
    BY <2>1, <2>2
<1> HIDE DEF h
<1> DEFINE rows[n \in 0 .. NumIds] ==
              IF n = 0 THEN {e \in S \X alive : parent[e[2]] = e[1]}
              ELSE LET above == rows[n - 1]
                   IN  above \union {e \in S \X alive : <<e[1], parent[e[2]]>> \in above}
<1>6. rows = [n \in 0 .. NumIds |-> Body(rows, n)]
  BY <1>5, ZenonT(30)
<1>7. RowsFrom(S) = rows[NumIds]
  BY DEF RowsFrom
<1> HIDE DEF rows
<1>8. \A n \in 0 .. NumIds : rows[n] = Body(rows, n)
  <2> HIDE DEF Body
  <2> QED
    BY <1>6
<1>9. 0 \in 0 .. NumIds /\ \A n \in 1 .. NumIds : n \in 0 .. NumIds /\ n # 0
  BY ReadsAssumption
<1>10. RowsOf(S, rows)
  BY <1>8, <1>9 DEF RowsOf
<1> QED
  BY <1>7, <1>10

(* No step loses a row.                                                    *)
LEMMA RowsGrow ==
    ASSUME NEW S, NEW f, RowsOf(S, f)
    PROVE  \A n \in 0 .. NumIds : \A m \in 0 .. n : f[m] \subseteq f[n]
<1> DEFINE T == {n \in Nat : n <= NumIds => \A m \in 0 .. n : f[m] \subseteq f[n]}
<1>1. 0 \in T
  OBVIOUS
<1>2. ASSUME NEW n \in Nat, n \in T PROVE n + 1 \in T
  <2> SUFFICES ASSUME n + 1 <= NumIds, NEW m \in 0 .. n + 1 PROVE f[m] \subseteq f[n + 1]
    OBVIOUS
  <2>1. f[n] \subseteq f[n + 1]
    <3>1. n + 1 \in 1 .. NumIds /\ (n + 1) - 1 = n
      BY ReadsAssumption
    <3> QED
      BY <3>1, ZenonT(30) DEF RowsOf
  <2>2. m = n + 1 \/ m \in 0 .. n
    OBVIOUS
  <2>3. n <= NumIds
    BY ReadsAssumption
  <2> QED
    BY <1>2, <2>1, <2>2, <2>3
<1> HIDE DEF T
<1>3. \A n \in Nat : n \in T
  BY <1>1, <1>2, FromZero
<1> QED
  BY <1>3, ReadsAssumption DEF T

(* The steps up to the number of ids reach, for each post, exactly what is *)
(* below it: a row x of the table is found by step x, since its parent is  *)
(* earlier.                                                                *)
LEMMA RowsAreBelow ==
    ASSUME Sound, NEW S \in SUBSET Ids
    PROVE  RowsFrom(S) = {e \in S \X alive : e[2] \in Below[e[1]]}
<1>1. PICK f : RowsOf(S, f) /\ RowsFrom(S) = f[NumIds]
  BY RowsFromIs
<1>2. \A n \in 0 .. NumIds : f[n] \subseteq {e \in S \X alive : e[2] \in Below[e[1]]}
  <2> DEFINE B == {e \in S \X alive : e[2] \in Below[e[1]]}
             T == {n \in Nat : n <= NumIds => f[n] \subseteq B}
  <2>1. 0 \in T
    <3>1. ASSUME NEW e \in S \X alive, parent[e[2]] = e[1] PROVE e[2] \in Below[e[1]]
      <4>1. e[1] \in Ids /\ e[2] \in Children(e[1])
        BY <3>1 DEF Children
      <4> QED
        BY <4>1, BelowIs
    <3> QED
      BY <1>1, <3>1 DEF RowsOf
  <2>2. ASSUME NEW n \in Nat, n \in T PROVE n + 1 \in T
    <3> SUFFICES ASSUME n + 1 <= NumIds PROVE f[n + 1] \subseteq B
      <4> HIDE DEF B
      <4> QED
        OBVIOUS
    <3>1. n <= NumIds /\ n + 1 \in 1 .. NumIds /\ (n + 1) - 1 = n
      BY ReadsAssumption
    <3>2. f[n + 1] = f[n] \union {e \in S \X alive : <<e[1], parent[e[2]]>> \in f[n]}
      BY <1>1, <3>1 DEF RowsOf
    <3>3. f[n] \subseteq B
      BY <2>2, <3>1
    <3>4. ASSUME NEW e \in S \X alive, <<e[1], parent[e[2]]>> \in B PROVE e \in B
      <4>1. e[1] \in Ids /\ parent[e[2]] \in Below[e[1]] /\ e[2] \in Children(parent[e[2]])
        BY <3>4 DEF Children
      <4>2. e[2] \in Below[e[1]]
        BY <4>1, BelowInside
      <4> QED
        BY <4>2
    <3> HIDE DEF B
    <3> QED
      BY <3>2, <3>3, <3>4
  <2> HIDE DEF T
  <2>3. \A n \in Nat : n \in T
    BY <2>1, <2>2, FromZero
  <2> QED
    BY <2>3, ReadsAssumption DEF T
<1>3. ASSUME NEW r \in S, NEW q \in Below[r] PROVE <<r, q>> \in f[NumIds]
  <2> DEFINE X == {x \in alive : <<r, x>> \in f[x]}
             T == {p \in Ids : Children(p) \subseteq X => Below[p] \subseteq X}
  <2>1. r \in Ids /\ \A x \in alive : x \in 1 .. NumIds
    BY DEF Sound, Ids
  <2>2. Children(r) \subseteq X
    <3>1. ASSUME NEW c \in Children(r) PROVE <<r, c>> \in f[c]
      <4>1. c \in 0 .. NumIds /\ 0 \in 0 .. c /\ c \in alive /\ parent[c] = r
        BY <2>1, ChildrenAreLater DEF Children
      <4>2. <<r, c>> \in f[0]
        BY <1>1, <4>1 DEF RowsOf
      <4> QED
        BY <1>1, <4>1, <4>2, RowsGrow
    <3> QED
      BY <2>1, <3>1, ChildrenAreLater
  <2>3. ASSUME NEW c \in X PROVE Children(c) \subseteq X
    <3>1. ASSUME NEW d \in Children(c) PROVE <<r, d>> \in f[d]
      <4>1. c \in Ids /\ d \in alive /\ parent[d] = c /\ c < d
        BY ChildrenAreLater DEF Sound, Children
      <4>2. d \in 1 .. NumIds /\ d - 1 \in 0 .. NumIds /\ c \in 0 .. d - 1
        <5>1. c \in 1 .. NumIds /\ d \in 1 .. NumIds
          BY <2>1, <4>1 DEF Ids
        <5> HIDE DEF X, T
        <5> QED
          BY <4>1, <5>1, ReadsAssumption
      <4>3. <<r, c>> \in f[d - 1]
        BY <1>1, <4>2, RowsGrow
      <4> QED
        BY <1>1, <4>1, <4>2, <4>3 DEF RowsOf
    <3> QED
      BY <3>1 DEF Children
  <2>4. ASSUME NEW p \in Ids, \A c \in Ids : p < c => c \in T PROVE p \in T
    <3> SUFFICES ASSUME Children(p) \subseteq X PROVE Below[p] \subseteq X
      <4> HIDE DEF X
      <4> QED
        OBVIOUS
    <3>1. ASSUME NEW c \in Children(p) PROVE Below[c] \subseteq X
      <4>1. c \in Ids /\ p < c /\ c \in X
        BY ChildrenAreLater
      <4>2. Children(c) \subseteq X
        BY <2>3, <4>1
      <4> HIDE DEF X
      <4> QED
        BY <2>4, <4>1, <4>2
    <3> HIDE DEF X
    <3> QED
      BY <3>1, BelowIs
  <2>5. \A p \in Ids : p \in T
    <3> HIDE DEF T
    <3> QED
      BY <2>4, FromAbove
  <2>6. q \in X
    <3> HIDE DEF X
    <3> QED
      BY <2>1, <2>2, <2>5
  <2>7. q \in 0 .. NumIds /\ NumIds \in 0 .. NumIds /\ q \in 0 .. NumIds
    BY <2>1, <2>6, ReadsAssumption
  <2> QED
    BY <1>1, <2>6, <2>7, RowsGrow
<1>4. NumIds \in 0 .. NumIds
  BY ReadsAssumption
<1>5. f[NumIds] \subseteq {e \in S \X alive : e[2] \in Below[e[1]]}
  BY <1>2, <1>4
<1>6. ASSUME NEW e \in S \X alive, e[2] \in Below[e[1]] PROVE e \in f[NumIds]
  <2>1. e = <<e[1], e[2]>> /\ e[1] \in S
    OBVIOUS
  <2> QED
    BY <1>3, <1>6, <2>1
<1> QED
  BY <1>1, <1>5, <1>6

(* applyRepliesCount and countReplies count the same.                      *)
LEMMA CountsAgree ==
    ASSUME Sound, NEW S \in SUBSET Ids, NEW p \in S
    PROVE  RepliesCounts(S)[p] = CountReplies(p)
<1> DEFINE R == {e \in RowsFrom(S) : e[1] = p}
           B == Below[p]
           F == [q \in B |-> <<p, q>>]
<1>1. B \subseteq alive /\ alive \subseteq Ids
  BY BelowInside DEF Sound
<1>2. R = {e \in S \X alive : e[1] = p /\ e[2] \in B}
  BY RowsAreBelow
<1>3. F \in Bijection(B, R)
  <2> HIDE DEF B, R
  <2>1. F \in [B -> R]
    BY <1>1, <1>2
  <2>2. \A x, y \in B : F[x] = F[y] => x = y
    OBVIOUS
  <2>3. ASSUME NEW e \in R PROVE \E x \in B : F[x] = e
    <3>1. e[2] \in B /\ F[e[2]] = e
      BY <1>2
    <3> QED
      BY <3>1
  <2> HIDE DEF F
  <2> QED
    BY <2>1, <2>2, <2>3 DEF Bijection, Injection, Surjection, IsInjective
<1>4. IsFiniteSet(B)
  <2>1. IsFiniteSet(Ids)
    BY FS_Interval, ReadsAssumption DEF Ids
  <2> QED
    BY <1>1, <2>1, FS_Subset
<1>5. Cardinality(R) = Cardinality(B)
  <2>1. ExistsBijection(B, R)
    BY <1>3 DEF ExistsBijection
  <2> HIDE DEF B, R
  <2> QED
    BY <1>4, <2>1, FS_Bijection
<1>6. RepliesCounts(S)[p] = Cardinality(R)
  BY DEF RepliesCounts
<1> QED
  BY <1>5, <1>6 DEF CountReplies

(* One call of fetchPostsBulkDepth that may be followed by n more, with    *)
(* what the next one gives.                                                *)
BulkCall(n, deeper) ==
    [S \in SUBSET Ref |->
        [p \in S \intersect alive |->
            [id |-> p, replies |-> RepliesCounts(S \intersect alive)[p],
             replyTo |-> HasReplyTo(p),
             original |-> IF n > 0 /\ original[p] \in alive
                          THEN <<deeper[Originals(S)][original[p]]>> ELSE <<>>]]]

(* The last call makes no other.                                           *)
LEMMA LastCall == \A d, e : BulkCall(0, d) = BulkCall(0, e)
<1>1. ~ (0 > 0)
  OBVIOUS
<1> QED
  BY <1>1 DEF BulkCall

(* fetchPostsBulkDepth gives what its body says, at each depth.            *)
LEMMA BulkDepthIs ==
    \A n \in 0 .. MaxRepostDepth : BulkDepth[n] = BulkCall(n, BulkDepth[n - 1])
<1> DEFINE Good(n, g) == \A m \in 0 .. n : g[m] = BulkCall(m, g[m - 1])
           T == {n \in Nat : \E g : Good(n, g)}
<1>1. 0 \in T
  <2> DEFINE g == [m \in {0} |-> BulkCall(0, 0)]
  <2>1. g[0] = BulkCall(0, g[0 - 1])
    BY LastCall
  <2>2. Good(0, g)
    BY <2>1
  <2> HIDE DEF g, Good
  <2> QED
    BY <2>2
<1>2. ASSUME NEW n \in Nat, n \in T PROVE n + 1 \in T
  <2>1. PICK f : Good(n, f)
    BY <1>2
  <2> DEFINE g == [m \in 0 .. n + 1 |-> IF m = n + 1 THEN BulkCall(m, f[m - 1]) ELSE f[m]]
  <2>2. ASSUME NEW m \in 0 .. n + 1 PROVE g[m] = BulkCall(m, g[m - 1])
    <3>1. BulkCall(m, g[m - 1]) = BulkCall(m, f[m - 1])
      <4>1. CASE m = 0
        BY <4>1, LastCall
      <4>2. CASE m # 0
        <5>1. m - 1 \in 0 .. n + 1 /\ m - 1 # n + 1
          BY <4>2
        <5>2. g[m - 1] = f[m - 1]
          BY <5>1
        <5> HIDE DEF g
        <5> QED
          BY <5>2
      <4> QED
        BY <4>1, <4>2
    <3>2. g[m] = BulkCall(m, f[m - 1])
      <4>1. CASE m = n + 1
        BY <4>1
      <4>2. CASE m # n + 1
        <5>1. m \in 0 .. n
          BY <4>2
        <5> QED
          BY <2>1, <4>2, <5>1
      <4> QED
        BY <4>1, <4>2
    <3> QED
      BY <3>1, <3>2
  <2>3. Good(n + 1, g)
    BY <2>2
  <2> HIDE DEF g, Good
  <2> QED
    BY <2>3
<1>3. \A n \in Nat : n \in T
  <2> HIDE DEF T
  <2> QED
    BY <1>1, <1>2, FromZero
<1>4. PICK f : Good(MaxRepostDepth, f)
  <2>1. MaxRepostDepth \in T
    BY <1>3, ReadsAssumption
  <2> HIDE DEF Good
  <2> QED
    BY <2>1
<1> DEFINE h == [n \in 0 .. MaxRepostDepth |-> f[n]]
<1>5. h = [n \in 0 .. MaxRepostDepth |-> BulkCall(n, h[n - 1])]
  <2> SUFFICES ASSUME NEW n \in 0 .. MaxRepostDepth PROVE h[n] = BulkCall(n, h[n - 1])
    OBVIOUS
  <2>1. h[n] = BulkCall(n, f[n - 1])
    BY <1>4
  <2>2. CASE n = 0
    BY <2>1, <2>2, LastCall
  <2>3. CASE n # 0
    <3>1. n - 1 \in 0 .. MaxRepostDepth
      BY <2>3, ReadsAssumption
    <3>2. h[n - 1] = f[n - 1]
      BY <3>1, Zenon
    <3> HIDE DEF h
    <3> QED
      BY <2>1, <3>2
  <2> QED
    BY <2>2, <2>3
<1> HIDE DEF h
<1>6. BulkDepth = [n \in 0 .. MaxRepostDepth |-> BulkCall(n, BulkDepth[n - 1])]
  BY <1>5, ZenonT(30) DEF BulkDepth, BulkCall
<1> DEFINE b == BulkDepth
<1>7. b = [n \in 0 .. MaxRepostDepth |-> BulkCall(n, b[n - 1])]
  BY <1>6
<1> HIDE DEF b
<1>8. \A n \in 0 .. MaxRepostDepth : b[n] = BulkCall(n, b[n - 1])
  BY <1>7
<1> QED
  BY <1>8 DEF b

(* With as many calls left as there are reposts to follow, the list has    *)
(* each post as fetchPost gives it.                                        *)
LEMMA BulkIsSingle ==
    ASSUME Sound
    PROVE  \A n \in 0 .. MaxRepostDepth : \A S \in SUBSET Ref : \A p \in S \intersect alive :
              Nesting[p] <= n => BulkDepth[n][S][p] = Single[p]
<1> DEFINE Same(n) == \A S \in SUBSET Ref : \A p \in S \intersect alive :
                         Nesting[p] <= n => BulkDepth[n][S][p] = Single[p]
           T == {n \in Nat : n <= MaxRepostDepth => Same(n)}
<1>0. /\ alive \subseteq Ids /\ \A S \in SUBSET Ref : S \intersect alive \in SUBSET Ids
      /\ MaxRepostDepth \in Nat
  BY ReadsAssumption DEF Sound
<1>1. ASSUME NEW n \in 0 .. MaxRepostDepth, NEW S \in SUBSET Ref, NEW p \in S \intersect alive
      PROVE  BulkDepth[n][S][p] =
                [id |-> p, replies |-> CountReplies(p), replyTo |-> HasReplyTo(p),
                 original |-> IF n > 0 /\ original[p] \in alive
                              THEN <<BulkDepth[n - 1][Originals(S)][original[p]]>> ELSE <<>>]
  <2>1. RepliesCounts(S \intersect alive)[p] = CountReplies(p)
    BY <1>0, CountsAgree
  <2>2. BulkDepth[n] = BulkCall(n, BulkDepth[n - 1])
    BY BulkDepthIs
  <2> QED
    BY <2>1, <2>2 DEF BulkCall
<1>2. ASSUME NEW p \in alive
      PROVE  /\ p \in Ids /\ Nesting[p] \in Nat
             /\ original[p] = NoPost \/ original[p] \in alive
             /\ original[p] \in alive => /\ original[p] \in Ids /\ original[p] # NoPost
                                         /\ Nesting[p] = 1 + Nesting[original[p]]
                                         /\ Nesting[original[p]] \in Nat
             /\ NoPost \notin alive
  <2>1. /\ p \in Ids /\ NoPost \notin alive
        /\ original[p] = NoPost \/ original[p] \in alive
    BY DEF Sound, Ids, NoPost
  <2>2. Nesting[p] \in Nat
    BY <2>1, NestingIsNumber
  <2>3. ASSUME original[p] \in alive
        PROVE  /\ original[p] \in Ids /\ original[p] # NoPost
               /\ Nesting[p] = 1 + Nesting[original[p]]
               /\ Nesting[original[p]] \in Nat
    BY <2>1, <2>3, <1>0, NestingIs, NestingIsNumber
  <2> QED
    BY <2>1, <2>2, <2>3
<1>3. 0 \in T
  <2> SUFFICES ASSUME NEW S \in SUBSET Ref, NEW p \in S \intersect alive, Nesting[p] <= 0
               PROVE  BulkDepth[0][S][p] = Single[p]
    OBVIOUS
  <2>1. original[p] \notin alive
    BY <1>2
  <2>2. BulkDepth[0][S][p] =
            [id |-> p, replies |-> CountReplies(p), replyTo |-> HasReplyTo(p), original |-> <<>>]
    <3>1. 0 \in 0 .. MaxRepostDepth /\ ~ (0 > 0)
      BY <1>0
    <3> QED
      BY <1>1, <3>1
  <2> QED
    BY <1>2, <2>1, <2>2, SingleIs
<1>4. ASSUME NEW n \in Nat, n \in T PROVE n + 1 \in T
  <2> SUFFICES ASSUME n + 1 <= MaxRepostDepth,
                      NEW S \in SUBSET Ref, NEW p \in S \intersect alive, Nesting[p] <= n + 1
               PROVE  BulkDepth[n + 1][S][p] = Single[p]
    OBVIOUS
  <2>1. n + 1 \in 0 .. MaxRepostDepth /\ (n + 1) - 1 = n /\ n + 1 > 0 /\ n <= MaxRepostDepth
    BY <1>0
  <2>2. BulkDepth[n + 1][S][p] =
            [id |-> p, replies |-> CountReplies(p), replyTo |-> HasReplyTo(p),
             original |-> IF original[p] \in alive
                          THEN <<BulkDepth[n][Originals(S)][original[p]]>> ELSE <<>>]
    BY <1>1, <2>1
  <2>3. ASSUME original[p] \in alive
        PROVE  BulkDepth[n][Originals(S)][original[p]] = Single[original[p]]
    <3>1. Originals(S) \in SUBSET Ref /\ original[p] \in Originals(S) \intersect alive
      BY <2>3 DEF Originals, Sound
    <3>2. Nesting[original[p]] <= n
      BY <1>2, <2>3
    <3>3. Same(n)
      BY <1>4, <2>1
    <3> QED
      BY <3>1, <3>2, <3>3
  <2> QED
    BY <1>2, <2>2, <2>3, SingleIs
<1>5. \A n \in Nat : n \in T
  <2> HIDE DEF T
  <2> QED
    BY <1>3, <1>4, FromZero
<1> QED
  BY <1>0, <1>5

(* In every state whose rows are sound, lists show posts as they are shown *)
(* alone.                                                                  *)
LEMMA ListsAgree == Sound => SameAsSingle
<1> SUFFICES ASSUME Sound, NEW S \in SUBSET Ids, NEW p \in DOMAIN Bulk(S),
                    Nesting[p] <= MaxRepostDepth
             PROVE  <<Bulk(S)[p]>> = GetPost(p)
  BY DEF SameAsSingle
<1>1. S \in SUBSET Ref /\ MaxRepostDepth \in 0 .. MaxRepostDepth
  BY ReadsAssumption DEF Ref
<1>2. Bulk(S) = BulkCall(MaxRepostDepth, BulkDepth[MaxRepostDepth - 1])[S]
  BY <1>1, BulkDepthIs DEF Bulk
<1>3. p \in S \intersect alive
  BY <1>1, <1>2 DEF BulkCall
<1>4. Bulk(S)[p] = Single[p]
  BY <1>1, <1>3, BulkIsSingle DEF Bulk
<1> QED
  BY <1>3, <1>4 DEF GetPost

(* A row refers to earlier ones.                                           *)
Backwards == \A p \in Ids : parent[p] < p /\ original[p] < p

(* It does from the start, and only CreatePost writes a reference.         *)
LEMMA BackwardsHolds == ReadSpec => []Backwards
<1>1. ReadInit => Backwards
  BY DEF ReadInit, Earlier, Backwards
<1>2. ReadInv /\ Backwards /\ [ReadNext]_readVars => Backwards'
  <2> SUFFICES ASSUME ReadInv, Backwards, [ReadNext]_readVars PROVE Backwards'
    OBVIOUS
  <2>1. ASSUME NEW p \in Ids, NEW up \in Ref, NEW orig \in Ref, CreatePost(p, up, orig)
        PROVE  Backwards'
    <3>1. /\ parent' = [parent EXCEPT ![p] = up] /\ original' = [original EXCEPT ![p] = orig]
          /\ up < p /\ orig < p
      BY <2>1 DEF CreatePost
    <3> QED
      BY <3>1 DEF Backwards, ReadInv, ReadTypeOK
  <2>2. CASE UNCHANGED <<parent, original>>
    BY <2>2 DEF Backwards
  <2>3. ASSUME NEW p \in Ids, DeletePost(p) PROVE UNCHANGED <<parent, original>>
    BY <2>3 DEF DeletePost
  <2>4. ASSUME GetThread \/ UNCHANGED readVars PROVE UNCHANGED <<parent, original>>
    BY <2>4 DEF GetThread, readVars, posts, FetchSubject, RefuseThread, AncestorsEnd,
       FetchAncestor, StopAncestors, FetchAncestorFails, ListReplies, ListRepliesFails,
       TakeReply, FetchReply, FetchReplyFails, ReturnLevel, AnswerThread
  <2> QED
    BY <2>1, <2>2, <2>3, <2>4 DEF ReadNext, OthersPost
<1> QED
  BY <1>1, <1>2, ReadInvHolds, PTL DEF ReadSpec

(* Lists show every post as the request for that post alone would show it  *)
(* at the same moment, its replies_count and the posts inside it included, *)
(* up to the limit of reposts of reposts: for any table of posts, any      *)
(* number of requests and any limit (handler.go:169-171; fetchPost and     *)
(* countReplies against fetchPostsBulkDepth and applyRepliesCount).        *)
THEOREM ShownAlike == ReadSpec => []SameAsSingle
<1>1. ReadInv /\ Backwards => Sound
  BY DEF ReadInv, ReadTypeOK, Backwards, Sound
<1>2. ReadInv /\ Backwards => SameAsSingle
  BY <1>1, ListsAgree
<1> QED
  BY <1>2, ReadInvHolds, BackwardsHolds, PTL
=============================================================================
