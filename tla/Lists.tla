-------------------------------- MODULE Lists --------------------------------
(***************************************************************************)
(* Whatever the API lists: notifications (handler/notification.go),        *)
(* footprints (footprint.go), found users and posts (search.go), feeds     *)
(* (post.go GetTimeline and GetUserPosts), and followers, followed and     *)
(* likers (user.go, like.go).  A list is read page by page while others    *)
(* write, and the request for a page is several statements outside of any  *)
(* transaction: the rows, the user or post of each row, the counts.        *)
(*                                                                         *)
(* An entry is named by what identifies it in the list: the notification,  *)
(* user or post.  A visitor is one entry, at the place of the last visit   *)
(* (GROUP BY visitor_id, MAX(created_at)).  The list is the set of its     *)
(* entries and the order they are in; the order inside a page, excerpts,   *)
(* names and visit counts are left out.  Users are never deleted:          *)
(* fetchUser fails with its statement only.                                *)
(***************************************************************************)
EXTENDS Integers, FiniteSets

CONSTANTS
    NumKeys,    \* notifications, users or posts: 1 .. NumKeys (a bound)
    TypeOf,     \* TypeOf[k]: the type of notification k
    PerPage,    \* per_page
    MaxWrites   \* writes meanwhile (a bound)

Keys == 1 .. NumKeys

ASSUME ListsAssumption ==
    /\ NumKeys \in Nat /\ MaxWrites \in Nat
    /\ PerPage \in Nat \ {0}
    /\ DOMAIN TypeOf = Keys

Types == {TypeOf[k] : k \in Keys}
All == "all"

VARIABLES
    list,     \* the list that is read
    want,     \* notifications: the type asked for, or all
    table,    \* its entries, of all types
    order,    \* pairs of entries: the first comes before the second
    gone,     \* posts and notifications that were deleted
    unread,   \* notifications: the unread ones
    start,    \* the entries when the client began
    came,     \* how often an entry came, or came again, to its place
    left,     \* how often an entry left its place
    pc,       \* the statement the request is at
    failed,   \* a statement failed, and the answer does not say so
    page,     \* the page
    ids,      \* its rows
    shown,    \* the entries of all pages the client got
    again,    \* how often a page showed an entry that another had shown
    badge,    \* notifications: what unread_count counts
    total     \* total in the last answer

tables == <<table, order, gone, unread, came, left>>
answer == <<ids, shown, again, badge, total>>
vars == <<list, want, tables, start, pc, failed, page, answer>>

TypeOK ==
    /\ list \in {"notifications", "footprints", "users", "feed", "people"}
    /\ want \in Types \union {All}
    /\ table \subseteq Keys /\ start \subseteq Keys
    /\ order \subseteq table \X table
    /\ gone \subseteq Keys \ table
    /\ unread \subseteq table
    /\ came \in Nat /\ left \in Nat /\ came + left <= MaxWrites + 1
    /\ pc \in {"list", "load", "unread", "total", "page", "done"}
    /\ failed \in BOOLEAN /\ page \in Nat \ {0}
    /\ ids \subseteq Keys /\ shown \subseteq Keys /\ again \in Nat
    /\ badge \subseteq Keys /\ total \in 0 .. NumKeys

-----------------------------------------------------------------------------
(* The entries of the list, of the type asked for.                         *)
Entries == {k \in table : want \in {All, TypeOf[k]}}

(* The orders a list of S can be in.                                       *)
Orders(S) ==
    {o \in SUBSET (S \X S) :
        /\ \A a \in S : <<a, a>> \notin o
        /\ \A a, b \in S : a = b \/ <<a, b>> \in o \/ <<b, a>> \in o
        /\ \A a, b, c \in S : <<a, b>> \in o /\ <<b, c>> \in o => <<a, c>> \in o}

Ascending(S) == {e \in S \X S : e[1] < e[2]}

Init ==
    /\ table \in SUBSET Keys
    /\ \/ /\ list = "notifications" /\ want \in Types \union {All}
          /\ order = {e \in table \X table : e[1] > e[2]}
          /\ unread \in SUBSET table
       \/ /\ list \in {"footprints", "feed"} /\ want = All
          /\ order \in Orders(table) /\ unread = {}
       \/ /\ list \in {"users", "people"} /\ want = All
          /\ order = Ascending(table) /\ unread = {}
    /\ start = Entries /\ gone = {}
    /\ came = 0 /\ left = 0
    /\ pc = "list" /\ failed = FALSE /\ page = 1
    /\ ids = {} /\ shown = {} /\ again = 0 /\ badge = {} /\ total = 0

-----------------------------------------------------------------------------
(* Meanwhile.                                                              *)

Write ==
    /\ came + left < MaxWrites /\ pc # "done"
    /\ UNCHANGED <<list, want, start, pc, failed, page, answer>>

AmongStale(S) == order

(* The order of the entries of S that stay where they are.                 *)
Among(S) == order \intersect (S \X S)

(* A place for k: behind an initial part of the other entries.             *)
Places(k) ==
    {S \in SUBSET (table \ {k}) :
        \A e \in S, f \in table \ {k} : <<f, e>> \in order => f \in S}

(* k comes, or goes from its place, to the one behind the entries ahead.   *)
Enter(k, ahead) ==
    /\ table' = table \union {k}
    /\ order' = Among(table \ {k}) \union (ahead \X {k})
                \union ({k} \X (table \ (ahead \union {k})))
    /\ came' = came + 1
    /\ left' = IF k \in table THEN left + 1 ELSE left
    /\ UNCHANGED gone

(* A new notification, in front of the list or, when its INSERT began      *)
(* before those of others and ends after them, behind theirs.              *)
Notify(k) ==
    /\ Write
    /\ list = "notifications" /\ k \notin table \union gone
    /\ \E ahead \in Places(k) : Enter(k, ahead)
    /\ unread' = unread \union {k}

(* A visit, at the front of the list: of visits in the same second the one *)
(* of the greater id (last_visited DESC, visitor_id DESC).                 *)
Visit(k) ==
    /\ Write
    /\ list = "footprints"
    /\ \E ahead \in Places(k) : (\A e \in ahead : e > k) /\ Enter(k, ahead)
    /\ UNCHANGED unread

(* A user registers, or changes what the search looks at (UpdateProfile);  *)
(* follows or likes.                                                       *)
Join(k) ==
    /\ Write
    /\ list \in {"users", "people"} /\ k \notin table
    /\ Enter(k, {e \in table : e < k})
    /\ UNCHANGED unread

(* A post comes into a feed, or to another place of it: it is written, its *)
(* author followed, it is liked or its likes are older than a day.         *)
JoinFeed(k) ==
    /\ Write
    /\ list = "feed" /\ k \notin gone
    /\ \E ahead \in Places(k) : Enter(k, ahead)
    /\ UNCHANGED unread

(* A post is deleted, and with it its notifications and reposts, one after *)
(* the other; a user changes the profile; someone is followed or something *)
(* liked no more.                                                          *)
Leave(k) ==
    /\ Write
    /\ list # "footprints" /\ k \in table
    /\ table' = table \ {k} /\ order' = Among(table \ {k})
    /\ \/ list # "notifications" /\ UNCHANGED gone
       \/ list \in {"notifications", "feed"} /\ gone' = gone \union {k}
    /\ unread' = unread \ {k}
    /\ left' = left + 1
    /\ UNCHANGED came

MarkNotificationsRead ==
    /\ unread # {} /\ pc # "done"
    /\ unread' = {}
    /\ UNCHANGED <<list, want, table, order, gone, start, came, left, pc, failed, page, answer>>

-----------------------------------------------------------------------------
(* A request for a page.                                                   *)

OffsetByPage(n) == n * PerPage

Offset(n) == (n - 1) * PerPage

(* The place of k among the entries, from 1 on.                            *)
Rank(k) == Cardinality({e \in Entries : e = k \/ <<e, k>> \in order})

WindowToNext == {k \in Entries : Offset(page) < Rank(k) /\ Rank(k) <= Offset(page) + PerPage + 1}

(* LIMIT PerPage OFFSET Offset(page).  People are listed without them.     *)
Window ==
    {k \in Entries : \/ list = "people"
                     \/ Offset(page) < Rank(k) /\ Rank(k) <= Offset(page) + PerPage}

(* When the connection breaks while the rows are read, Next returns false  *)
(* and nobody asks for the error: the rows before that are the page.       *)
ListPage ==
    /\ pc = "list"
    /\ \/ ids' = Window /\ UNCHANGED failed
       \/ \E k \in Window : ids' = {e \in Window : <<e, k>> \in order} /\ failed' = TRUE
    /\ pc' = "load"
    /\ UNCHANGED <<list, want, tables, start, page, shown, again, badge, total>>

(* A row whose user cannot be fetched is left out, and the model lets that *)
(* happen to one row of a page.  total of people is what is shown.  Of the *)
(* posts of a feed those deleted by now are left out, and not those whose  *)
(* author is followed no more.                                             *)
Got(kept) ==
    /\ shown' = shown \union kept
    /\ again' = again + Cardinality(kept \intersect shown)
    /\ IF list = "people" THEN total' = Cardinality(kept) ELSE UNCHANGED total
    /\ pc' = IF list = "notifications" THEN "unread"
             ELSE IF list = "people" THEN "page" ELSE "total"
    /\ UNCHANGED <<list, want, tables, start, page, ids, badge>>

LoadRows ==
    /\ pc = "load"
    /\ \/ list # "feed" /\ Got(ids) /\ UNCHANGED failed
       \/ list = "feed" /\ Got(ids \ gone) /\ UNCHANGED failed
       \/ list # "feed" /\ (\E k \in ids : Got(ids \ {k})) /\ failed' = TRUE

(* unread_count is for the badge: of all types.                            *)
Counted == unread

CountUnread ==
    /\ pc = "unread"
    /\ \/ badge' = Counted /\ UNCHANGED failed
       \/ badge' = {} /\ failed' = TRUE
    /\ pc' = "total"
    /\ UNCHANGED <<list, want, tables, start, page, ids, shown, again, total>>

CountTotalOfUnread ==
    /\ pc = "total"
    /\ \/ total' = Cardinality(Entries \intersect unread) /\ UNCHANGED failed
       \/ total' = 0 /\ failed' = TRUE
    /\ pc' = "page"
    /\ UNCHANGED <<list, want, tables, start, page, ids, shown, again, badge>>

(* The error of the count is not looked at: total stays 0.                 *)
CountTotal ==
    /\ pc = "total"
    /\ \/ total' = Cardinality(Entries) /\ UNCHANGED failed
       \/ total' = 0 /\ failed' = TRUE
    /\ pc' = "page"
    /\ UNCHANGED <<list, want, tables, start, page, ids, shown, again, badge>>

(* The client goes on as long as total says there is more.                 *)
MorePages == list # "people" /\ page * PerPage < total

NextPage ==
    /\ pc = "page" /\ MorePages
    /\ page' = page + 1 /\ ids' = {}
    /\ pc' = "list"
    /\ UNCHANGED <<list, want, tables, start, failed, shown, again, badge, total>>

EndOfList ==
    /\ pc = "page" /\ ~ MorePages
    /\ pc' = "done"
    /\ UNCHANGED <<list, want, tables, start, failed, page, answer>>

-----------------------------------------------------------------------------
Others ==
    \/ \E k \in Keys : Notify(k) \/ Visit(k) \/ Join(k) \/ JoinFeed(k) \/ Leave(k)
    \/ MarkNotificationsRead

Read == ListPage \/ LoadRows \/ CountUnread \/ CountTotal \/ NextPage \/ EndOfList

Next == Others \/ Read

Spec == Init /\ [][Next]_vars

-----------------------------------------------------------------------------
(* Who reads a list to the end misses no more of the entries that were     *)
(* there at the start, and were not deleted, than entries left their place *)
(* meanwhile: each can take one across a page boundary, be it another      *)
(* that moves up or itself, a visitor who comes again (OFFSET over         *)
(* last_visited, footprint.go:29-36; over posts, post.go:151).             *)
MissedAtMostLeft ==
    pc = "done" /\ ~ failed => Cardinality((start \ gone) \ shown) <= left

(* And is shown entries again no more often than entries came to a place,  *)
(* whatever failed (same lines: what comes moves the rest on by one, past  *)
(* one page boundary at most).                                             *)
RepeatedAtMostCame == again <= came

(* Who reads all pages of notifications has been shown whatever the badge  *)
(* of the last page counts of that type, but for one notification for each *)
(* that came or went meanwhile: rows, unread_count and total are counted   *)
(* at three moments, and total decides which page is the last (the three   *)
(* statements of GetNotifications, notification.go:34-111).                *)
BadgeWasShown ==
    pc = "done" /\ ~ failed =>
        Cardinality({k \in badge \ gone : want \in {All, TypeOf[k]}} \ shown) <= left + came
=============================================================================
