-------------------------------- MODULE Badge --------------------------------
(***************************************************************************)
(* The notifications of one user, from the row to the badge that counts    *)
(* the unread ones (handler/notification.go, stream.go), put together from *)
(* the database, the relay (module FanOut) and the hubs of the processes.  *)
(*                                                                         *)
(* A notification says nothing itself: an event is only a reason to fetch  *)
(* the count again.  The handler stores the row, publishes to the streams  *)
(* of its own process, then writes the event for the others; a stream that *)
(* is slow loses events.  A client that has opened its stream fetches the  *)
(* count, and again after each event; when the stream breaks it opens a    *)
(* new one, at any process (an EventSource does).                          *)
(*                                                                         *)
(* All events are for the one user; a client has one fetch under way.      *)
(***************************************************************************)
EXTENDS Integers

CONSTANTS
    Notes,      \* the notifications that will ever be stored
    Procs,      \* the API processes
    Clients,    \* the user's open pages
    WriterAt,   \* WriterAt[n]: the process whose handler stores n
    SubBuffer,  \* how many events a stream may lag behind
    Nobody,     \* no process
    MaxTroubles \* how many restarts and failing statements there are

ASSUME BadgeAssumption ==
    /\ WriterAt \in [Notes -> Procs]
    /\ SubBuffer \in Nat \ {0} /\ MaxTroubles \in Nat
    /\ Nobody \notin Procs

VARIABLES
    place, fate, last, on, from, heard, \* the relay, see FanOut
    row,      \* row[n]: the row of notifications
    step,     \* step[n]: how far its handler is
    conn,     \* conn[c]: the process that holds the stream of c
    queue,    \* queue[c]: events in the channel of c
    due,      \* due[c]: c has a reason to fetch the count
    asked,    \* asked[c]: a count is on its way to c
    answer,   \* answer[c]: what it counts
    shown,    \* shown[c]: what the badge of c counts
    misled,   \* misled[c]: the last count was that of a failed statement
    troubles  \* restarts and failures so far

relay == <<place, fate, last, on, from, heard>>
page == <<due, asked, answer, shown, misled>>
vars == <<relay, row, step, conn, queue, page, troubles>>

Relay == INSTANCE FanOut WITH Events <- Notes

TypeOK ==
    /\ Relay!TypeOK
    /\ row \in [Notes -> {"none", "unread", "read"}]
    /\ step \in [Notes -> {"new", "stored", "told", "cut off", "unanswered"}]
    /\ conn \in [Clients -> Procs \union {Nobody}]
    /\ queue \in [Clients -> 0 .. SubBuffer]
    /\ due \in [Clients -> BOOLEAN]
    /\ asked \in [Clients -> BOOLEAN]
    /\ answer \in [Clients -> SUBSET Notes]
    /\ shown \in [Clients -> SUBSET Notes]
    /\ misled \in [Clients -> BOOLEAN]
    /\ troubles \in 0 .. MaxTroubles

Init ==
    /\ Relay!Init
    /\ row = [n \in Notes |-> "none"]
    /\ step = [n \in Notes |-> "new"]
    /\ conn = [c \in Clients |-> Nobody]
    /\ queue = [c \in Clients |-> 0]
    /\ due = [c \in Clients |-> FALSE]
    /\ asked = [c \in Clients |-> FALSE]
    /\ answer = [c \in Clients |-> {}]
    /\ shown = [c \in Clients |-> {}]
    /\ misled = [c \in Clients |-> FALSE]
    /\ troubles = 0

Trouble == troubles < MaxTroubles /\ troubles' = troubles + 1

-----------------------------------------------------------------------------
(* The handler: the row, the streams of its own process, the event.        *)

Store(n) ==
    /\ step[n] = "new" /\ on[WriterAt[n]]
    /\ row' = [row EXCEPT ![n] = "unread"]
    /\ step' = [step EXCEPT ![n] = "stored"]
    /\ UNCHANGED <<relay, conn, queue, page, troubles>>

(* The row is stored, but the handler learns of an error: the answer to    *)
(* the INSERT, or to the COMMIT of a repost, is lost.  It only logs, or    *)
(* answers 500, and announces nothing.                                     *)
StoreUnanswered(n) ==
    /\ step[n] = "new" /\ on[WriterAt[n]]
    /\ Trouble
    /\ row' = [row EXCEPT ![n] = "unread"]
    /\ step' = [step EXCEPT ![n] = "unanswered"]
    /\ UNCHANGED <<relay, conn, queue, page>>

(* Hub.Publish: a stream with a full channel loses the event.              *)
Signal(p) ==
    queue' = [c \in Clients |->
                 IF conn[c] = p /\ queue[c] < SubBuffer THEN queue[c] + 1 ELSE queue[c]]

Tell(n) ==
    /\ step[n] = "stored"
    /\ Signal(WriterAt[n])
    /\ step' = [step EXCEPT ![n] = "told"]
    /\ UNCHANGED <<relay, row, conn, page, troubles>>

BeforeStore(n) == step[n] \in {"new", "told"} /\ on[WriterAt[n]]

(* notify.Publish is called when everything before it is done.             *)
MayWrite(n) == step[n] = "told"

(* The INSERT of the event; once it has a place it no longer matters       *)
(* whether the handler is there to see what becomes of it.                 *)
WriteEvent(n) ==
    /\ \/ MayWrite(n) /\ (Relay!Enter(n) \/ Relay!Cancel(n))
       \/ fate[n] = "numbered" /\ (Relay!Appear(n) \/ Relay!Cancel(n))
    /\ UNCHANGED <<row, step, conn, queue, page, troubles>>

-----------------------------------------------------------------------------
(* The processes.  The cursor is set before requests are served.           *)

Start(p) ==
    /\ \E here \in 0 .. last : Relay!Join(p, here)
    /\ UNCHANGED <<row, step, conn, queue, page, troubles>>

(* The handlers and the streams of p end with it.                          *)
Crash(p) ==
    /\ Trouble
    /\ Relay!Leave(p)
    /\ step' = [n \in Notes |->
                   IF WriterAt[n] = p /\ step[n] \in {"stored", "told"} /\ fate[n] = "none"
                   THEN "cut off" ELSE step[n]]
    /\ conn' = [c \in Clients |-> IF conn[c] = p THEN Nobody ELSE conn[c]]
    /\ queue' = [c \in Clients |-> IF conn[c] = p THEN 0 ELSE queue[c]]
    /\ UNCHANGED <<row, page>>

PollOwn(p, n) ==
    /\ Relay!Hear(p, n)
    /\ IF WriterAt[n] = p THEN Signal(p) ELSE UNCHANGED queue
    /\ UNCHANGED <<row, step, conn, page, troubles>>

(* The poller hands an event to the hub, an event of its own process too.  *)
Poll(p, n) ==
    /\ Relay!Hear(p, n)
    /\ Signal(p)
    /\ UNCHANGED <<row, step, conn, page, troubles>>

Collect ==
    /\ \E n \in Notes : Relay!Expire({n})
    /\ UNCHANGED <<row, step, conn, queue, page, troubles>>

-----------------------------------------------------------------------------
(* The clients.                                                            *)

(* NotificationStream subscribes before it answers.                        *)
Open(c) ==
    /\ conn[c] = Nobody
    /\ \E p \in Procs : on[p] /\ conn' = [conn EXCEPT ![c] = p]
    /\ due' = [due EXCEPT ![c] = TRUE]
    /\ UNCHANGED <<relay, row, step, queue, asked, answer, shown, misled, troubles>>

Close(c) ==
    /\ conn[c] # Nobody
    /\ Trouble
    /\ conn' = [conn EXCEPT ![c] = Nobody]
    /\ queue' = [queue EXCEPT ![c] = 0]
    /\ UNCHANGED <<relay, row, step, page>>

(* streamEvents writes an event; the client reads it.                      *)
Receive(c) ==
    /\ queue[c] > 0
    /\ queue' = [queue EXCEPT ![c] = @ - 1]
    /\ due' = [due EXCEPT ![c] = TRUE]
    /\ UNCHANGED <<relay, row, step, conn, asked, answer, shown, misled, troubles>>

Unread == {n \in Notes : row[n] = "unread"}

(* GetUnreadCount: the error of a failed COUNT is dropped, and 0 answered. *)
GetUnreadCount(c) ==
    /\ due[c] /\ ~ asked[c]
    /\ due' = [due EXCEPT ![c] = FALSE]
    /\ asked' = [asked EXCEPT ![c] = TRUE]
    /\ \/ /\ answer' = [answer EXCEPT ![c] = Unread]
          /\ misled' = [misled EXCEPT ![c] = FALSE]
          /\ UNCHANGED troubles
       \/ /\ Trouble
          /\ answer' = [answer EXCEPT ![c] = {}]
          /\ misled' = [misled EXCEPT ![c] = TRUE]
    /\ UNCHANGED <<relay, row, step, conn, queue, shown>>

Show(c) ==
    /\ asked[c]
    /\ asked' = [asked EXCEPT ![c] = FALSE]
    /\ shown' = [shown EXCEPT ![c] = answer[c]]
    /\ UNCHANGED <<relay, row, step, conn, queue, due, answer, misled, troubles>>

MarkNotificationsRead ==
    /\ Unread # {}
    /\ row' = [n \in Notes |-> IF row[n] = "unread" THEN "read" ELSE row[n]]
    /\ UNCHANGED <<relay, step, conn, queue, page, troubles>>

-----------------------------------------------------------------------------
Handler(n) == Store(n) \/ StoreUnanswered(n) \/ Tell(n) \/ WriteEvent(n)

Client(c) == Open(c) \/ Close(c) \/ Receive(c) \/ GetUnreadCount(c) \/ Show(c)

Next ==
    \/ \E n \in Notes : Handler(n)
    \/ \E p \in Procs : Start(p) \/ Crash(p)
    \/ \E p \in Procs, n \in Notes : Poll(p, n)
    \/ Collect
    \/ \E c \in Clients : Client(c)
    \/ MarkNotificationsRead

Spec == Init /\ [][Next]_vars

(* A handler goes on, a poller that stays up comes to every event, and a   *)
(* client reads its stream and fetches what it has a reason to fetch.      *)
Fairness ==
    /\ \A n \in Notes : WF_vars(Tell(n)) /\ WF_vars(WriteEvent(n))
    /\ \A p \in Procs, n \in Notes : WF_vars(Poll(p, n))
    /\ \A c \in Clients : WF_vars(Receive(c)) /\ WF_vars(GetUnreadCount(c)) /\ WF_vars(Show(c))

FairSpec == Spec /\ Fairness

-----------------------------------------------------------------------------
(* An unread notification that a connected page does not count.            *)
Stale(c, n) == conn[c] # Nobody /\ row[n] = "unread" /\ n \notin shown[c]

(* What makes the page fetch again, or what it has fetched.                *)
Signalled(c, n) == queue[c] > 0 \/ due[c] \/ (asked[c] /\ n \in answer[c])

(* The event of n is still to reach process p.                             *)
Coming(p, n) ==
    \/ step[n] = "stored"
    \/ step[n] = "told" /\ fate[n] = "none"
    \/ fate[n] \in {"numbered", "visible"} /\ from[p] < place[n] /\ n \notin heard[p]

(* What the code gives up: a count that failed, a row whose INSERT or      *)
(* COMMIT came back with an error, an event that another process could     *)
(* not write, an event deleted before the poller came.                     *)
GivenUp(c, n) ==
    \/ misled[c]
    \/ step[n] = "unanswered"
    \/ WriterAt[n] # conn[c] /\ (step[n] = "cut off" \/ fate[n] = "failed")
    \/ fate[n] = "purged" /\ n \notin heard[conn[c]]

(* A badge that lacks a notification has a reason to be fetched again, or  *)
(* one is on its way: the commit comes before the event                    *)
(* (deliverNotification), the cursor before the streams (Bus.Start), the   *)
(* subscription before the count, and a full channel is itself a reason    *)
(* (Hub.Publish).  This also covers an event whose id is drawn before a    *)
(* process starts and that becomes visible after (initialCursor).          *)
StaleIsNotSilent ==
    \A c \in Clients, n \in Notes :
        Stale(c, n) => Signalled(c, n) \/ Coming(conn[c], n) \/ GivenUp(c, n)

(* A page that stays connected comes to count every notification that      *)
(* stays unread, whatever its stream drops: an event is only a sign to     *)
(* fetch again (bus_concurrency_test.go:230, backend/README.md:22).        *)
BadgeCatchesUp ==
    \A c \in Clients, n \in Notes : Stale(c, n) ~> ~ Stale(c, n) \/ GivenUp(c, n)
=============================================================================
