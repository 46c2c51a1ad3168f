------------------------------ MODULE StreamHub -----------------------------
(***************************************************************************)
(* What happens inside one API process between the poller and its SSE      *)
(* connections: bus.deliver, the hubs of internal/realtime, the handlers   *)
(* that publish their own notification at once, and streamEvents.          *)
(*                                                                         *)
(* Three kinds of goroutines meet at a hub: the poller, handlers that      *)
(* publish, and one handler per connection.  A hub is guarded by a mutex.  *)
(* Publish holds it while it sends to one channel after the other;         *)
(* Subscribe and unsubscribe are short and taken as one step.              *)
(***************************************************************************)
EXTENDS Integers, Sequences

CONSTANTS
    Conns,      \* the SSE connections, each opened once
    Keys,       \* what is subscribed to: users, and roots of threads
    Threads,    \* the keys that are roots of threads
    NumEvents,  \* events 1 .. NumEvents, in the order of their ids
    KeyOf,      \* KeyOf[e]: subject_id of the event
    WatchedKey, \* WatchedKey[c]: what connection c subscribes to
    Local,      \* the notifications this very process originates
    SubBuffer,  \* subBuffer
    MaxBreaks,  \* bound: how often one event is handed over again
    None        \* nobody, nothing

Events == 1 .. NumEvents
IsReply(e) == KeyOf[e] \in Threads

ASSUME HubAssumption ==
    /\ Threads \subseteq Keys /\ NumEvents \in Nat /\ SubBuffer \in Nat \ {0} /\ MaxBreaks \in Nat
    /\ KeyOf \in [Events -> Keys] /\ WatchedKey \in [Conns -> Keys]
    /\ Local \subseteq {e \in Events : ~ IsReply(e)}
    /\ None \notin (0 .. NumEvents) \union Conns

Hubs == {"notifications", "threads"}
HubOf(k) == IF k \in Threads THEN "threads" ELSE "notifications"

(* Who publishes: the poller (0), or the handler that made event e (e).    *)
Publishers == 0 .. NumEvents

VARIABLES
    conn,     \* conn[c]: "new", "open" or "closed", channel and map entry
    queue,    \* queue[c]: the buffer of its channel
    writing,  \* writing[c]: the event its handler is writing to the client
    received, \* received[c][e]: how often e was taken for the client
    mu,       \* mu[h]: the publisher that holds the mutex of hub h
    targets,  \* targets[a]: channels publisher a has still to send to
    phase,    \* phase[a]: where publisher a is
    at,       \* the event the poller is at
    cursor,   \* the last event of the last poll that ended well
    repeats,  \* repeats[e]: polls that broke off after handing over e
    due,      \* due[c]: events deliver began with while c was subscribed
    served,   \* served[c]: events the poller sent to c or dropped for it
    silent    \* silent[c]: nothing was taken for c since the last publish to it

connVars == <<conn, queue, writing, received, silent>>
ledger == <<cursor, repeats, due, served>>
vars == <<connVars, mu, targets, phase, at, ledger>>

Open == {c \in Conns : conn[c] = "open"}
SubscribersOf(k) == {c \in Open : WatchedKey[c] = k}

TypeOK ==
    /\ conn \in [Conns -> {"new", "open", "closed"}]
    /\ queue \in [Conns -> Seq(Events)]
    /\ \A c \in Conns : Len(queue[c]) =< SubBuffer
    /\ writing \in [Conns -> Events \union {None}]
    /\ received \in [Conns -> [Events -> Nat]]
    /\ mu \in [Hubs -> Publishers \union {None}]
    /\ targets \in [Publishers -> SUBSET Conns]
    /\ phase \in [Publishers -> {"todo", "hydrate", "retry", "publish", "send", "done"}]
    /\ at \in 1 .. NumEvents + 1
    /\ cursor \in 0 .. NumEvents
    /\ repeats \in [Events -> Nat]
    /\ due \in [Conns -> SUBSET Events]
    /\ served \in [Conns -> SUBSET Events]
    /\ silent \in [Conns -> BOOLEAN]

Init ==
    /\ conn = [c \in Conns |-> "new"]
    /\ queue = [c \in Conns |-> <<>>]
    /\ writing = [c \in Conns |-> None]
    /\ received = [c \in Conns |-> [e \in Events |-> 0]]
    /\ mu = [h \in Hubs |-> None]
    /\ targets = [a \in Publishers |-> {}]
    /\ phase = [a \in Publishers |-> "todo"]
    /\ at = 1
    /\ cursor = 0
    /\ repeats = [e \in Events |-> 0]
    /\ due = [c \in Conns |-> {}]
    /\ served = [c \in Conns |-> {}]
    /\ silent = [c \in Conns |-> FALSE]

-----------------------------------------------------------------------------
(* Hub.Publish, step by step, for event e by publisher a.                  *)

LockAndList(a, e) ==
    LET h == HubOf(KeyOf[e]) IN
    /\ phase[a] = "publish"
    /\ mu[h] = None
    /\ mu' = [mu EXCEPT ![h] = a]
    /\ targets' = [targets EXCEPT ![a] = SubscribersOf(KeyOf[e])]
    /\ phase' = [phase EXCEPT ![a] = "send"]
    /\ UNCHANGED <<connVars, at, ledger>>

FullUnlessIdle(c) == queue[c] # <<>> \/ writing[c] # None

(* No room in the channel of c: the select of Publish takes its default.   *)
Full(c) == Len(queue[c]) = SubBuffer

Sent(a, e, c) ==
    /\ phase[a] = "send" /\ c \in targets[a]
    /\ targets' = [targets EXCEPT ![a] = @ \ {c}]
    /\ silent' = [silent EXCEPT ![c] = TRUE]
    /\ served' = [served EXCEPT ![c] = IF a = 0 THEN @ \union {e} ELSE @]
    /\ UNCHANGED <<conn, writing, received, mu, phase, at, cursor, repeats, due>>

SendOrWait(a, e) ==
    \E c \in targets[a] :
        Sent(a, e, c) /\ ~ Full(c) /\ queue' = [queue EXCEPT ![c] = Append(@, e)]

(* The send does not wait: a full channel loses the event.                 *)
Send(a, e) ==
    \E c \in targets[a] :
        /\ Sent(a, e, c)
        /\ queue' = IF Full(c) THEN queue ELSE [queue EXCEPT ![c] = Append(@, e)]

Unlock(a, e) ==
    /\ phase[a] = "send" /\ targets[a] = {}
    /\ mu' = [mu EXCEPT ![HubOf(KeyOf[e])] = None]

Publish(a, e) == LockAndList(a, e) \/ Send(a, e)

-----------------------------------------------------------------------------
(* The poller: one poll after the other, and in each bus.deliver for one   *)
(* event after the other.                                                  *)

(* The row of e is written after the local publish of its notification.    *)
Written(e) == e \in Local => phase[e] = "done"

NextEvent ==
    /\ at' = at + 1
    /\ phase' = [phase EXCEPT ![0] = "todo"]

OnlyUsersHaveSubscribers(k) == SubscribersOf(k) # {} /\ k \notin Threads

HasSubscribers(k) == SubscribersOf(k) # {}

(* HasSubscribers waits for the mutex; without a subscriber the event is   *)
(* passed over, and a reply first has its text fetched.                    *)
DeliverBegin ==
    /\ at \in Events /\ phase[0] = "todo" /\ Written(at)
    /\ mu[HubOf(KeyOf[at])] = None
    /\ IF HasSubscribers(KeyOf[at])
       THEN /\ phase' = [phase EXCEPT ![0] = IF IsReply(at) THEN "hydrate" ELSE "publish"]
            /\ UNCHANGED at
       ELSE NextEvent
    /\ due' = [c \in Conns |->
                  IF c \in SubscribersOf(KeyOf[at]) THEN due[c] \union {at} ELSE due[c]]
    /\ UNCHANGED <<connVars, mu, targets, cursor, repeats, served>>

(* h.ReplyEvent answers, reports the post gone, or fails; a failure other  *)
(* than a missing post is tried once more.                                 *)
Hydrated ==
    /\ phase[0] \in {"hydrate", "retry"}
    /\ phase' = [phase EXCEPT ![0] = "publish"]
    /\ UNCHANGED <<connVars, mu, targets, at, ledger>>

HydrateFails ==
    /\ phase[0] = "hydrate"
    /\ phase' = [phase EXCEPT ![0] = "retry"]
    /\ UNCHANGED <<connVars, mu, targets, at, ledger>>

HydrateGivesUp ==
    /\ phase[0] \in {"hydrate", "retry"}
    /\ NextEvent
    /\ due' = [c \in Conns |-> due[c] \ {at}]
    /\ UNCHANGED <<connVars, mu, targets, cursor, repeats, served>>

DeliverEnd ==
    /\ at \in Events
    /\ Unlock(0, at)
    /\ NextEvent
    /\ UNCHANGED <<connVars, targets, ledger>>

(* All rows of the poll are handed over, and the cursor moves.             *)
PollEnds ==
    /\ phase[0] = "todo" /\ cursor < at - 1
    /\ cursor' = at - 1
    /\ UNCHANGED <<connVars, mu, targets, phase, at, repeats, due, served>>

Again == cursor + 1 .. at - 1

(* The rows of the poll broke off.  Those read were handed over all the    *)
(* same, the cursor stays, and the next poll hands them over again: what   *)
(* due and served say is from here on about that next time.                *)
PollBreaksOff ==
    /\ phase[0] = "todo" /\ Again # {}
    /\ \A e \in Again : repeats[e] < MaxBreaks
    /\ at' = cursor + 1
    /\ repeats' = [e \in Events |-> IF e \in Again THEN repeats[e] + 1 ELSE repeats[e]]
    /\ due' = [c \in Conns |-> {e \in due[c] : e =< cursor}]
    /\ served' = [c \in Conns |-> {e \in served[c] : e =< cursor}]
    /\ UNCHANGED <<connVars, mu, targets, phase, cursor>>

Poller ==
    \/ PollEnds \/ PollBreaksOff
    \/ DeliverBegin \/ Hydrated \/ HydrateFails \/ HydrateGivesUp \/ DeliverEnd
    \/ (at \in Events /\ Publish(0, at))

-----------------------------------------------------------------------------
(* deliverNotification in the handler that caused the notification e.      *)

EveryEvent == Events

(* What a handler publishes itself.  A reply is left to the poller.        *)
PublishedLocally == Local

LocalBegin(e) ==
    /\ e \in PublishedLocally
    /\ phase[e] = "todo"
    /\ phase' = [phase EXCEPT ![e] = "publish"]
    /\ UNCHANGED <<connVars, mu, targets, at, ledger>>

LocalEnd(e) ==
    /\ Unlock(e, e)
    /\ phase' = [phase EXCEPT ![e] = "done"]
    /\ UNCHANGED <<connVars, targets, at, ledger>>

Handler(e) == LocalBegin(e) \/ Publish(e, e) \/ LocalEnd(e)

-----------------------------------------------------------------------------
(* The handler of connection c.                                            *)

Subscribe(c) ==
    /\ conn[c] = "new"
    /\ mu[HubOf(WatchedKey[c])] = None
    /\ conn' = [conn EXCEPT ![c] = "open"]
    /\ UNCHANGED <<queue, writing, received, silent, mu, targets, phase, at, ledger>>

Take(c) ==
    /\ conn[c] = "open" /\ writing[c] = None /\ queue[c] # <<>>
    /\ writing' = [writing EXCEPT ![c] = Head(queue[c])]
    /\ queue' = [queue EXCEPT ![c] = Tail(@)]
    /\ received' = [received EXCEPT ![c][Head(queue[c])] = @ + 1]
    /\ silent' = [silent EXCEPT ![c] = FALSE]
    /\ UNCHANGED <<conn, mu, targets, phase, at, ledger>>

(* The client has read the event, or the write has failed, which           *)
(* streamEvents does not look at.                                          *)
Wrote(c) ==
    /\ writing[c] # None
    /\ writing' = [writing EXCEPT ![c] = None]
    /\ UNCHANGED <<conn, queue, received, silent, mu, targets, phase, at, ledger>>

MayCloseAtOnce(c) == TRUE

(* unsubscribe waits for the mutex before it closes the channel.           *)
MayClose(c) == mu[HubOf(WatchedKey[c])] = None

(* The request context is done; the deferred unsubscribe runs.             *)
Unsubscribe(c) ==
    /\ conn[c] = "open" /\ writing[c] = None
    /\ MayClose(c)
    /\ conn' = [conn EXCEPT ![c] = "closed"]
    /\ queue' = [queue EXCEPT ![c] = <<>>]
    /\ silent' = [silent EXCEPT ![c] = FALSE]
    /\ UNCHANGED <<writing, received, mu, targets, phase, at, ledger>>

Stream(c) == Subscribe(c) \/ Take(c) \/ Wrote(c) \/ Unsubscribe(c)

Next ==
    \/ Poller
    \/ \E e \in Events : Handler(e)
    \/ \E c \in Conns : Stream(c)

Spec == Init /\ [][Next]_vars

(* The goroutines of the process are scheduled; whether a client ever      *)
(* reads is another matter, and no part of the specification.              *)
BusFairness == WF_vars(Poller) /\ \A e \in Events : WF_vars(Handler(e))
BusSpec == Spec /\ BusFairness

Reads(c) == WF_vars(Take(c)) /\ WF_vars(Wrote(c))

-----------------------------------------------------------------------------
(* Publish never sends on a closed channel, which would panic the process  *)
(* (hub.go: close and send both under the mutex).                          *)
NoSendOnClosed ==
    \A a \in Publishers : \A c \in targets[a] : conn[c] # "closed"

(* What is handed over once, a connection receives once at most: a reply,  *)
(* which the page would show twice, is not published by its own handler as *)
(* well (reply.go, "never publish a reply locally"), only a notification   *)
(* is.  Each poll that broke off behind an event may send it once more, a  *)
(* reply included; nothing else does.                                      *)
NoDoubleReply ==
    \A c \in Conns, e \in Events :
        received[c][e] =< 1 + repeats[e] + IF IsReply(e) THEN 0 ELSE 1

(* Every connection that was subscribed when deliver began with an event   *)
(* is sent it, or has it dropped for want of room, before the poller goes  *)
(* on: the unlocked gap between HasSubscribers and Publish, in which the   *)
(* text of a reply is fetched, loses nobody (bus.go, deliver).             *)
NobodyPassedOver ==
    \A c \in Open : \A e \in due[c] : e < at => e \in served[c]

(* A connection that does not read never holds up the bus: the poller      *)
(* brings its cursor past all events although nothing makes a client take  *)
(* its own.                                                                *)
PollerNeverStuck == <>(cursor = NumEvents)

(* A full buffer drops events but never means silence: after anything was  *)
(* published to a connection that reads, sent or dropped, its handler      *)
(* takes something for the client again, whatever the other clients do     *)
(* (bus_concurrency_test.go:228-230).                                      *)
DropIsNotSilence == \A c \in Conns : Reads(c) => (silent[c] ~> ~ silent[c])
=============================================================================
