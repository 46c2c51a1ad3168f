--------------------------- MODULE StreamHubProofs ---------------------------
(***************************************************************************)
(* Theorems about the hubs and streams of one process (module StreamHub),  *)
(* for any number of connections, keys, events and any size of the buffer. *)
(*                                                                         *)
(* The argument.  A publisher that sends holds the mutex of the hub of its *)
(* event, and what it still has to send to are open connections with that  *)
(* key (Locked): to close one takes the same mutex.  Copies of an event in *)
(* a channel or taken from it are no more than publishers that are through *)
(* with that connection and polls that broke off behind it (Counted), and  *)
(* of a reply the publisher is the poller alone.  What deliver owes to a   *)
(* connection stays its target until it is sent or dropped (Owed).         *)
(***************************************************************************)
EXTENDS StreamHub, FiniteSetTheorems, TLAPS

EventOf(a) == IF a = 0 THEN at ELSE a

Locked ==
    /\ \A a \in Publishers :
        /\ phase[a] = "send" => EventOf(a) \in Events /\ mu[HubOf(KeyOf[EventOf(a)])] = a
        /\ phase[a] # "send" => targets[a] = {}
        /\ \A c \in targets[a] : conn[c] = "open" /\ WatchedKey[c] = KeyOf[EventOf(a)]
    /\ \A e \in Events :
        /\ phase[e] \in {"todo", "publish", "send", "done"}
        /\ phase[e] # "todo" => e \in Local
    /\ phase[0] # "done"
    /\ phase[0] # "todo" => at \in Events

Copies(q, e) == {i \in 1 .. Len(q) : q[i] = e}

(* The poller is through with event e and connection c; so is its handler. *)
Polled(c, e) == e < at \/ (e = at /\ phase[0] = "send" /\ c \notin targets[0])
Handled(c, e) ==
    /\ e \in Local
    /\ phase[e] = "done" \/ (phase[e] = "send" /\ c \notin targets[e])

Times(b) == IF b THEN 1 ELSE 0

Counted ==
    \A c \in Conns, e \in Events :
        received[c][e] + Cardinality(Copies(queue[c], e))
            =< repeats[e] + Times(Polled(c, e)) + Times(Handled(c, e))

Pending(c) ==
    \/ phase[0] \in {"hydrate", "retry", "publish"}
    \/ phase[0] = "send" /\ (c \in targets[0] \/ at \in served[c])

Owed ==
    \A c \in Conns : \A e \in due[c] :
        /\ e =< at /\ conn[c] # "new" /\ WatchedKey[c] = KeyOf[e]
        /\ conn[c] = "open" => (e < at => e \in served[c]) /\ (e = at => Pending(c))

-----------------------------------------------------------------------------
(* Types.                                                                  *)

(* A send appends to a channel with room, and no other channel changes.    *)
LEMMA SendQueue ==
    ASSUME TypeOK, NEW e \in Events, NEW c \in Conns,
           queue' = IF Full(c) THEN queue ELSE [queue EXCEPT ![c] = Append(@, e)]
    PROVE  /\ queue' \in [Conns -> Seq(Events)]
           /\ \A d \in Conns : Len(queue'[d]) =< SubBuffer
           /\ \A d \in Conns \ {c} : queue'[d] = queue[d]
           /\ queue'[c] = queue[c] \/ queue'[c] = Append(queue[c], e)
<1>1. CASE Full(c)
    BY <1>1 DEF TypeOK
<1>2. CASE ~ Full(c)
    <2>1. queue[c] \in Seq(Events) /\ Len(queue[c]) \in Nat /\ Len(queue[c]) < SubBuffer
        BY <1>2, HubAssumption DEF TypeOK, Full
    <2>2. Append(queue[c], e) \in Seq(Events) /\ Len(Append(queue[c], e)) =< SubBuffer
        BY <2>1, HubAssumption
    <2>3. queue' = [queue EXCEPT ![c] = Append(queue[c], e)]
        BY <1>2
    <2>4. QED
        BY <2>2, <2>3 DEF TypeOK
<1>3. QED
    BY <1>1, <1>2

LEMMA PublishTyping ==
    ASSUME TypeOK, NEW a \in Publishers, NEW e \in Events, Publish(a, e)
    PROVE  TypeOK'
<1>1. CASE LockAndList(a, e)
    <2>1. HubOf(KeyOf[e]) \in Hubs /\ SubscribersOf(KeyOf[e]) \in SUBSET Conns
        BY DEF HubOf, Hubs, SubscribersOf, Open
    <2>2. QED
        BY <1>1, <2>1 DEF LockAndList, TypeOK, connVars, ledger
<1>2. CASE Send(a, e)
    <2>1. PICK c \in targets[a] :
            /\ Sent(a, e, c)
            /\ queue' = IF Full(c) THEN queue ELSE [queue EXCEPT ![c] = Append(@, e)]
        BY <1>2 DEF Send
    <2>2. c \in Conns
        BY <2>1 DEF TypeOK
    <2>3. /\ queue' \in [Conns -> Seq(Events)]
          /\ \A d \in Conns : Len(queue'[d]) =< SubBuffer
        BY <2>1, <2>2, SendQueue
    <2>4. silent' \in [Conns -> BOOLEAN]
        BY <2>1, <2>2 DEF Sent, TypeOK
    <2>5. served' \in [Conns -> SUBSET Events]
        BY <2>1, <2>2 DEF Sent, TypeOK
    <2>6. targets' \in [Publishers -> SUBSET Conns]
        BY <2>1, <2>2 DEF Sent, TypeOK
    <2>7. QED
        BY <2>1, <2>3, <2>4, <2>5, <2>6 DEF Sent, TypeOK
<1>3. QED
    BY <1>1, <1>2 DEF Publish

(* What is handed over again lies between the cursor and the poller.       *)
LEMMA AgainRange ==
    ASSUME TypeOK
    PROVE  /\ at \in Int /\ cursor \in Nat /\ cursor =< NumEvents
           /\ \A e \in Int : e \in Again <=> (cursor < e /\ e < at)
           /\ Again # {} => cursor + 1 < at
           /\ Again \subseteq Events
<1>1. at \in 1 .. NumEvents + 1 /\ cursor \in 0 .. NumEvents /\ NumEvents \in Nat
    BY HubAssumption DEF TypeOK
<1>2. QED
    BY <1>1 DEF Again, Events

LEMMA PollerTyping ==
    ASSUME TypeOK, Locked, Poller
    PROVE  TypeOK'
<1>0. 0 \in Publishers /\ NumEvents \in Nat
    BY HubAssumption DEF Publishers
<1>1. CASE DeliverBegin
    <2>1. phase' \in [Publishers -> {"todo", "hydrate", "retry", "publish", "send", "done"}]
        BY <1>0, <1>1 DEF DeliverBegin, NextEvent, TypeOK
    <2>2. at' \in 1 .. NumEvents + 1
        BY <1>0, <1>1 DEF DeliverBegin, NextEvent, TypeOK, Events
    <2>3. due' \in [Conns -> SUBSET Events]
        BY <1>1 DEF DeliverBegin, TypeOK
    <2>4. QED
        BY <1>1, <2>1, <2>2, <2>3 DEF DeliverBegin, TypeOK, connVars
<1>2. CASE Hydrated
    BY <1>0, <1>2 DEF Hydrated, TypeOK, connVars, ledger
<1>3. CASE HydrateFails
    BY <1>0, <1>3 DEF HydrateFails, TypeOK, connVars, ledger
<1>4. CASE HydrateGivesUp
    <2>1. at \in Events
        BY <1>0, <1>4 DEF HydrateGivesUp, Locked
    <2>2. QED
        BY <1>0, <1>4, <2>1 DEF HydrateGivesUp, NextEvent, TypeOK, connVars, Events
<1>5. CASE DeliverEnd
    <2>1. mu' \in [Hubs -> Publishers \union {None}]
        BY <1>5 DEF DeliverEnd, Unlock, TypeOK
    <2>2. phase' \in [Publishers -> {"todo", "hydrate", "retry", "publish", "send", "done"}]
        BY <1>5 DEF DeliverEnd, NextEvent, TypeOK
    <2>3. at' \in 1 .. NumEvents + 1
        BY <1>0, <1>5 DEF DeliverEnd, NextEvent, TypeOK, Events
    <2>4. QED
        BY <1>5, <2>1, <2>2, <2>3 DEF DeliverEnd, TypeOK, connVars, ledger
<1>6. CASE at \in Events /\ Publish(0, at)
    BY <1>0, <1>6, PublishTyping
<1>7. CASE PollEnds
    <2>1. cursor' \in 0 .. NumEvents
        BY <1>0, <1>7 DEF PollEnds, TypeOK
    <2>2. QED
        BY <1>7, <2>1 DEF PollEnds, TypeOK, connVars
<1>8. CASE PollBreaksOff
    <2>1. at' \in 1 .. NumEvents + 1
        BY <1>0, <1>8, AgainRange DEF PollBreaksOff, TypeOK
    <2>2. repeats' \in [Events -> Nat]
        BY <1>8 DEF PollBreaksOff, TypeOK
    <2>3. due' \in [Conns -> SUBSET Events] /\ served' \in [Conns -> SUBSET Events]
        BY <1>8 DEF PollBreaksOff, TypeOK
    <2>4. QED
        BY <1>8, <2>1, <2>2, <2>3 DEF PollBreaksOff, TypeOK, connVars
<1>9. QED
    BY <1>1, <1>2, <1>3, <1>4, <1>5, <1>6, <1>7, <1>8 DEF Poller

LEMMA HandlerTyping ==
    ASSUME TypeOK, NEW e \in Events, Handler(e)
    PROVE  TypeOK'
<1>0. e \in Publishers
    BY HubAssumption DEF Publishers, Events
<1>1. CASE LocalBegin(e)
    BY <1>0, <1>1 DEF LocalBegin, TypeOK, connVars, ledger
<1>2. CASE Publish(e, e)
    BY <1>0, <1>2, PublishTyping
<1>3. CASE LocalEnd(e)
    <2>1. mu' \in [Hubs -> Publishers \union {None}]
        BY <1>3 DEF LocalEnd, Unlock, TypeOK
    <2>2. QED
        BY <1>3, <2>1 DEF LocalEnd, TypeOK, connVars, ledger
<1>4. QED
    BY <1>1, <1>2, <1>3 DEF Handler

LEMMA StreamTyping ==
    ASSUME TypeOK, NEW c \in Conns, Stream(c)
    PROVE  TypeOK'
<1>1. CASE Subscribe(c)
    BY <1>1 DEF Subscribe, TypeOK, ledger
<1>2. CASE Take(c)
    <2>1. queue[c] \in Seq(Events) /\ queue[c] # <<>> /\ Len(queue[c]) =< SubBuffer
        BY <1>2 DEF Take, TypeOK
    <2>2. /\ Head(queue[c]) \in Events /\ Tail(queue[c]) \in Seq(Events)
          /\ Len(Tail(queue[c])) =< SubBuffer
        BY <2>1, HubAssumption
    <2>3. /\ queue' \in [Conns -> Seq(Events)]
          /\ \A d \in Conns : Len(queue'[d]) =< SubBuffer
        BY <1>2, <2>2 DEF Take, TypeOK
    <2>4. received' \in [Conns -> [Events -> Nat]]
        BY <1>2, <2>2 DEF Take, TypeOK
    <2>5. silent' \in [Conns -> BOOLEAN]
        BY <1>2 DEF Take, TypeOK
    <2>6. writing' \in [Conns -> Events \union {None}]
        BY <1>2, <2>2 DEF Take, TypeOK
    <2>7. QED
        BY <1>2, <2>3, <2>4, <2>5, <2>6 DEF Take, TypeOK, ledger
<1>3. CASE Wrote(c)
    BY <1>3 DEF Wrote, TypeOK, ledger
<1>4. CASE Unsubscribe(c)
    <2>1. /\ queue' \in [Conns -> Seq(Events)]
          /\ \A d \in Conns : Len(queue'[d]) =< SubBuffer
        BY <1>4, HubAssumption DEF Unsubscribe, TypeOK
    <2>2. QED
        BY <1>4, <2>1 DEF Unsubscribe, TypeOK, ledger
<1>5. QED
    BY <1>1, <1>2, <1>3, <1>4 DEF Stream

-----------------------------------------------------------------------------
(* Who sends holds the mutex.                                              *)

LEMMA PublishLocked ==
    ASSUME TypeOK, Locked, NEW a \in Publishers, EventOf(a) \in Events, Publish(a, EventOf(a)),
           a # 0 => a \in Local
    PROVE  Locked'
<1>0. 0 \in Publishers /\ \A b \in Publishers : b # 0 => b \in Events
    BY HubAssumption DEF Publishers, Events
<1>1. CASE LockAndList(a, EventOf(a))
    <2> DEFINE h == HubOf(KeyOf[EventOf(a)])
    <2>1. /\ phase[a] = "publish" /\ mu[h] = None /\ mu' = [mu EXCEPT ![h] = a]
          /\ targets' = [targets EXCEPT ![a] = SubscribersOf(KeyOf[EventOf(a)])]
          /\ phase' = [phase EXCEPT ![a] = "send"] /\ conn' = conn /\ at' = at
        BY <1>1 DEF LockAndList, connVars
    <2>2. h \in Hubs /\ None \notin Publishers
        BY HubAssumption DEF HubOf, Hubs, Publishers, Events
    <2>3. ASSUME NEW b \in Publishers
          PROVE  /\ phase'[b] = "send" =>
                      EventOf(b)' \in Events /\ mu'[HubOf(KeyOf[EventOf(b)])'] = b
                 /\ phase'[b] # "send" => targets'[b] = {}
                 /\ \A c \in targets'[b] :
                      conn'[c] = "open" /\ WatchedKey[c] = KeyOf[EventOf(b)']
        <3>1. EventOf(b)' = EventOf(b)
            BY <2>1 DEF EventOf
        <3>2. CASE b = a
            BY <2>1, <2>2, <3>1, <3>2 DEF TypeOK, SubscribersOf, Open, HubOf
        <3>3. CASE b # a
            <4>1. phase'[b] = phase[b] /\ targets'[b] = targets[b]
                BY <2>1, <3>3 DEF TypeOK
            <4>2. phase[b] = "send" => mu[HubOf(KeyOf[EventOf(b)])] = b /\ EventOf(b) \in Events
                BY DEF Locked
            <4>3. phase[b] = "send" => HubOf(KeyOf[EventOf(b)]) # h
                BY <2>1, <2>2, <4>2
            <4>4. phase[b] = "send" => mu'[HubOf(KeyOf[EventOf(b)])] = b
                BY <2>1, <4>2, <4>3 DEF TypeOK, HubOf, Hubs
            <4>5. QED
                BY <2>1, <3>1, <4>1, <4>2, <4>4 DEF Locked, HubOf
        <3>4. QED
            BY <3>2, <3>3
    <2>4. \A e \in Events :
            /\ phase'[e] \in {"todo", "publish", "send", "done"}
            /\ phase'[e] # "todo" => e \in Local
        BY <1>0, <2>1, HubAssumption DEF TypeOK, Locked, EventOf, Events, Publishers
    <2>5. phase'[0] # "done" /\ (phase'[0] # "todo" => at' \in Events)
        BY <1>0, <2>1 DEF TypeOK, Locked
    <2>6. QED
        BY <2>3, <2>4, <2>5 DEF Locked, HubOf
<1>2. CASE Send(a, EventOf(a))
    <2>1. /\ \A b \in Publishers : targets'[b] \subseteq targets[b]
          /\ phase[a] = "send" /\ UNCHANGED <<conn, mu, phase, at>>
        BY <1>2 DEF Send, Sent, TypeOK
    <2>2. \A b \in Publishers : EventOf(b)' = EventOf(b)
        BY <2>1 DEF EventOf
    <2>3. QED
        BY <2>1, <2>2 DEF Locked, HubOf
<1>3. QED
    BY <1>1, <1>2 DEF Publish

(* Only a sender lets its hub go, and nobody else sends there.             *)
LEMMA UnlockLocked ==
    ASSUME TypeOK, Locked, NEW a \in Publishers, EventOf(a) \in Events, Unlock(a, EventOf(a))
    PROVE  \A b \in Publishers \ {a} :
              phase[b] = "send" => mu'[HubOf(KeyOf[EventOf(b)])] = b
<1> TAKE b \in Publishers \ {a}
<1> HAVE phase[b] = "send"
<1>1. mu[HubOf(KeyOf[EventOf(b)])] = b /\ mu[HubOf(KeyOf[EventOf(a)])] = a
    BY DEF Locked, Unlock
<1>2. HubOf(KeyOf[EventOf(b)]) # HubOf(KeyOf[EventOf(a)])
    BY <1>1
<1>3. HubOf(KeyOf[EventOf(b)]) \in Hubs
    BY DEF HubOf, Hubs
<1>4. QED
    BY <1>1, <1>2, <1>3 DEF Unlock, TypeOK

LEMMA PollerLocked ==
    ASSUME TypeOK, Locked, Poller
    PROVE  Locked'
<1>0. /\ 0 \in Publishers /\ NumEvents \in Nat
      /\ \A e \in Events : e \in Publishers /\ e # 0
      /\ EventOf(0) = at
    BY HubAssumption DEF Publishers, Events, EventOf
<1>1. ASSUME phase[0] # "send", phase'[0] \notin {"send", "done"},
             phase'[0] = "todo" \/ at' \in Events,
             \A e \in Events : phase'[e] = phase[e],
             UNCHANGED <<conn, mu, targets>>
      PROVE  Locked'
    <2>1. ASSUME NEW b \in Publishers
          PROVE  /\ phase'[b] = "send" =>
                      EventOf(b)' \in Events /\ mu'[HubOf(KeyOf[EventOf(b)])'] = b
                 /\ phase'[b] # "send" => targets'[b] = {}
                 /\ \A c \in targets'[b] :
                      conn'[c] = "open" /\ WatchedKey[c] = KeyOf[EventOf(b)']
        <3>1. CASE b = 0
            BY <1>0, <1>1, <3>1 DEF Locked
        <3>2. CASE b # 0
            <4>1. b \in Events /\ EventOf(b)' = EventOf(b)
                BY <3>2, HubAssumption DEF Publishers, Events, EventOf
            <4>2. QED
                BY <1>1, <4>1 DEF Locked, HubOf
        <3>3. QED
            BY <3>1, <3>2
    <2>2. QED
        BY <1>1, <2>1 DEF Locked, HubOf
<1>2. CASE DeliverBegin
    <2>1. phase[0] = "todo" /\ at \in Events /\ UNCHANGED <<conn, mu, targets>>
        BY <1>2 DEF DeliverBegin, connVars
    <2>2. \/ phase' = [phase EXCEPT ![0] = IF IsReply(at) THEN "hydrate" ELSE "publish"] /\ at' = at
          \/ phase' = [phase EXCEPT ![0] = "todo"]
        BY <1>2 DEF DeliverBegin, NextEvent
    <2>3. \A e \in Events : phase'[e] = phase[e]
        BY <1>0, <2>2 DEF TypeOK
    <2>4. phase'[0] \notin {"send", "done"} /\ (phase'[0] = "todo" \/ at' \in Events)
        BY <1>0, <2>1, <2>2 DEF TypeOK
    <2>5. QED
        BY <1>1, <2>1, <2>3, <2>4
<1>3. CASE Hydrated \/ HydrateFails
    <2>1. /\ phase[0] \notin {"todo", "send"} /\ UNCHANGED <<conn, mu, targets, at>>
          /\ \A e \in Events : phase'[e] = phase[e]
          /\ phase'[0] \in {"publish", "retry"}
        BY <1>0, <1>3 DEF Hydrated, HydrateFails, connVars, TypeOK
    <2>2. QED
        BY <1>1, <2>1 DEF Locked
<1>4. CASE HydrateGivesUp
    <2>1. /\ phase[0] # "send" /\ UNCHANGED <<conn, mu, targets>>
          /\ \A e \in Events : phase'[e] = phase[e]
          /\ phase'[0] = "todo"
        BY <1>0, <1>4 DEF HydrateGivesUp, NextEvent, connVars, TypeOK
    <2>2. QED
        BY <1>1, <2>1
<1>5. CASE DeliverEnd
    <2>1. /\ Unlock(0, at) /\ at \in Events /\ UNCHANGED <<conn, targets>>
          /\ targets[0] = {}
          /\ \A e \in Events : phase'[e] = phase[e]
          /\ phase'[0] = "todo"
        BY <1>0, <1>5 DEF DeliverEnd, Unlock, NextEvent, connVars, TypeOK
    <2>2. ASSUME NEW b \in Publishers
          PROVE  /\ phase'[b] = "send" =>
                      EventOf(b)' \in Events /\ mu'[HubOf(KeyOf[EventOf(b)])'] = b
                 /\ phase'[b] # "send" => targets'[b] = {}
                 /\ \A c \in targets'[b] :
                      conn'[c] = "open" /\ WatchedKey[c] = KeyOf[EventOf(b)']
        <3>1. CASE b = 0
            BY <2>1, <3>1
        <3>2. CASE b # 0
            <4>1. b \in Events /\ EventOf(b)' = EventOf(b)
                BY <3>2, HubAssumption DEF Publishers, Events, EventOf
            <4>2. phase[b] = "send" => mu'[HubOf(KeyOf[EventOf(b)])] = b
                BY <1>0, <2>1, <3>2, UnlockLocked
            <4>3. QED
                BY <2>1, <4>1, <4>2 DEF Locked, HubOf
        <3>3. QED
            BY <3>1, <3>2
    <2>3. QED
        BY <2>1, <2>2 DEF Locked, HubOf
<1>6. CASE at \in Events /\ Publish(0, at)
    BY <1>0, <1>6, PublishLocked
<1>7. CASE PollEnds \/ PollBreaksOff
    <2>1. phase[0] = "todo" /\ UNCHANGED <<conn, mu, targets, phase>>
        BY <1>7 DEF PollEnds, PollBreaksOff, connVars
    <2>2. QED
        BY <1>1, <2>1
<1>8. QED
    BY <1>2, <1>3, <1>4, <1>5, <1>6, <1>7 DEF Poller

LEMMA HandlerLocked ==
    ASSUME TypeOK, Locked, NEW e \in Events, Handler(e)
    PROVE  Locked'
<1>0. /\ e \in Publishers /\ 0 \in Publishers /\ e # 0 /\ EventOf(e) = e
      /\ Events \subseteq Publishers
    BY HubAssumption DEF Publishers, Events, EventOf
<1>1. CASE LocalBegin(e)
    <2>1. /\ e \in Local /\ UNCHANGED <<conn, mu, targets, at>> /\ phase[e] = "todo"
          /\ phase' = [phase EXCEPT ![e] = "publish"]
        BY <1>1 DEF LocalBegin, PublishedLocally, connVars
    <2>2. \A b \in Publishers : EventOf(b)' = EventOf(b)
        BY <2>1 DEF EventOf
    <2>3. QED
        BY <1>0, <2>1, <2>2 DEF Locked, TypeOK, HubOf
<1>2. CASE Publish(e, e)
    <2>1. phase[e] # "todo"
        BY <1>2 DEF Publish, LockAndList, Send, Sent
    <2>2. QED
        BY <1>0, <1>2, <2>1, PublishLocked DEF Locked
<1>3. CASE LocalEnd(e)
    <2>1. /\ Unlock(e, e) /\ UNCHANGED <<conn, targets, at>> /\ targets[e] = {}
          /\ phase[e] = "send" /\ phase' = [phase EXCEPT ![e] = "done"]
        BY <1>3 DEF LocalEnd, Unlock, connVars
    <2>2. ASSUME NEW b \in Publishers
          PROVE  /\ phase'[b] = "send" =>
                      EventOf(b)' \in Events /\ mu'[HubOf(KeyOf[EventOf(b)])'] = b
                 /\ phase'[b] # "send" => targets'[b] = {}
                 /\ \A c \in targets'[b] :
                      conn'[c] = "open" /\ WatchedKey[c] = KeyOf[EventOf(b)']
        <3>1. CASE b = e
            BY <1>0, <2>1, <3>1 DEF TypeOK
        <3>2. CASE b # e
            <4>1. EventOf(b)' = EventOf(b) /\ phase'[b] = phase[b]
                BY <2>1, <3>2 DEF TypeOK, EventOf
            <4>2. phase[b] = "send" => mu'[HubOf(KeyOf[EventOf(b)])] = b
                BY <1>0, <2>1, <3>2, UnlockLocked
            <4>3. QED
                BY <2>1, <4>1, <4>2 DEF Locked, HubOf
        <3>3. QED
            BY <3>1, <3>2
    <2>3. \A d \in Events :
            /\ phase'[d] \in {"todo", "publish", "send", "done"}
            /\ phase'[d] # "todo" => d \in Local
        BY <1>0, <2>1 DEF TypeOK, Locked
    <2>4. phase'[0] # "done" /\ (phase'[0] # "todo" => at' \in Events)
        BY <1>0, <2>1 DEF TypeOK, Locked
    <2>5. QED
        BY <2>2, <2>3, <2>4 DEF Locked, HubOf
<1>4. QED
    BY <1>1, <1>2, <1>3 DEF Handler

LEMMA StreamLocked ==
    ASSUME TypeOK, Locked, NEW c \in Conns, Stream(c)
    PROVE  Locked'
<1>0. UNCHANGED <<mu, targets, phase, at>>
    BY DEF Stream, Subscribe, Take, Wrote, Unsubscribe
<1>1. \A b \in Publishers : EventOf(b)' = EventOf(b) /\ targets[b] \subseteq Conns
    BY <1>0 DEF EventOf, TypeOK
<1>2. ASSUME NEW b \in Publishers, NEW d \in targets[b]
      PROVE  conn'[d] = "open"
    <2>1. conn[d] = "open" /\ WatchedKey[d] = KeyOf[EventOf(b)] /\ d \in Conns /\ phase[b] = "send"
        BY <1>1, <1>2 DEF Locked
    <2>2. mu[HubOf(WatchedKey[d])] = b /\ b # None
        BY <2>1, HubAssumption DEF Locked, Publishers, Events
    <2>3. CASE Subscribe(c)
        BY <2>1, <2>3 DEF Subscribe, TypeOK
    <2>4. CASE Take(c) \/ Wrote(c)
        BY <2>1, <2>4 DEF Take, Wrote
    <2>5. CASE Unsubscribe(c)
        BY <2>1, <2>2, <2>5 DEF Unsubscribe, MayClose, TypeOK
    <2>6. QED
        BY <2>3, <2>4, <2>5 DEF Stream
<1>3. QED
    BY <1>0, <1>1, <1>2 DEF Locked, HubOf

-----------------------------------------------------------------------------
(* Copies of an event.                                                     *)

LEMMA CopiesFinite ==
    ASSUME NEW q \in Seq(Events), NEW e \in Events
    PROVE  IsFiniteSet(Copies(q, e)) /\ Cardinality(Copies(q, e)) \in Nat
<1>1. Len(q) \in Nat
    OBVIOUS
<1>2. IsFiniteSet(1 .. Len(q)) /\ Copies(q, e) \in SUBSET (1 .. Len(q))
    BY <1>1, FS_Interval DEF Copies
<1>3. IsFiniteSet(Copies(q, e))
    BY <1>2, FS_Subset
<1>4. QED
    BY <1>3, FS_CardinalityType

LEMMA CopiesOfNothing == \A e \in Events : Cardinality(Copies(<<>>, e)) = 0
<1> TAKE e \in Events
<1>1. Copies(<<>>, e) = {}
    BY DEF Copies
<1>2. QED
    BY <1>1, FS_EmptySet

(* A send adds a copy of its event and of no other.                        *)
LEMMA CopiesSent ==
    ASSUME NEW q \in Seq(Events), NEW d \in Events, NEW e \in Events
    PROVE  Cardinality(Copies(Append(q, d), e))
              = Cardinality(Copies(q, e)) + Times(d = e)
<1> DEFINE n == Len(q) + 1
<1>1. /\ Append(q, d) \in Seq(Events) /\ Len(Append(q, d)) = n /\ n \in Nat
      /\ \A i \in 1 .. Len(q) : Append(q, d)[i] = q[i]
      /\ Append(q, d)[n] = d
    OBVIOUS
<1>2. IsFiniteSet(Copies(q, e)) /\ n \notin Copies(q, e)
    BY <1>1, CopiesFinite DEF Copies
<1>3. CASE d = e
    <2>1. Copies(Append(q, d), e) = Copies(q, e) \union {n}
        BY <1>1, <1>3 DEF Copies
    <2>2. Cardinality(Copies(q, e) \union {n}) = Cardinality(Copies(q, e)) + 1
        BY <1>2, FS_AddElement
    <2>3. QED
        BY <1>3, <2>1, <2>2 DEF Times
<1>4. CASE d # e
    <2>1. Copies(Append(q, d), e) = Copies(q, e)
        BY <1>1, <1>4 DEF Copies
    <2>2. Cardinality(Copies(q, e)) \in Nat
        BY CopiesFinite
    <2>3. QED
        BY <1>4, <2>1, <2>2 DEF Times
<1>5. QED
    BY <1>3, <1>4

(* What is taken leaves the channel.                                       *)
LEMMA CopiesTaken ==
    ASSUME NEW q \in Seq(Events), q # <<>>, NEW e \in Events
    PROVE  Cardinality(Copies(Tail(q), e)) + Times(Head(q) = e)
              =< Cardinality(Copies(q, e))
<1> DEFINE S == Copies(q, e) \ {1}
           T == Copies(Tail(q), e)
           f == [i \in T |-> i + 1]
<1>1. /\ Tail(q) \in Seq(Events) /\ Len(Tail(q)) = Len(q) - 1 /\ Head(q) = q[1]
      /\ Len(q) \in Nat \ {0}
      /\ \A i \in 1 .. Len(q) - 1 : Tail(q)[i] = q[i + 1]
    OBVIOUS
<1>2. \A i \in T : i \in Nat /\ i + 1 \in S
    BY <1>1 DEF Copies
<1>3. f \in Injection(T, S)
    BY <1>2 DEF Injection, IsInjective
<1>4. IsFiniteSet(Copies(q, e)) /\ Cardinality(Copies(q, e)) \in Nat
    BY CopiesFinite
<1>5. /\ IsFiniteSet(S)
      /\ Cardinality(S) = IF 1 \in Copies(q, e) THEN Cardinality(Copies(q, e)) - 1
                          ELSE Cardinality(Copies(q, e))
    BY <1>4, FS_RemoveElement
<1>6. Cardinality(T) =< Cardinality(S)
    BY <1>3, <1>5, FS_Injection
<1>7. (Head(q) = e) <=> 1 \in Copies(q, e)
    BY <1>1 DEF Copies
<1>8. Cardinality(T) \in Nat
    BY <1>1, CopiesFinite
<1>9. QED
    BY <1>4, <1>5, <1>6, <1>7, <1>8 DEF Times

-----------------------------------------------------------------------------
(* No more copies than publishers that are through with the connection.    *)

LEMMA NumbersAreNumbers ==
    ASSUME TypeOK, NEW c \in Conns, NEW e \in Events
    PROVE  received[c][e] \in Nat /\ Cardinality(Copies(queue[c], e)) \in Nat /\ repeats[e] \in Nat
<1>1. queue[c] \in Seq(Events) /\ received[c] \in [Events -> Nat]
    BY DEF TypeOK
<1>2. received[c][e] \in Nat /\ repeats[e] \in Nat
    BY <1>1 DEF TypeOK
<1>3. QED
    BY <1>1, <1>2, CopiesFinite

LEMMA PublishCounted ==
    ASSUME TypeOK, Locked, Counted, NEW a \in Publishers, EventOf(a) \in Events,
           a # 0 => a \in Local, Publish(a, EventOf(a))
    PROVE  Counted'
<1>0. 0 \in Publishers /\ Events \subseteq Publishers /\ \A e \in Events : e # 0
    BY HubAssumption DEF Publishers, Events
<1>1. CASE LockAndList(a, EventOf(a))
    <2>1. /\ phase[a] = "publish" /\ phase' = [phase EXCEPT ![a] = "send"]
          /\ targets' = [targets EXCEPT ![a] = SubscribersOf(KeyOf[EventOf(a)])]
          /\ UNCHANGED <<queue, received, at, repeats>>
        BY <1>1 DEF LockAndList, connVars, ledger
    <2>2. ASSUME NEW c \in Conns, NEW e \in Events
          PROVE  (Polled(c, e) => Polled(c, e)') /\ (Handled(c, e) => Handled(c, e)')
        BY <1>0, <2>1 DEF Polled, Handled, TypeOK
    <2>3. QED
        <3>1. SUFFICES ASSUME NEW c \in Conns, NEW e \in Events
              PROVE  received'[c][e] + Cardinality(Copies(queue'[c], e))
                        =< repeats'[e] + Times(Polled(c, e)') + Times(Handled(c, e)')
            BY DEF Counted, Times
        <3>2. received[c][e] \in Nat /\ Cardinality(Copies(queue[c], e)) \in Nat /\ repeats[e] \in Nat
            BY NumbersAreNumbers
        <3>3. Times(Polled(c, e)) =< Times(Polled(c, e)') /\ Times(Handled(c, e)) =< Times(Handled(c, e)')
            BY <2>2 DEF Times
        <3>4. QED
            BY <2>1, <3>2, <3>3 DEF Counted, Times
<1>2. CASE Send(a, EventOf(a))
    <2>1. PICK d \in targets[a] :
            /\ Sent(a, EventOf(a), d)
            /\ queue' = IF Full(d) THEN queue ELSE [queue EXCEPT ![d] = Append(@, EventOf(a))]
        BY <1>2 DEF Send
    <2>2. d \in Conns
        BY <2>1 DEF TypeOK
    <2>3. /\ phase[a] = "send" /\ UNCHANGED <<received, phase, at, repeats>>
          /\ targets' = [targets EXCEPT ![a] = @ \ {d}]
        BY <2>1 DEF Sent
    <2>4. /\ \A c \in Conns \ {d} : queue'[c] = queue[c]
          /\ queue'[d] = queue[d] \/ queue'[d] = Append(queue[d], EventOf(a))
        BY <2>1, <2>2, SendQueue
    <2>5. ASSUME NEW c \in Conns, NEW e \in Events
          PROVE  /\ Polled(c, e) => Polled(c, e)'
                 /\ Handled(c, e) => Handled(c, e)'
                 /\ c = d /\ e = EventOf(a) =>
                      \/ a = 0 /\ ~ Polled(c, e) /\ Polled(c, e)'
                      \/ a # 0 /\ ~ Handled(c, e) /\ Handled(c, e)'
        <3>1. (Polled(c, e) => Polled(c, e)') /\ (Handled(c, e) => Handled(c, e)')
            BY <1>0, <2>3 DEF Polled, Handled, TypeOK
        <3>2. CASE c = d /\ e = EventOf(a) /\ a = 0
            <4>1. e = at /\ d \in targets[0] /\ d \notin targets'[0] /\ at \in Int
                BY <1>0, <2>1, <2>3, <3>2 DEF EventOf, TypeOK
            <4>2. QED
                BY <2>3, <3>1, <3>2, <4>1 DEF Polled
        <3>3. CASE c = d /\ e = EventOf(a) /\ a # 0
            <4>1. e = a /\ d \in targets[e] /\ d \notin targets'[e]
                BY <1>0, <2>1, <2>3, <3>3 DEF EventOf, TypeOK
            <4>2. QED
                BY <2>3, <3>1, <3>3, <4>1 DEF Handled
        <3>4. QED
            BY <3>1, <3>2, <3>3
    <2>6. QED
        <3>1. SUFFICES ASSUME NEW c \in Conns, NEW e \in Events
              PROVE  received'[c][e] + Cardinality(Copies(queue'[c], e))
                        =< repeats'[e] + Times(Polled(c, e)') + Times(Handled(c, e)')
            BY DEF Counted, Times
        <3>2. received[c][e] \in Nat /\ Cardinality(Copies(queue[c], e)) \in Nat /\ repeats[e] \in Nat
            BY NumbersAreNumbers
        <3>3. received[c][e] + Cardinality(Copies(queue[c], e))
                =< repeats[e] + Times(Polled(c, e)) + Times(Handled(c, e))
            BY DEF Counted
        <3>4. CASE c = d /\ e = EventOf(a) /\ queue'[d] = Append(queue[d], EventOf(a))
            <4>1. Cardinality(Copies(queue'[c], e)) = Cardinality(Copies(queue[c], e)) + 1
                BY <3>4, CopiesSent DEF Times, TypeOK
            <4>2. Times(Polled(c, e)) + Times(Handled(c, e)) + 1
                    =< Times(Polled(c, e)') + Times(Handled(c, e)')
                BY <2>5, <3>4 DEF Times
            <4>3. Times(Polled(c, e)) \in Nat /\ Times(Handled(c, e)) \in Nat
                  /\ Times(Polled(c, e)') \in Nat /\ Times(Handled(c, e)') \in Nat
                BY DEF Times
            <4>4. QED
                BY <2>3, <3>2, <3>3, <4>1, <4>2, <4>3
        <3>5. CASE ~ (c = d /\ e = EventOf(a) /\ queue'[d] = Append(queue[d], EventOf(a)))
            <4>1. Cardinality(Copies(queue'[c], e)) = Cardinality(Copies(queue[c], e))
                <5>1. CASE queue'[c] = queue[c]
                    BY <5>1
                <5>2. CASE queue'[c] # queue[c]
                    <6>1. c = d /\ e # EventOf(a) /\ queue'[c] = Append(queue[c], EventOf(a))
                        BY <2>4, <3>5, <5>2
                    <6>2. queue[c] \in Seq(Events)
                        BY DEF TypeOK
                    <6>3. Times(EventOf(a) = e) = 0
                        BY <6>1 DEF Times
                    <6>4. QED
                        BY <3>2, <6>1, <6>2, <6>3, CopiesSent
                <5>3. QED
                    BY <5>1, <5>2
            <4>2. Times(Polled(c, e)) =< Times(Polled(c, e)') /\ Times(Handled(c, e)) =< Times(Handled(c, e)')
                BY <2>5 DEF Times
            <4>3. Times(Polled(c, e)) \in Nat /\ Times(Handled(c, e)) \in Nat
                  /\ Times(Polled(c, e)') \in Nat /\ Times(Handled(c, e)') \in Nat
                BY DEF Times
            <4>4. QED
                BY <2>3, <3>2, <3>3, <4>1, <4>2, <4>3
        <3>6. QED
            BY <3>4, <3>5
<1>3. QED
    BY <1>1, <1>2 DEF Publish

(* A step that leaves the channels alone and lets no publisher forget.     *)
LEMMA CountedKept ==
    ASSUME TypeOK, Counted, UNCHANGED <<queue, received, repeats>>,
           \A c \in Conns, e \in Events :
              (Polled(c, e) => Polled(c, e)') /\ (Handled(c, e) => Handled(c, e)')
    PROVE  Counted'
<1>1. SUFFICES ASSUME NEW c \in Conns, NEW e \in Events
      PROVE  received'[c][e] + Cardinality(Copies(queue'[c], e))
                =< repeats'[e] + Times(Polled(c, e)') + Times(Handled(c, e)')
    BY DEF Counted, Times
<1>2. received[c][e] \in Nat /\ Cardinality(Copies(queue[c], e)) \in Nat /\ repeats[e] \in Nat
    BY NumbersAreNumbers
<1>3. Times(Polled(c, e)) =< Times(Polled(c, e)') /\ Times(Handled(c, e)) =< Times(Handled(c, e)')
    BY DEF Times
<1>4. QED
    BY <1>2, <1>3 DEF Counted, Times

LEMMA PollerCounted ==
    ASSUME TypeOK, Locked, Counted, Poller
    PROVE  Counted'
<1>0. /\ 0 \in Publishers /\ Events \subseteq Publishers /\ EventOf(0) = at
      /\ \A e \in Events : e # 0 /\ e \in Int
      /\ at \in Int
    BY HubAssumption DEF Publishers, Events, EventOf, TypeOK
<1>1. CASE DeliverBegin \/ HydrateGivesUp
    <2>1. /\ phase[0] # "send" /\ UNCHANGED <<queue, received, targets, repeats>>
          /\ at' = at \/ at' = at + 1
          /\ \A e \in Events : phase'[e] = phase[e]
        BY <1>0, <1>1 DEF DeliverBegin, HydrateGivesUp, NextEvent, connVars, ledger, TypeOK
    <2>2. QED
        BY <1>0, <2>1, CountedKept DEF Polled, Handled
<1>2. CASE Hydrated \/ HydrateFails
    <2>1. /\ phase[0] # "send" /\ UNCHANGED <<queue, received, targets, at, repeats>>
          /\ \A e \in Events : phase'[e] = phase[e]
        BY <1>0, <1>2 DEF Hydrated, HydrateFails, connVars, ledger, TypeOK
    <2>2. QED
        BY <1>0, <2>1, CountedKept DEF Polled, Handled
<1>3. CASE DeliverEnd
    <2>1. /\ UNCHANGED <<queue, received, targets, repeats>>
          /\ at' = at + 1
          /\ \A e \in Events : phase'[e] = phase[e]
        BY <1>0, <1>3 DEF DeliverEnd, NextEvent, connVars, ledger, TypeOK
    <2>2. QED
        BY <1>0, <2>1, CountedKept DEF Polled, Handled
<1>4. CASE at \in Events /\ Publish(0, at)
    BY <1>0, <1>4, PublishCounted
<1>5. CASE PollEnds
    <2>1. UNCHANGED <<queue, received, targets, phase, at, repeats>>
        BY <1>5 DEF PollEnds, connVars
    <2>2. QED
        BY <2>1, CountedKept DEF Polled, Handled
<1>6. CASE PollBreaksOff
    <2>1. /\ phase[0] = "todo" /\ UNCHANGED <<queue, received, targets, phase>>
          /\ at' = cursor + 1
          /\ repeats' = [e \in Events |-> IF e \in Again THEN repeats[e] + 1 ELSE repeats[e]]
        BY <1>6 DEF PollBreaksOff, connVars
    <2>2. SUFFICES ASSUME NEW c \in Conns, NEW e \in Events
          PROVE  received'[c][e] + Cardinality(Copies(queue'[c], e))
                    =< repeats'[e] + Times(Polled(c, e)') + Times(Handled(c, e)')
        BY DEF Counted, Times
    <2>3. /\ received[c][e] \in Nat /\ Cardinality(Copies(queue[c], e)) \in Nat
          /\ repeats[e] \in Nat
        BY NumbersAreNumbers
    <2>4. received[c][e] + Cardinality(Copies(queue[c], e))
            =< repeats[e] + Times(Polled(c, e)) + Times(Handled(c, e))
        BY DEF Counted
    <2>5. Times(Handled(c, e)') = Times(Handled(c, e))
        BY <2>1 DEF Handled, Times
    <2>6. repeats[e] + Times(Polled(c, e)) =< repeats'[e] + Times(Polled(c, e)')
        <3>1. Polled(c, e) => e \in Again \/ Polled(c, e)'
            BY <1>0, <2>1, AgainRange DEF Polled
        <3>2. repeats'[e] = IF e \in Again THEN repeats[e] + 1 ELSE repeats[e]
            BY <2>1
        <3>3. QED
            BY <2>3, <3>1, <3>2 DEF Times
    <2>7. /\ Times(Polled(c, e)) \in Nat /\ Times(Polled(c, e)') \in Nat
          /\ Times(Handled(c, e)) \in Nat /\ repeats'[e] \in Nat
        BY <2>1, <2>3 DEF Times
    <2>8. QED
        BY <2>1, <2>3, <2>4, <2>5, <2>6, <2>7
<1>7. QED
    BY <1>1, <1>2, <1>3, <1>4, <1>5, <1>6 DEF Poller

LEMMA HandlerCounted ==
    ASSUME TypeOK, Locked, Counted, NEW e \in Events, Handler(e)
    PROVE  Counted'
<1>0. /\ e \in Publishers /\ 0 \in Publishers /\ e # 0 /\ EventOf(e) = e
      /\ Events \subseteq Publishers
    BY HubAssumption DEF Publishers, Events, EventOf
<1>1. CASE LocalBegin(e)
    <2>1. /\ phase[e] = "todo" /\ UNCHANGED <<queue, received, targets, at, repeats>>
          /\ phase' = [phase EXCEPT ![e] = "publish"]
        BY <1>1 DEF LocalBegin, connVars, ledger
    <2>2. phase'[0] = phase[0] /\ \A d \in Events \ {e} : phase'[d] = phase[d]
        BY <1>0, <2>1 DEF TypeOK
    <2>3. QED
        BY <2>1, <2>2, CountedKept DEF Polled, Handled
<1>2. CASE Publish(e, e)
    <2>1. phase[e] # "todo"
        BY <1>2 DEF Publish, LockAndList, Send, Sent
    <2>2. QED
        BY <1>0, <1>2, <2>1, PublishCounted DEF Locked
<1>3. CASE LocalEnd(e)
    <2>1. /\ UNCHANGED <<queue, received, targets, at, repeats>>
          /\ phase' = [phase EXCEPT ![e] = "done"]
        BY <1>3 DEF LocalEnd, connVars, ledger
    <2>2. /\ phase'[0] = phase[0] /\ phase'[e] = "done"
          /\ \A d \in Events \ {e} : phase'[d] = phase[d]
        BY <1>0, <2>1 DEF TypeOK
    <2>3. QED
        BY <2>1, <2>2, CountedKept DEF Polled, Handled
<1>4. QED
    BY <1>1, <1>2, <1>3 DEF Handler

LEMMA StreamCounted ==
    ASSUME TypeOK, Counted, NEW d \in Conns, Stream(d)
    PROVE  Counted'
<1>0. UNCHANGED <<targets, phase, at, repeats>>
    BY DEF Stream, Subscribe, Take, Wrote, Unsubscribe, ledger
<1>1. CASE Subscribe(d) \/ Wrote(d)
    <2>1. UNCHANGED <<queue, received>>
        BY <1>1 DEF Subscribe, Wrote
    <2>2. QED
        BY <1>0, <2>1, CountedKept DEF Polled, Handled
<1>2. SUFFICES ASSUME Take(d) \/ Unsubscribe(d), NEW c \in Conns, NEW e \in Events
      PROVE  received'[c][e] + Cardinality(Copies(queue'[c], e))
                =< received[c][e] + Cardinality(Copies(queue[c], e))
    <2>1. CASE Take(d) \/ Unsubscribe(d)
        <3>1. SUFFICES ASSUME NEW c \in Conns, NEW e \in Events
              PROVE  received'[c][e] + Cardinality(Copies(queue'[c], e))
                        =< repeats'[e] + Times(Polled(c, e)') + Times(Handled(c, e)')
            BY DEF Counted, Times
        <3>2. Times(Polled(c, e)') = Times(Polled(c, e)) /\ Times(Handled(c, e)') = Times(Handled(c, e))
            BY <1>0 DEF Times, Polled, Handled
        <3>3. /\ Times(Polled(c, e)) \in Nat /\ Times(Handled(c, e)) \in Nat
              /\ received[c][e] \in Nat /\ Cardinality(Copies(queue[c], e)) \in Nat
              /\ repeats[e] \in Nat
            BY NumbersAreNumbers DEF Times
        <3>4. received'[c][e] \in Nat /\ Cardinality(Copies(queue'[c], e)) \in Nat
            <4>1. TypeOK'
                BY StreamTyping
            <4>2. queue'[c] \in Seq(Events) /\ received'[c] \in [Events -> Nat]
                BY <4>1 DEF TypeOK
            <4>3. received'[c][e] \in Nat
                BY <4>2
            <4>4. QED
                BY <4>2, <4>3, CopiesFinite
        <3>5. received[c][e] + Cardinality(Copies(queue[c], e))
                =< repeats[e] + Times(Polled(c, e)) + Times(Handled(c, e))
            BY DEF Counted
        <3>6. received'[c][e] + Cardinality(Copies(queue'[c], e))
                =< received[c][e] + Cardinality(Copies(queue[c], e))
            BY <1>2, <2>1
        <3>7. QED
            BY <1>0, <3>2, <3>3, <3>4, <3>5, <3>6
    <2>2. QED
        BY <1>1, <2>1 DEF Stream
<1>3. received[c][e] \in Nat /\ Cardinality(Copies(queue[c], e)) \in Nat
    BY NumbersAreNumbers
<1>4. CASE Take(d) /\ c = d
    <2>1. queue[d] \in Seq(Events) /\ queue[d] # <<>> /\ queue'[d] = Tail(queue[d])
        BY <1>4 DEF Take, TypeOK
    <2>2. Head(queue[d]) \in Events /\ Tail(queue[d]) \in Seq(Events)
        BY <2>1
    <2>3. received'[d][e] =< received[d][e] + Times(Head(queue[d]) = e) /\ received'[d][e] \in Nat
        <3>1. received' = [received EXCEPT ![d][Head(queue[d])] = @ + 1]
            BY <1>4 DEF Take
        <3>2. received[d] \in [Events -> Nat]
            BY DEF TypeOK
        <3>3. received'[d] = [received[d] EXCEPT ![Head(queue[d])] = @ + 1]
            BY <3>1 DEF TypeOK
        <3>4. received'[d][e] =
                IF Head(queue[d]) = e
                THEN received[d][e] + 1
                ELSE received[d][e]
            BY <1>3, <1>4, <3>2, <3>3
        <3>5. QED
            BY <1>3, <1>4, <3>4 DEF Times
    <2>4. Cardinality(Copies(Tail(queue[d]), e)) + Times(Head(queue[d]) = e)
              =< Cardinality(Copies(queue[d], e))
        BY <2>1, CopiesTaken
    <2>5. Times(Head(queue[d]) = e) \in Nat /\ Cardinality(Copies(Tail(queue[d]), e)) \in Nat
        BY <2>2, CopiesFinite DEF Times
    <2>6. QED
        BY <1>3, <1>4, <2>1, <2>3, <2>4, <2>5
<1>5. CASE Unsubscribe(d) /\ c = d
    <2>1. queue'[c] = <<>> /\ received' = received
        BY <1>5 DEF Unsubscribe, TypeOK
    <2>2. QED
        BY <1>3, <2>1, CopiesOfNothing
<1>6. CASE c # d
    <2>1. queue'[c] = queue[c] /\ received'[c] = received[c]
        BY <1>2, <1>6 DEF Take, Unsubscribe, TypeOK
    <2>2. QED
        BY <1>3, <2>1
<1>7. QED
    BY <1>2, <1>4, <1>5, <1>6

-----------------------------------------------------------------------------
(* What deliver owes to a connection.                                      *)

LEMMA PublishOwed ==
    ASSUME TypeOK, Locked, Owed, NEW a \in Publishers, EventOf(a) \in Events, Publish(a, EventOf(a))
    PROVE  Owed'
<1>0. 0 \in Publishers /\ EventOf(0) = at /\ at \in Int
    BY HubAssumption DEF Publishers, EventOf, TypeOK
<1> SUFFICES ASSUME NEW c \in Conns, NEW e \in due'[c]
    PROVE  /\ e =< at' /\ conn'[c] # "new" /\ WatchedKey[c] = KeyOf[e]
           /\ conn'[c] = "open" => (e < at' => e \in served'[c]) /\ (e = at' => Pending(c)')
    BY DEF Owed
<1>1. UNCHANGED <<due, at, conn>> /\ e \in due[c]
    BY DEF Publish, LockAndList, Send, Sent, connVars, ledger
<1>2. /\ e =< at /\ conn[c] # "new" /\ WatchedKey[c] = KeyOf[e]
      /\ conn[c] = "open" => (e < at => e \in served[c]) /\ (e = at => Pending(c))
    BY <1>1 DEF Owed
<1>3. CASE LockAndList(a, EventOf(a))
    <2>1. /\ phase[a] = "publish" /\ phase' = [phase EXCEPT ![a] = "send"] /\ served' = served
          /\ targets' = [targets EXCEPT ![a] = SubscribersOf(KeyOf[EventOf(a)])]
        BY <1>3 DEF LockAndList, ledger
    <2>2. ASSUME conn[c] = "open", e = at
          PROVE  Pending(c)'
        <3>1. CASE a = 0
            <4>1. c \in targets'[0] /\ phase'[0] = "send"
                BY <1>0, <1>2, <2>1, <2>2, <3>1 DEF TypeOK, SubscribersOf, Open
            <4>2. QED
                BY <4>1 DEF Pending
        <3>2. CASE a # 0
            BY <1>0, <1>1, <1>2, <2>1, <2>2, <3>2 DEF Pending, TypeOK
        <3>3. QED
            BY <3>1, <3>2
    <2>3. QED
        BY <1>1, <1>2, <2>1, <2>2
<1>4. CASE Send(a, EventOf(a))
    <2>1. PICK d \in targets[a] : Sent(a, EventOf(a), d)
        BY <1>4 DEF Send
    <2>2. /\ d \in Conns /\ phase' = phase
          /\ targets' = [targets EXCEPT ![a] = @ \ {d}]
          /\ served' = [served EXCEPT ![d] = IF a = 0 THEN @ \union {EventOf(a)} ELSE @]
        BY <2>1 DEF Sent, TypeOK
    <2>3. served[c] \subseteq served'[c]
        BY <2>2 DEF TypeOK
    <2>4. c \in targets[0] => c \in targets'[0] \/ at \in served'[c]
        BY <1>0, <2>2 DEF TypeOK
    <2>5. Pending(c) => Pending(c)'
        BY <1>1, <2>2, <2>3, <2>4 DEF Pending
    <2>6. QED
        BY <1>1, <1>2, <2>3, <2>5
<1>5. QED
    BY <1>3, <1>4 DEF Publish

LEMMA PollerOwed ==
    ASSUME TypeOK, Locked, Owed, Poller
    PROVE  Owed'
<1>0. 0 \in Publishers /\ EventOf(0) = at /\ at \in Int /\ \A e \in Events : e \in Int
    BY HubAssumption DEF Publishers, EventOf, TypeOK, Events
<1>1. CASE at \in Events /\ Publish(0, at)
    BY <1>0, <1>1, PublishOwed
<1>10. CASE PollBreaksOff
    <2>1. SUFFICES ASSUME NEW c \in Conns, NEW e \in due'[c]
          PROVE  /\ e =< at' /\ conn'[c] # "new" /\ WatchedKey[c] = KeyOf[e]
                 /\ conn'[c] = "open" => (e < at' => e \in served'[c]) /\ (e = at' => Pending(c)')
        BY DEF Owed
    <2>2. /\ UNCHANGED conn /\ at' = cursor + 1
          /\ due'[c] = {d \in due[c] : d =< cursor}
          /\ served'[c] = {d \in served[c] : d =< cursor}
          /\ cursor + 1 < at
        BY <1>10, AgainRange DEF PollBreaksOff, connVars, TypeOK
    <2>3. e \in due[c] /\ e =< cursor /\ e \in Int
        BY <1>0, <2>2 DEF TypeOK
    <2>4. e < at /\ e < at' /\ e # at'
        BY <1>0, <2>2, <2>3, AgainRange
    <2>5. /\ conn[c] # "new" /\ WatchedKey[c] = KeyOf[e]
          /\ conn[c] = "open" => e \in served[c]
        BY <2>3, <2>4 DEF Owed
    <2>6. QED
        BY <2>2, <2>3, <2>4, <2>5
<1>2. SUFFICES ASSUME ~ (at \in Events /\ Publish(0, at)), ~ PollBreaksOff,
                      NEW c \in Conns, NEW e \in due'[c]
      PROVE  /\ e =< at' /\ conn'[c] # "new" /\ WatchedKey[c] = KeyOf[e]
             /\ conn'[c] = "open" => (e < at' => e \in served'[c]) /\ (e = at' => Pending(c)')
    BY <1>1, <1>10 DEF Owed
<1>3. CASE DeliverBegin /\ e \in due[c]
    <2>1. /\ e =< at /\ conn[c] # "new" /\ WatchedKey[c] = KeyOf[e]
          /\ conn[c] = "open" => (e < at => e \in served[c]) /\ (e = at => Pending(c))
        BY <1>3 DEF Owed
    <2>2. phase[0] = "todo" /\ UNCHANGED <<conn, served>> /\ e \in Int
        BY <1>0, <1>3 DEF DeliverBegin, connVars, TypeOK
    <2>3. ~ Pending(c)
        BY <2>2 DEF Pending
    <2>4. at' = at \/ at' = at + 1
        BY <1>3 DEF DeliverBegin, NextEvent
    <2>5. conn[c] = "open" => e < at
        BY <1>0, <2>1, <2>2, <2>3
    <2>6. e =< at' /\ (conn[c] = "open" => e < at')
        BY <1>0, <2>1, <2>2, <2>4, <2>5
    <2>7. conn'[c] = "open" => e \in served'[c] /\ e # at'
        BY <1>0, <2>1, <2>2, <2>5, <2>6
    <2>8. QED
        BY <2>1, <2>2, <2>6, <2>7
<1>4. CASE DeliverBegin /\ e \notin due[c]
    <2>1. e = at /\ c \in SubscribersOf(KeyOf[at]) /\ UNCHANGED conn
        BY <1>2, <1>4 DEF DeliverBegin, connVars
    <2>2. conn[c] = "open" /\ WatchedKey[c] = KeyOf[e]
        BY <2>1 DEF SubscribersOf, Open
    <2>3. at' = at /\ phase' = [phase EXCEPT ![0] = IF IsReply(at) THEN "hydrate" ELSE "publish"]
        BY <1>4, <2>1 DEF DeliverBegin, HasSubscribers
    <2>4. phase'[0] \in {"hydrate", "publish"}
        BY <1>0, <2>3 DEF TypeOK
    <2>5. Pending(c)'
        BY <2>4 DEF Pending
    <2>6. e =< at' /\ ~ (e < at')
        BY <1>0, <2>1, <2>3
    <2>7. QED
        BY <2>1, <2>2, <2>5, <2>6
<1>5. ASSUME ~ DeliverBegin
      PROVE  /\ e \in due[c] /\ e \in Int
             /\ e =< at /\ conn'[c] # "new" /\ WatchedKey[c] = KeyOf[e]
             /\ conn'[c] = "open" => (e < at => e \in served'[c]) /\ (e = at => Pending(c))
    <2>1. UNCHANGED <<conn, served>> /\ due'[c] \subseteq due[c]
        BY <1>2, <1>5 DEF Poller, Hydrated, HydrateFails, HydrateGivesUp, DeliverEnd, PollEnds,
            connVars, ledger, TypeOK
    <2>2. e \in due[c] /\ due[c] \subseteq Events
        BY <1>2, <2>1 DEF TypeOK
    <2>3. QED
        BY <1>0, <2>1, <2>2 DEF Owed
<1>6. CASE (Hydrated \/ HydrateFails) /\ ~ DeliverBegin
    <2>1. phase'[0] \in {"publish", "retry"} /\ at' = at
        BY <1>0, <1>6 DEF Hydrated, HydrateFails, TypeOK
    <2>2. Pending(c)'
        BY <2>1 DEF Pending
    <2>3. QED
        BY <1>5, <1>6, <2>1, <2>2
<1>7. CASE HydrateGivesUp /\ ~ DeliverBegin
    <2>1. e # at /\ at' = at + 1
        BY <1>2, <1>7 DEF HydrateGivesUp, NextEvent, TypeOK
    <2>2. e < at /\ e =< at' /\ e # at'
        BY <1>0, <1>5, <1>7, <2>1
    <2>3. QED
        BY <1>5, <1>7, <2>2
<1>8. CASE DeliverEnd /\ ~ DeliverBegin
    <2>1. phase[0] = "send" /\ targets[0] = {} /\ at' = at + 1 /\ served' = served
        BY <1>8 DEF DeliverEnd, Unlock, NextEvent, ledger
    <2>2. Pending(c) => at \in served[c]
        BY <2>1 DEF Pending
    <2>3. e =< at' /\ e # at'
        BY <1>0, <1>5, <1>8, <2>1
    <2>4. conn'[c] = "open" => e \in served'[c]
        <3>1. CASE e = at
            BY <1>5, <1>8, <2>1, <2>2, <3>1
        <3>2. CASE e # at
            <4>1. e < at
                BY <1>0, <1>5, <1>8, <3>2
            <4>2. QED
                BY <1>5, <1>8, <4>1
        <3>3. QED
            BY <3>1, <3>2
    <2>5. QED
        BY <1>5, <1>8, <2>3, <2>4
<1>9. CASE PollEnds /\ ~ DeliverBegin
    <2>1. UNCHANGED <<at, phase, targets, conn, served>>
        BY <1>9 DEF PollEnds, connVars
    <2>2. Pending(c)' = Pending(c)
        BY <2>1 DEF Pending
    <2>3. QED
        BY <1>5, <1>9, <2>1, <2>2
<1>11. QED
    BY <1>2, <1>3, <1>4, <1>6, <1>7, <1>8, <1>9 DEF Poller

LEMMA HandlerOwed ==
    ASSUME TypeOK, Locked, Owed, NEW e \in Events, Handler(e)
    PROVE  Owed'
<1>0. e \in Publishers /\ e # 0 /\ EventOf(e) = e /\ 0 \in Publishers
    BY HubAssumption DEF Publishers, Events, EventOf
<1>1. CASE LocalBegin(e) \/ LocalEnd(e)
    <2>1. UNCHANGED <<conn, targets, at, due, served>> /\ phase'[0] = phase[0]
        BY <1>0, <1>1 DEF LocalBegin, LocalEnd, connVars, ledger, TypeOK
    <2>2. QED
        BY <2>1 DEF Owed, Pending
<1>2. CASE Publish(e, e)
    BY <1>0, <1>2, PublishOwed
<1>3. QED
    BY <1>1, <1>2 DEF Handler

LEMMA StreamOwed ==
    ASSUME TypeOK, Owed, NEW d \in Conns, Stream(d)
    PROVE  Owed'
<1>1. UNCHANGED <<targets, phase, at, due, served>>
    BY DEF Stream, Subscribe, Take, Wrote, Unsubscribe, ledger
<1>2. \A c \in Conns : /\ conn'[c] = "open" => conn[c] \in {"open", "new"}
                       /\ conn'[c] = "new" => conn[c] = "new"
    BY DEF Stream, Subscribe, Take, Wrote, Unsubscribe, TypeOK
<1>3. \A c \in Conns : Pending(c)' = Pending(c)
    BY <1>1 DEF Pending
<1>4. QED
    BY <1>1, <1>2, <1>3 DEF Owed

-----------------------------------------------------------------------------
Inv == TypeOK /\ Locked /\ Counted /\ Owed

LEMMA InvInit == Init => Inv
<1> SUFFICES ASSUME Init PROVE Inv
    OBVIOUS
<1>0. 0 \in Publishers /\ NumEvents \in Nat /\ Events \subseteq Publishers
    BY HubAssumption DEF Publishers, Events
<1>1. TypeOK
    BY <1>0, HubAssumption DEF Init, TypeOK
<1>2. Locked
    BY <1>0 DEF Init, Locked
<1>3. Counted
    <2>1. SUFFICES ASSUME NEW c \in Conns, NEW e \in Events
          PROVE  received[c][e] + Cardinality(Copies(queue[c], e))
                    =< repeats[e] + Times(Polled(c, e)) + Times(Handled(c, e))
        BY DEF Counted
    <2>2. received[c][e] = 0 /\ repeats[e] = 0 /\ queue[c] = <<>>
        BY DEF Init
    <2>3. QED
        BY <2>2, CopiesOfNothing DEF Times
<1>4. Owed
    BY DEF Init, Owed
<1>5. QED
    BY <1>1, <1>2, <1>3, <1>4 DEF Inv

LEMMA InvStep == Inv /\ [Next]_vars => Inv'
<1> SUFFICES ASSUME Inv, [Next]_vars PROVE Inv'
    OBVIOUS
<1>0. TypeOK /\ Locked /\ Counted /\ Owed
    BY DEF Inv
<1>1. CASE Poller
    BY <1>0, <1>1, PollerTyping, PollerLocked, PollerCounted, PollerOwed DEF Inv
<1>2. CASE \E e \in Events : Handler(e)
    BY <1>0, <1>2, HandlerTyping, HandlerLocked, HandlerCounted, HandlerOwed DEF Inv
<1>3. CASE \E c \in Conns : Stream(c)
    BY <1>0, <1>3, StreamTyping, StreamLocked, StreamCounted, StreamOwed DEF Inv
<1>4. CASE UNCHANGED vars
    <2>1. /\ UNCHANGED <<conn, queue, writing, received, silent>>
          /\ UNCHANGED <<mu, targets, phase, at, cursor, repeats, due, served>>
        BY <1>4 DEF vars, connVars, ledger
    <2>2. TypeOK' /\ Locked' /\ Owed'
        BY <1>0, <2>1 DEF TypeOK, Locked, EventOf, HubOf, Owed, Pending
    <2>3. Counted'
        BY <1>0, <2>1, CountedKept DEF Polled, Handled
    <2>4. QED
        BY <2>2, <2>3 DEF Inv
<1>5. QED
    BY <1>1, <1>2, <1>3, <1>4 DEF Next

(* The invariant holds of every process.                                   *)
THEOREM HubInvariant == Spec => []Inv
<1>1. QED
    BY InvInit, InvStep, PTL DEF Spec

(* Types of the state of hubs and streams.                                 *)
THEOREM HubTyping == Spec => []TypeOK
<1>1. Inv => TypeOK
    BY DEF Inv
<1>2. QED
    BY <1>1, HubInvariant, PTL

(* No publisher has a closed channel before it: closing waits for the      *)
(* mutex under which Publish lists and sends (hub.go).                     *)
THEOREM NeverOnClosed == Spec => []NoSendOnClosed
<1>1. Inv => NoSendOnClosed
    BY DEF Inv, Locked, NoSendOnClosed
<1>2. QED
    BY <1>1, HubInvariant, PTL

(* A reply is taken once at most and a notification twice, and once more   *)
(* for each poll that broke off behind it, whatever the handlers and the   *)
(* poller do at the same time.                                             *)
THEOREM RepliesOnce == Spec => []NoDoubleReply
<1>1. Inv => NoDoubleReply
    <2>1. SUFFICES ASSUME Inv, NEW c \in Conns, NEW e \in Events
          PROVE  received[c][e] =< 1 + repeats[e] + IF IsReply(e) THEN 0 ELSE 1
        BY DEF NoDoubleReply
    <2>2. /\ received[c][e] \in Nat /\ Cardinality(Copies(queue[c], e)) \in Nat
          /\ repeats[e] \in Nat
        BY <2>1, NumbersAreNumbers DEF Inv
    <2>3. received[c][e] + Cardinality(Copies(queue[c], e))
            =< repeats[e] + Times(Polled(c, e)) + Times(Handled(c, e))
        BY <2>1 DEF Inv, Counted
    <2>4. Times(Polled(c, e)) \in 0 .. 1 /\ Times(Handled(c, e)) \in 0 .. 1
        BY DEF Times
    <2>5. CASE IsReply(e)
        <3>1. e \notin Local
            BY <2>5, HubAssumption
        <3>2. Times(Handled(c, e)) = 0
            BY <3>1 DEF Times, Handled
        <3>3. received[c][e] =< 1 + repeats[e]
            BY <2>2, <2>3, <2>4, <3>2
        <3>4. QED
            BY <2>2, <2>5, <3>3
    <2>6. CASE ~ IsReply(e)
        <3>1. received[c][e] =< 2 + repeats[e]
            BY <2>2, <2>3, <2>4
        <3>2. QED
            BY <2>2, <2>6, <3>1
    <2>7. QED
        BY <2>5, <2>6
<1>2. QED
    BY <1>1, HubInvariant, PTL

(* Who was subscribed when deliver began with an event is sent it or has   *)
(* it dropped before the poller goes on (bus.go, deliver).                 *)
THEOREM NobodyLeftOut == Spec => []NobodyPassedOver
<1>1. Inv => NobodyPassedOver
    BY DEF Inv, Owed, NobodyPassedOver, Open
<1>2. QED
    BY <1>1, HubInvariant, PTL
=============================================================================
