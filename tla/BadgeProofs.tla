----------------------------- MODULE BadgeProofs -----------------------------
(***************************************************************************)
(* Theorems about the badge (module Badge), for any number of              *)
(* notifications, processes, pages, failures and restarts.                 *)
(*                                                                         *)
(* The argument.  A page is informed of a notification when its process    *)
(* has published it, heard its event, or joined the log past it.  Whatever *)
(* informs a page leaves it with a reason to fetch: an event in its        *)
(* channel, or a stream opened since (Knows); and a count taken after a    *)
(* notification is stored contains it.  Of a notification a page is not    *)
(* informed of, the event is still to come, or was given up.               *)
(***************************************************************************)
EXTENDS Badge, TLAPS

Informed(c, n) ==
    \/ step[n] \in {"told", "cut off"} /\ WriterAt[n] = conn[c]
    \/ n \in heard[conn[c]]
    \/ fate[n] \in {"numbered", "visible"} /\ place[n] =< from[conn[c]]

Counts(c, n) == IF asked[c] THEN n \in answer[c] ELSE n \in shown[c]

Knows(c, n) == queue[c] > 0 \/ due[c] \/ misled[c] \/ Counts(c, n)

(* The relay as the badge uses it.                                         *)
Shape ==
    /\ \A n \in Notes :
        /\ fate[n] # "none" => step[n] = "told"
        /\ row[n] = "unread" => step[n] # "new"
    /\ \A p \in Procs :
        /\ from[p] =< last
        /\ \A n \in heard[p] : fate[n] \in {"visible", "purged"}
    /\ \A c \in Clients : conn[c] # Nobody => on[conn[c]]

Told ==
    \A c \in Clients, n \in Notes :
        conn[c] # Nobody /\ row[n] = "unread" /\ Informed(c, n) => Knows(c, n)

Inv == TypeOK /\ Shape /\ Told

-----------------------------------------------------------------------------
(* Types.                                                                  *)
LEMMA LogStep ==
    ASSUME Relay!TypeOK, NEW n \in Notes, Relay!Enter(n) \/ Relay!Appear(n) \/ Relay!Cancel(n)
    PROVE  Relay!TypeOK'
<1>1. CASE Relay!Enter(n)
    BY <1>1 DEF Relay!Enter, Relay!TypeOK, Relay!ears, Relay!Fates
<1>2. CASE Relay!Appear(n)
    BY <1>2 DEF Relay!Appear, Relay!TypeOK, Relay!ears, Relay!Fates
<1>3. CASE Relay!Cancel(n)
    BY <1>3 DEF Relay!Cancel, Relay!TypeOK, Relay!ears, Relay!Fates
<1>4. QED
    BY <1>1, <1>2, <1>3

LEMMA JoinStep ==
    ASSUME Relay!TypeOK, NEW p \in Procs, NEW here \in 0 .. last, Relay!Join(p, here)
    PROVE  Relay!TypeOK'
BY DEF Relay!Join, Relay!TypeOK, Relay!log, Relay!Fates

LEMMA ExpireStep ==
    ASSUME Relay!TypeOK, NEW n \in Notes, Relay!Expire({n})
    PROVE  Relay!TypeOK'
BY DEF Relay!Expire, Relay!TypeOK, Relay!ears, Relay!Fates

LEMMA Sizes == SubBuffer \in Nat /\ SubBuffer > 0 /\ 0 \in 0 .. SubBuffer
<1>1. SubBuffer \in Nat /\ SubBuffer # 0
    BY BadgeAssumption DEF BadgeAssumption
<1>2. QED
    BY <1>1

LEMMA OneLess == ASSUME NEW k \in 0 .. SubBuffer, k > 0 PROVE k - 1 \in 0 .. SubBuffer
BY Sizes

LEMMA SignalStep ==
    ASSUME BadgeAssumption, queue \in [Clients -> 0 .. SubBuffer], NEW p \in Procs, Signal(p)
    PROVE  /\ queue' \in [Clients -> 0 .. SubBuffer]
           /\ \A c \in Clients : queue'[c] > 0 \/ queue'[c] = queue[c]
           /\ \A c \in Clients : conn[c] = p => queue'[c] > 0
<1>1. SubBuffer \in Nat \ {0}
    BY DEF BadgeAssumption
<1>2. \A c \in Clients : queue[c] \in 0 .. SubBuffer
    OBVIOUS
<1>3. \A c \in Clients :
          queue'[c] = IF conn[c] = p /\ queue[c] < SubBuffer THEN queue[c] + 1 ELSE queue[c]
    BY DEF Signal
<1>4. queue' = [c \in Clients |-> queue'[c]]
    BY DEF Signal
<1>5. \A c \in Clients : queue'[c] \in 0 .. SubBuffer
    BY <1>1, <1>2, <1>3
<1>6. QED
    BY <1>1, <1>2, <1>3, <1>4, <1>5

LEMMA TroubleStep ==
    ASSUME BadgeAssumption, troubles \in 0 .. MaxTroubles, Trouble \/ UNCHANGED troubles
    PROVE  troubles' \in 0 .. MaxTroubles
BY DEF BadgeAssumption, Trouble

LEMMA TypeInit == Init => TypeOK
<1> SUFFICES ASSUME Init PROVE TypeOK
    OBVIOUS
<1>1. Relay!TypeOK
    BY DEF Init, Relay!Init, Relay!TypeOK, Relay!Fates
<1>2. QED
    BY <1>1, BadgeAssumption DEF Init, TypeOK, BadgeAssumption

LEMMA HandlerTypes == ASSUME TypeOK, NEW n \in Notes, Handler(n) PROVE TypeOK'
<1> USE BadgeAssumption DEF TypeOK
<1>1. CASE Store(n)
    BY <1>1 DEF Store, relay, page, Relay!TypeOK
<1>2. CASE Tell(n)
    <2>1. WriterAt[n] \in Procs /\ Signal(WriterAt[n])
        BY <1>2 DEF Tell, BadgeAssumption
    <2>2. queue' \in [Clients -> 0 .. SubBuffer]
        BY <2>1, SignalStep
    <2>3. QED
        BY <1>2, <2>2 DEF Tell, relay, page, Relay!TypeOK
<1>3. CASE WriteEvent(n)
    <2>1. Relay!TypeOK'
        BY <1>3, LogStep DEF WriteEvent
    <2>2. QED
        BY <1>3, <2>1 DEF WriteEvent, page
<1>4. CASE StoreUnanswered(n)
    <2>1. troubles' \in 0 .. MaxTroubles
        BY <1>4, TroubleStep DEF StoreUnanswered
    <2>2. QED
        BY <1>4, <2>1 DEF StoreUnanswered, relay, page, Relay!TypeOK
<1>5. QED
    BY <1>1, <1>2, <1>3, <1>4 DEF Handler

LEMMA ProcTypes ==
    ASSUME TypeOK, NEW p \in Procs, Start(p) \/ Crash(p) \/ \E n \in Notes : Poll(p, n)
    PROVE  TypeOK'
<1> USE BadgeAssumption DEF TypeOK
<1>1. CASE Start(p)
    <2>1. Relay!TypeOK'
        BY <1>1, JoinStep DEF Start
    <2>2. QED
        BY <1>1, <2>1 DEF Start, page
<1>2. CASE Crash(p)
    <2>1. Relay!TypeOK'
        BY <1>2 DEF Crash, Relay!Leave, Relay!TypeOK, Relay!log
    <2>2. troubles' \in 0 .. MaxTroubles
        BY <1>2, TroubleStep DEF Crash
    <2>3. step' \in [Notes -> {"new", "stored", "told", "cut off", "unanswered"}]
        BY <1>2 DEF Crash
    <2>4. conn' \in [Clients -> Procs \union {Nobody}] /\ queue' \in [Clients -> 0 .. SubBuffer]
        BY <1>2, Sizes DEF Crash
    <2>5. QED
        BY <1>2, <2>1, <2>2, <2>3, <2>4 DEF Crash, page
<1>3. CASE \E n \in Notes : Poll(p, n)
    <2>0. PICK n \in Notes : Poll(p, n)
        BY <1>3
    <2>1. Relay!TypeOK'
        <3>1. /\ heard' = [heard EXCEPT ![p] = heard[p] \union {n}]
              /\ UNCHANGED <<place, fate, last, on, from>>
            BY <2>0 DEF Poll, Relay!Hear, Relay!log
        <3>2. QED
            BY <3>1 DEF Relay!TypeOK
    <2>2. queue' \in [Clients -> 0 .. SubBuffer]
        BY <2>0, SignalStep DEF Poll
    <2>3. QED
        BY <2>0, <2>1, <2>2 DEF Poll, page
<1>4. QED
    BY <1>1, <1>2, <1>3

LEMMA OtherTypes ==
    ASSUME TypeOK, Collect \/ MarkNotificationsRead \/ UNCHANGED vars
    PROVE  TypeOK'
<1> USE DEF TypeOK, page
<1>1. CASE Collect
    <2>1. Relay!TypeOK'
        BY <1>1, ExpireStep DEF Collect
    <2>2. QED
        BY <1>1, <2>1 DEF Collect
<1>2. CASE MarkNotificationsRead
    BY <1>2 DEF MarkNotificationsRead, Relay!TypeOK, relay
<1>3. CASE UNCHANGED vars
    BY <1>3 DEF vars, Relay!TypeOK, relay
<1>4. QED
    BY <1>1, <1>2, <1>3

LEMMA ClientTypes ==
    ASSUME TypeOK, NEW c \in Clients, Client(c)
    PROVE  TypeOK'
<1> USE BadgeAssumption DEF TypeOK, relay, page
<1>1. CASE Open(c)
    BY <1>1 DEF Open, Relay!TypeOK
<1>2. CASE Close(c)
    <2>1. troubles' \in 0 .. MaxTroubles
        BY <1>2, TroubleStep DEF Close
    <2>2. queue' \in [Clients -> 0 .. SubBuffer]
        BY <1>2, Sizes DEF Close
    <2>3. QED
        BY <1>2, <2>1, <2>2 DEF Close, Relay!TypeOK
<1>3. CASE Receive(c)
    <2>0. queue[c] \in 0 .. SubBuffer /\ queue[c] > 0
        BY <1>3 DEF Receive
    <2>1. queue[c] - 1 \in 0 .. SubBuffer
        BY <2>0, OneLess
    <2>2. queue' \in [Clients -> 0 .. SubBuffer]
        BY <1>3, <2>1 DEF Receive
    <2>3. QED
        BY <1>3, <2>2 DEF Receive, Relay!TypeOK
<1>4. CASE GetUnreadCount(c)
    <2>1. troubles' \in 0 .. MaxTroubles
        BY <1>4, TroubleStep DEF GetUnreadCount
    <2>2. Unread \in SUBSET Notes
        BY DEF Unread
    <2>3. answer' \in [Clients -> SUBSET Notes] /\ misled' \in [Clients -> BOOLEAN]
        BY <1>4, <2>2 DEF GetUnreadCount
    <2>4. QED
        BY <1>4, <2>1, <2>3 DEF GetUnreadCount, Relay!TypeOK
<1>5. CASE Show(c)
    BY <1>5 DEF Show, Relay!TypeOK
<1>6. QED
    BY <1>1, <1>2, <1>3, <1>4, <1>5 DEF Client

-----------------------------------------------------------------------------
LEMMA Connected ==
    ASSUME Inv, NEW c \in Clients, conn[c] # Nobody
    PROVE  /\ conn[c] \in Procs /\ on[conn[c]]
           /\ from[conn[c]] \in Nat /\ last \in Nat /\ from[conn[c]] =< last
           /\ \A n \in heard[conn[c]] : fate[n] \in {"visible", "purged"}
<1>1. conn[c] \in Procs
    BY DEF Inv, TypeOK
<1>2. QED
    BY <1>1 DEF Inv, TypeOK, Relay!TypeOK, Shape

(* The handler.                                                            *)
LEMMA StoreStep ==
    ASSUME Inv, NEW n \in Notes, Store(n) \/ StoreUnanswered(n)
    PROVE  Shape' /\ Told'
<1>1. /\ step[n] = "new" /\ fate[n] = "none"
      /\ UNCHANGED <<place, fate, last, on, from, heard, conn, queue, due, asked, answer, shown, misled>>
      /\ \E s \in {"stored", "unanswered"} : step' = [step EXCEPT ![n] = s]
      /\ row' = [row EXCEPT ![n] = "unread"]
    BY DEF Store, StoreUnanswered, relay, page, Inv, Shape
<1>2. /\ step'[n] \in {"stored", "unanswered"}
      /\ \A m \in Notes \ {n} : step'[m] = step[m] /\ row'[m] = row[m]
    BY <1>1 DEF Inv, TypeOK
<1>3. Shape'
    BY <1>1, <1>2 DEF Inv, Shape
<1>4. Told'
    <2>1. SUFFICES ASSUME NEW c \in Clients, NEW m \in Notes, conn[c] # Nobody,
                          row'[m] = "unread", Informed(c, m)'
                   PROVE  Knows(c, m)'
        BY <1>1 DEF Told
    <2>2. m # n
        <3>1. n \notin heard[conn[c]]
            BY <1>1, <2>1, Connected
        <3>2. ~ Informed(c, n)'
            BY <1>1, <1>2, <3>1 DEF Informed
        <3>3. QED
            BY <2>1, <3>2
    <2>3. row[m] = "unread" /\ Informed(c, m)
        BY <1>1, <1>2, <2>1, <2>2 DEF Informed
    <2>4. Knows(c, m)
        BY <2>1, <2>3 DEF Inv, Told
    <2>5. QED
        BY <1>1, <2>4 DEF Knows, Counts
<1>5. QED
    BY <1>3, <1>4

LEMMA TellStep ==
    ASSUME Inv, NEW n \in Notes, Tell(n)
    PROVE  Shape' /\ Told'
<1>1. /\ step[n] = "stored" /\ Signal(WriterAt[n])
      /\ UNCHANGED <<place, fate, last, on, from, heard, row, conn, due, asked, answer, shown, misled>>
      /\ step' = [step EXCEPT ![n] = "told"]
    BY DEF Tell, relay, page
<1>2. step'[n] = "told" /\ \A m \in Notes \ {n} : step'[m] = step[m]
    BY <1>1 DEF Inv, TypeOK
<1>3. /\ \A c \in Clients : queue'[c] > 0 \/ queue'[c] = queue[c]
      /\ \A c \in Clients : conn[c] = WriterAt[n] => queue'[c] > 0
    BY <1>1, SignalStep, BadgeAssumption DEF BadgeAssumption, Inv, TypeOK
<1>4. Shape'
    BY <1>1, <1>2 DEF Inv, Shape
<1>5. Told'
    <2>1. SUFFICES ASSUME NEW c \in Clients, NEW m \in Notes, conn[c] # Nobody,
                          row[m] = "unread", Informed(c, m)', ~ queue'[c] > 0
                   PROVE  Knows(c, m)'
        BY <1>1 DEF Told, Knows
    <2>2. Informed(c, m)
        BY <1>1, <1>2, <1>3, <2>1 DEF Informed
    <2>3. Knows(c, m)
        BY <2>1, <2>2 DEF Inv, Told
    <2>4. QED
        BY <1>1, <1>3, <2>1, <2>3 DEF Knows, Counts
<1>6. QED
    BY <1>4, <1>5

LEMMA WriteEventStep ==
    ASSUME Inv, NEW n \in Notes, WriteEvent(n)
    PROVE  Shape' /\ Told'
<1>1. /\ step[n] = "told"
      /\ UNCHANGED <<on, from, heard, row, step, conn, queue, due, asked, answer, shown, misled>>
    BY DEF WriteEvent, MayWrite, Relay!Enter, Relay!Appear, Relay!Cancel, Relay!ears, page, Inv, Shape
<1>2. /\ place \in [Notes -> Nat] /\ fate \in [Notes -> Relay!Fates] /\ last \in Nat
      /\ \A p \in Procs : from[p] \in Nat
    BY DEF Inv, TypeOK, Relay!TypeOK
<1>3. /\ last' >= last
      /\ \A m \in Notes \ {n} : fate'[m] = fate[m] /\ place'[m] = place[m]
      /\ fate[n] # "visible" /\ fate[n] # "purged"
      /\ \/ fate'[n] = "failed"
         \/ fate'[n] = "numbered" /\ place'[n] = last + 1
         \/ fate[n] = "numbered" /\ place'[n] = place[n]
    <2>1. CASE Relay!Enter(n)
        BY <1>2, <2>1 DEF Relay!Enter
    <2>2. CASE Relay!Appear(n)
        BY <1>2, <2>2 DEF Relay!Appear
    <2>3. CASE Relay!Cancel(n)
        BY <1>2, <2>3 DEF Relay!Cancel
    <2>4. QED
        BY <2>1, <2>2, <2>3 DEF WriteEvent
<1>4. Shape'
    <2>1. \A m \in Notes : (fate'[m] # "none" => step'[m] = "told") /\ (row'[m] = "unread" => step'[m] # "new")
        BY <1>1, <1>3 DEF Inv, Shape
    <2>2. \A p \in Procs : from'[p] =< last'
        <3>1. last' \in Nat
            BY <1>2 DEF WriteEvent, Relay!Enter, Relay!Appear, Relay!Cancel
        <3>2. QED
            BY <1>1, <1>2, <1>3, <3>1 DEF Inv, Shape
    <2>3. \A p \in Procs : \A m \in heard'[p] : fate'[m] \in {"visible", "purged"}
        BY <1>1, <1>3 DEF Inv, Shape, TypeOK, Relay!TypeOK
    <2>4. QED
        BY <1>1, <2>1, <2>2, <2>3 DEF Inv, Shape
<1>5. Told'
    <2>1. SUFFICES ASSUME NEW c \in Clients, NEW m \in Notes, conn[c] # Nobody,
                          row[m] = "unread", Informed(c, m)'
                   PROVE  Knows(c, m)'
        BY <1>1 DEF Told
    <2>2. from[conn[c]] \in Nat /\ last \in Nat /\ from[conn[c]] =< last
        BY <2>1, Connected
    <2>3. ASSUME fate'[m] \in {"numbered", "visible"}, place'[m] =< from[conn[c]]
          PROVE  fate[m] \in {"numbered", "visible"} /\ place[m] =< from[conn[c]]
        <3>1. CASE m # n
            BY <1>3, <2>3, <3>1
        <3>2. CASE m = n
            BY <1>3, <2>2, <2>3, <3>2
        <3>3. QED
            BY <3>1, <3>2
    <2>4. Informed(c, m)
        BY <1>1, <2>1, <2>3 DEF Informed
    <2>5. Knows(c, m)
        BY <2>1, <2>4 DEF Inv, Told
    <2>6. QED
        BY <1>1, <2>5 DEF Knows, Counts
<1>6. QED
    BY <1>4, <1>5

-----------------------------------------------------------------------------
(* The processes.                                                          *)
LEMMA StartStep ==
    ASSUME Inv, NEW p \in Procs, Start(p)
    PROVE  Shape' /\ Told'
<1>1. PICK here \in 0 .. last : Relay!Join(p, here)
    BY DEF Start
<1>2. /\ ~ on[p]
      /\ UNCHANGED <<place, fate, last, heard, row, step, conn, queue, due, asked, answer, shown, misled>>
      /\ on' = [on EXCEPT ![p] = TRUE] /\ from' = [from EXCEPT ![p] = here]
    BY <1>1 DEF Start, Relay!Join, Relay!log, page
<1>3. \A q \in Procs : /\ on[q] => on'[q] /\ q # p
                       /\ from'[q] = IF q = p THEN here ELSE from[q]
    BY <1>2 DEF Inv, TypeOK, Relay!TypeOK
<1>4. Shape'
    <2>1. \A c \in Clients : conn[c] # Nobody => on'[conn[c]]
        BY <1>3, Connected
    <2>2. \A q \in Procs : from'[q] =< last
        BY <1>3 DEF Inv, Shape
    <2>3. QED
        BY <1>2, <2>1, <2>2 DEF Inv, Shape
<1>5. \A c \in Clients : conn[c] # Nobody => from'[conn[c]] = from[conn[c]]
    BY <1>3, Connected
<1>6. Told'
    BY <1>2, <1>5 DEF Inv, Told, Informed, Knows, Counts
<1>7. QED
    BY <1>4, <1>6

LEMMA CrashStep ==
    ASSUME Inv, NEW p \in Procs, Crash(p)
    PROVE  Shape' /\ Told'
<1>1. /\ UNCHANGED <<place, fate, last, row, due, asked, answer, shown, misled>>
      /\ on' = [on EXCEPT ![p] = FALSE] /\ from' = [from EXCEPT ![p] = 0]
      /\ heard' = [heard EXCEPT ![p] = {}]
    BY DEF Crash, Relay!Leave, Relay!log, page
<1>2. \A m \in Notes :
          \/ step'[m] = step[m]
          \/ WriterAt[m] = p /\ fate[m] = "none" /\ step'[m] = "cut off"
    BY DEF Crash
<1>3. \A c \in Clients :
          \/ conn'[c] = Nobody
          \/ conn'[c] = conn[c] /\ conn[c] # p /\ queue'[c] = queue[c]
    BY DEF Crash
<1>4. \A q \in Procs \ {p} : on'[q] = on[q] /\ from'[q] = from[q] /\ heard'[q] = heard[q]
    BY <1>1 DEF Inv, TypeOK, Relay!TypeOK
<1>5. from'[p] = 0 /\ heard'[p] = {}
    BY <1>1 DEF Inv, TypeOK, Relay!TypeOK
<1>6. Shape'
    <2>1. \A m \in Notes : (fate'[m] # "none" => step'[m] = "told") /\ (row'[m] = "unread" => step'[m] # "new")
        BY <1>1, <1>2 DEF Inv, Shape
    <2>2. \A q \in Procs : from'[q] =< last' /\ \A m \in heard'[q] : fate'[m] \in {"visible", "purged"}
        <3>1. last \in Nat
            BY DEF Inv, TypeOK, Relay!TypeOK
        <3>2. \A q \in Procs \ {p} :
                  from[q] =< last /\ \A m \in heard[q] : fate[m] \in {"visible", "purged"}
            BY DEF Inv, Shape
        <3>3. QED
            BY <1>1, <1>4, <1>5, <3>1, <3>2
    <2>3. \A c \in Clients : conn'[c] # Nobody => on'[conn'[c]]
        BY <1>3, <1>4, Connected
    <2>4. QED
        BY <2>1, <2>2, <2>3 DEF Shape
<1>7. Told'
    <2>1. SUFFICES ASSUME NEW c \in Clients, NEW m \in Notes, conn'[c] # Nobody,
                          row[m] = "unread", Informed(c, m)'
                   PROVE  Knows(c, m)'
        BY <1>1 DEF Told
    <2>2. conn'[c] = conn[c] /\ conn[c] # p /\ conn[c] \in Procs /\ queue'[c] = queue[c]
        BY <1>3, <2>1 DEF Inv, TypeOK
    <2>3. Informed(c, m)
        <3>1. step'[m] = step[m] \/ WriterAt[m] # conn[c]
            BY <1>2, <2>2
        <3>2. step'[m] \in {"told", "cut off"} /\ WriterAt[m] = conn[c] => Informed(c, m)
            BY <3>1 DEF Informed
        <3>3. heard'[conn[c]] = heard[conn[c]] /\ from'[conn[c]] = from[conn[c]]
            BY <1>4, <2>2
        <3>4. QED
            BY <1>1, <2>1, <2>2, <3>2, <3>3 DEF Informed
    <2>4. Knows(c, m)
        BY <2>1, <2>2, <2>3 DEF Inv, Told
    <2>5. QED
        BY <1>1, <2>2, <2>4 DEF Knows, Counts
<1>8. QED
    BY <1>6, <1>7

LEMMA PollStep ==
    ASSUME Inv, NEW p \in Procs, NEW n \in Notes, Poll(p, n)
    PROVE  Shape' /\ Told'
<1>1. /\ Signal(p) /\ fate[n] \in {"visible", "purged"}
      /\ UNCHANGED <<place, fate, last, on, from, row, step, conn, due, asked, answer, shown, misled>>
      /\ heard' = [heard EXCEPT ![p] = @ \union {n}]
    BY DEF Poll, Relay!Hear, Relay!log, page
<1>2. /\ \A c \in Clients : queue'[c] > 0 \/ queue'[c] = queue[c]
      /\ \A c \in Clients : conn[c] = p => queue'[c] > 0
    BY <1>1, SignalStep, BadgeAssumption DEF Inv, TypeOK
<1>3. /\ heard'[p] = heard[p] \union {n}
      /\ \A q \in Procs \ {p} : heard'[q] = heard[q]
    BY <1>1 DEF Inv, TypeOK, Relay!TypeOK
<1>4. Shape'
    BY <1>1, <1>3 DEF Inv, Shape
<1>5. Told'
    <2>1. SUFFICES ASSUME NEW c \in Clients, NEW m \in Notes, conn[c] # Nobody,
                          row[m] = "unread", Informed(c, m)', ~ queue'[c] > 0
                   PROVE  Knows(c, m)'
        BY <1>1 DEF Told, Knows
    <2>2. conn[c] \in Procs \ {p} /\ queue'[c] = queue[c]
        BY <1>2, <2>1 DEF Inv, TypeOK
    <2>3. Informed(c, m)
        BY <1>1, <1>3, <2>1, <2>2 DEF Informed
    <2>4. Knows(c, m)
        BY <2>1, <2>3 DEF Inv, Told
    <2>5. QED
        BY <1>1, <2>2, <2>4 DEF Knows, Counts
<1>6. QED
    BY <1>4, <1>5

LEMMA CollectStep ==
    ASSUME Inv, Collect
    PROVE  Shape' /\ Told'
<1>1. PICK n \in Notes : Relay!Expire({n})
    BY DEF Collect
<1>2. UNCHANGED <<place, last, on, from, heard, row, step, conn, queue, due, asked, answer, shown, misled>>
    BY <1>1 DEF Collect, Relay!Expire, Relay!ears, page
<1>3. \A m \in Notes : fate'[m] = fate[m] \/ (fate[m] = "visible" /\ fate'[m] = "purged")
    BY <1>1 DEF Relay!Expire
<1>4. Shape'
    BY <1>2, <1>3 DEF Inv, Shape, TypeOK, Relay!TypeOK
<1>5. Told'
    BY <1>2, <1>3 DEF Inv, Told, Informed, Knows, Counts
<1>6. QED
    BY <1>4, <1>5

-----------------------------------------------------------------------------
(* The pages.                                                              *)
LEMMA ClientStep ==
    ASSUME Inv, NEW c \in Clients, Client(c)
    PROVE  Shape' /\ Told'
<1>1. UNCHANGED <<place, fate, last, on, from, heard, row, step>>
    BY DEF Client, Open, Close, Receive, GetUnreadCount, Show, relay
<1>2. \A b \in Clients \ {c} :
          /\ conn'[b] = conn[b] /\ queue'[b] = queue[b] /\ due'[b] = due[b] /\ asked'[b] = asked[b]
          /\ answer'[b] = answer[b] /\ shown'[b] = shown[b] /\ misled'[b] = misled[b]
    <2>1. /\ conn \in [Clients -> Procs \union {Nobody}] /\ queue \in [Clients -> 0 .. SubBuffer]
          /\ due \in [Clients -> BOOLEAN] /\ asked \in [Clients -> BOOLEAN]
          /\ answer \in [Clients -> SUBSET Notes] /\ shown \in [Clients -> SUBSET Notes]
          /\ misled \in [Clients -> BOOLEAN]
        BY DEF Inv, TypeOK
    <2>2. CASE Open(c)
        BY <2>1, <2>2 DEF Open
    <2>3. CASE Close(c)
        BY <2>1, <2>3 DEF Close, page
    <2>4. CASE Receive(c)
        BY <2>1, <2>4 DEF Receive
    <2>5. CASE GetUnreadCount(c)
        BY <2>1, <2>5 DEF GetUnreadCount
    <2>6. CASE Show(c)
        BY <2>1, <2>6 DEF Show
    <2>7. QED
        BY <2>2, <2>3, <2>4, <2>5, <2>6 DEF Client
<1>3. \/ conn'[c] = Nobody
      \/ conn'[c] = conn[c]
      \/ conn'[c] \in Procs /\ on[conn'[c]] /\ due'[c]
    BY DEF Client, Open, Close, Receive, GetUnreadCount, Show, Inv, TypeOK
<1>4. ASSUME NEW n \in Notes, conn'[c] # Nobody, row[n] = "unread", Knows(c, n) \/ due'[c]
      PROVE  Knows(c, n)'
    <2>1. CASE Open(c)
        BY <2>1 DEF Open, Knows, Inv, TypeOK
    <2>2. CASE Close(c)
        BY <1>4, <2>2 DEF Close, Inv, TypeOK
    <2>3. CASE Receive(c)
        BY <2>3 DEF Receive, Knows, Inv, TypeOK
    <2>4. CASE GetUnreadCount(c)
        <3>1. misled'[c] \/ n \in answer'[c]
            <4>1. answer \in [Clients -> SUBSET Notes] /\ misled \in [Clients -> BOOLEAN]
                BY DEF Inv, TypeOK
            <4>2. n \in Unread
                BY <1>4 DEF Unread
            <4>3. answer' = [answer EXCEPT ![c] = Unread] \/ misled' = [misled EXCEPT ![c] = TRUE]
                BY <2>4 DEF GetUnreadCount
            <4>4. QED
                BY <4>1, <4>2, <4>3
        <3>2. asked'[c]
            BY <2>4 DEF GetUnreadCount, Inv, TypeOK
        <3>3. QED
            BY <3>1, <3>2 DEF Knows, Counts
    <2>5. CASE Show(c)
        <3>1. /\ asked[c] /\ ~ asked'[c] /\ shown'[c] = answer[c]
              /\ UNCHANGED <<queue, due, answer, misled>>
            BY <2>5 DEF Show, Inv, TypeOK
        <3>2. QED
            BY <1>4, <3>1 DEF Knows, Counts
    <2>6. QED
        BY <2>1, <2>2, <2>3, <2>4, <2>5 DEF Client
<1>5. Shape'
    BY <1>1, <1>2, <1>3 DEF Inv, Shape, TypeOK
<1>6. Told'
    <2>1. SUFFICES ASSUME NEW b \in Clients, NEW n \in Notes, conn'[b] # Nobody,
                          row[n] = "unread", Informed(b, n)'
                   PROVE  Knows(b, n)'
        BY <1>1 DEF Told
    <2>2. conn'[b] = conn[b] => Informed(b, n) /\ Knows(b, n)
        BY <1>1, <2>1 DEF Informed, Inv, Told
    <2>3. CASE b = c
        BY <1>3, <1>4, <2>1, <2>2, <2>3
    <2>4. CASE b # c
        BY <1>2, <2>2, <2>4 DEF Knows, Counts
    <2>5. QED
        BY <2>3, <2>4
<1>7. QED
    BY <1>5, <1>6

LEMMA MarkStep ==
    ASSUME Inv, MarkNotificationsRead \/ UNCHANGED vars
    PROVE  Shape' /\ Told'
<1>1. UNCHANGED <<place, fate, last, on, from, heard, step, conn, queue, due, asked, answer, shown, misled>>
    BY DEF MarkNotificationsRead, vars, relay, page
<1>2. \A n \in Notes : row'[n] = "unread" => row[n] = "unread"
    BY DEF MarkNotificationsRead, vars
<1>3. QED
    BY <1>1, <1>2 DEF Inv, Shape, Told, Informed, Knows, Counts

-----------------------------------------------------------------------------
LEMMA InvInit == Init => Inv
<1> SUFFICES ASSUME Init PROVE Shape /\ Told
    BY TypeInit DEF Inv
<1>1. Shape
    BY DEF Init, Relay!Init, Shape
<1>2. Told
    BY DEF Init, Told
<1>3. QED
    BY <1>1, <1>2

LEMMA InvStep == Inv /\ [Next]_vars => Inv'
<1> SUFFICES ASSUME Inv, [Next]_vars PROVE Inv'
    OBVIOUS
<1>1. ASSUME NEW n \in Notes, Handler(n) PROVE Inv'
    BY <1>1, HandlerTypes, StoreStep, TellStep, WriteEventStep DEF Handler, Inv
<1>2. ASSUME NEW p \in Procs, NEW n \in Notes, Poll(p, n) PROVE Inv'
    BY <1>2, ProcTypes, PollStep DEF Inv
<1>3. ASSUME NEW p \in Procs, Start(p) \/ Crash(p) PROVE Inv'
    BY <1>3, ProcTypes, StartStep, CrashStep DEF Inv
<1>4. CASE Collect
    BY <1>4, OtherTypes, CollectStep DEF Inv
<1>5. ASSUME NEW c \in Clients, Client(c) PROVE Inv'
    BY <1>5, ClientTypes, ClientStep DEF Inv
<1>6. CASE MarkNotificationsRead \/ UNCHANGED vars
    BY <1>6, OtherTypes, MarkStep DEF Inv
<1>7. QED
    BY <1>1, <1>2, <1>3, <1>4, <1>5, <1>6 DEF Next

LEMMA Invariance == Spec => []Inv
BY InvInit, InvStep, PTL DEF Spec

(* Every state has its type; in particular no channel holds more than      *)
(* subBuffer events.                                                       *)
THEOREM Typing == Spec => []TypeOK
<1>1. Inv => TypeOK
    BY DEF Inv
<1>2. QED
    BY <1>1, Invariance, PTL

(* A badge that lacks a notification has a reason to be fetched again, or  *)
(* one is on its way, or it is one of the losses the code accepts.         *)
THEOREM NeverSilentlyStale == Spec => []StaleIsNotSilent
<1>1. Inv => StaleIsNotSilent
    <2>1. SUFFICES ASSUME Inv, NEW c \in Clients, NEW n \in Notes, Stale(c, n)
                   PROVE  Signalled(c, n) \/ Coming(conn[c], n) \/ GivenUp(c, n)
        BY DEF StaleIsNotSilent
    <2>2. conn[c] \in Procs /\ row[n] = "unread" /\ n \notin shown[c] /\ step[n] # "new"
        <3>1. conn[c] # Nobody /\ row[n] = "unread" /\ n \notin shown[c]
            BY <2>1 DEF Stale
        <3>2. conn[c] \in Procs
            BY <2>1, <3>1 DEF Inv, TypeOK
        <3>3. step[n] # "new"
            BY <2>1, <3>1 DEF Inv, Shape
        <3>4. QED
            BY <3>1, <3>2, <3>3
    <2>3. CASE Informed(c, n)
        <3>1. Knows(c, n)
            BY <2>1, <2>3 DEF Inv, Told, Stale
        <3>2. QED
            BY <2>2, <3>1 DEF Knows, Counts, Signalled, GivenUp
    <2>4. CASE ~ Informed(c, n)
        <3>1. /\ step[n] \in {"stored", "told", "cut off", "unanswered"}
              /\ fate[n] \in {"none", "numbered", "visible", "failed", "purged"}
              /\ place[n] \in Nat /\ from[conn[c]] \in Nat
            BY <2>1, <2>2 DEF Inv, TypeOK, Relay!TypeOK, Relay!Fates
        <3>2. fate[n] # "none" => step[n] = "told"
            BY <2>1 DEF Inv, Shape
        <3>3. CASE fate[n] \in {"numbered", "visible"}
            <4>1. ~ (place[n] =< from[conn[c]]) /\ n \notin heard[conn[c]]
                BY <2>4, <3>3 DEF Informed
            <4>2. place[n] \in Nat /\ from[conn[c]] \in Nat
                BY <3>1
            <4>3. from[conn[c]] < place[n]
                BY <4>1, <4>2
            <4>4. QED
                BY <3>3, <4>1, <4>3 DEF Coming
        <3>4. CASE fate[n] \in {"failed", "purged"}
            BY <2>4, <3>2, <3>4 DEF Informed, GivenUp
        <3>5. CASE fate[n] = "none"
            BY <2>4, <3>1, <3>5 DEF Informed, Coming, GivenUp
        <3>6. QED
            BY <3>1, <3>3, <3>4, <3>5
    <2>5. QED
        BY <2>3, <2>4
<1>2. QED
    BY <1>1, Invariance, PTL
=============================================================================
