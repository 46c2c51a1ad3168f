\* A user and a thread, three connections, buffers of one event, and polls
\* that break off after any of two events.
\* The bounded supply of events and connections runs out.
SPECIFICATION BusSpec
CONSTANTS
    user = user
    thread = thread
    c1 = c1
    c2 = c2
    c3 = c3
    Conns = {c1, c2, c3}
    Keys = {user, thread}
    Threads = {thread}
    NumEvents = 2
    KeyOf <- MCKeyOf
    WatchedKey <- MCWatched
    Local = {1}
    SubBuffer = 1
    MaxBreaks = 1
    None = None
INVARIANTS NoSendOnClosed NoDoubleReply NobodyPassedOver
PROPERTIES PollerNeverStuck DropIsNotSilence
CHECK_DEADLOCK FALSE
