# Sakuravel backend: TLA+ models and proofs

This directory models the Go backend of Sakuravel (`src/app/backend`), a small
social network: posts, replies, reposts, likes, follows, notifications, and
live updates over server-sent events (SSE).  Several API processes run behind a
reverse proxy and share one MariaDB 10.11 (InnoDB, REPEATABLE READ).  There is no
other channel between the processes: one that causes an event writes a row of
the table `sse_events`, and every process polls that table for its own
subscribers.

The interesting part of this system is what happens between processes, between
a request and the poller, and between two statements of one request.  The
models are about that; formats and wording are left out.

## 1. Inventory

| component | source | state | operations | hard because |
|---|---|---|---|---|
| event log and poller | `internal/notify/{notify,poller,bus}.go` | rows of `sse_events` (id, `created_at`, visibility); per process a cursor | `Publish`, `PublishReply`, `initialCursor`, `pollOnce`, `runPoller` | id, stamp and visibility of a row are three different moments; polls break off; restarts |
| event garbage collector | `internal/notify/gc.go`, `internal/db` | a named lock of the server, held by a connection | `GET_LOCK`, batched `DELETE`, `RELEASE_LOCK` | lock outlives passes and processes; release fails; shutdown |
| hubs and streams | `internal/realtime/hub.go`, `handler/stream.go`, `bus.deliver` | subscribers by key, one bounded channel each | `Subscribe`, unsubscribe, `HasSubscribers`, `Publish`, `streamEvents` | goroutines at one mutex, slow clients, check-then-act in `deliver` |
| notifications | `handler/notification.go`, `like.go`, `user.go`, migration 005 | `notifications`, `likes`, `follows`, `footprints` | `insertNotificationOnce(Retry)`, `createNotificationOnce`, `Like`, `Follow`, the visit of `GetProfile` | deduplication without a unique key, deadlock victims, retries |
| the badge | `deliverNotification`, `Notifications` stream, `GetUnreadCount` | the row, the event, the channel, the count a page shows | store, publish, relay, fetch, mark read | an event may be dropped, late, or in another process |
| reposts | `handler/repost.go`, `post.go: DeletePost` | `reposts`, rows of `posts` that stand for reposts, `notifications` | `Repost`, `UnRepost`, `DeletePost` | three tables in one transaction, row and gap locks, parallel deletion |
| replies and threads | `handler/reply.go`, `handler.go: threadRootID`, `post.go: DeletePost` | `posts.parent_post_id` | `CreateReply`, `ThreadStream`, `DeletePost` | the root of a thread is read, used later, and changes |
| accounts and sessions | `handler/auth.go`, `internal/middleware/auth.go` | `users`, `sessions`, the browsers' cookies | `Register`, `Login`, `Logout`, `Required`, `Optional` | statements without a transaction, answers that come late or never |
| post reads | `handler/handler.go`, `post.go`, `reply.go`, `search.go` | none | `GetThread`, feeds, `fetchPost`, `fetchPostsBulk`, `countReplies` | an answer made of many statements; two algorithms that must agree; depth limits |
| lists of a user | `handler/{notification,footprint,user,like,search,post}.go` | none | `GetNotifications`, `GetFootprints`, `GetFollowers`, `GetLikes`, found users, the other feeds | pages by `OFFSET` over an order that changes |
| start, stop, routes | `cmd/api/main.go` | - | `main`, `routes` | order of bus, HTTP server and shutdown |
| trending, health, logging, seed, proxy, infra | `trending.go`, `health.go`, `logging.go`, `seed`, `proxy`, `infra` | none | one query, a ping, configuration | - |

How they interact: a handler writes its rows, then (after the commit) publishes
a notification to the hub of its own process and writes the event row; the
poller of each process reads the row and calls `bus.deliver`, which looks up the
hub of the same process, fetches the text of a reply, and publishes.  A page
takes an event as a reason to fetch again.  The garbage collector deletes what
is older than the retention.

What makes each part correct, in one line each:

- event log: a log that every process hears in order and without gaps from the
  place it joined at;
- garbage collector: one `DELETE` at a time, the lock never lost for good,
  shutdown not held up;
- hubs: no send on a closed channel, no event lost silently, nobody blocks
  everybody else;
- notifications: one of a kind, delivered once, and only if stored;
- the badge: never stale without a reason to fetch again;
- reposts: three rows together or none, single, no orphans, and every request
  answered;
- threads: who opened a thread hears its replies and no others';
- sessions: nobody acts as an account they did not prove, or after a logout;
- reads: an answer assembled from many statements drifts by no more than was
  written meanwhile.

## 2. Modules and the code they model

| module | code | actions |
|---|---|---|
| `EventBus` | `notify.go`, `poller.go`, one `DELETE` of `gc.go` | `BeginInsert`, `AssignId`, `Commit`, `Fail` are the moments of one `INSERT`; `Start` is `initialCursor`; `PollOk`, `PollError` the query of `pollOnce` (all rows, or those before the error); `Deliver` hands one row to `bus.deliver`; `PollEnd` sets the cursor in `runPoller`; `Stop` is a crash or a shutdown; `Purge` one `DELETE`; `Tick` the clock |
| `FanOut` | what `internal/notify` promises | abstract: events `Enter`, `Appear`, `Cancel`, processes `Join`, `Hear`, `Leave`, old events are dropped from the front.  No clock, cursor, batch or poll |
| `EventGC` | `gc.go`, the pool of `db.go` | `TakeConn`, `GetLock`, `GiveUp`, `LockFails`, `BeginDelete`, `EndDelete`, `DeleteFails`, `Release`, `ReleaseFails`, `LoseConn`, `Cancel`, `ReleaseTimesOut`, `SigTerm`, `Exit`, `Crash`, `Restart`; on the server `OrphanDeletes`, `EndSession`, `FallSilent`, `SpeakAgain` |
| `StreamHub` | `hub.go`, `bus.deliver`, `deliverNotification`, `streamEvents` | `LockAndList`, `Send`, `Unlock` are `Publish` under the mutex; `DeliverBegin`, `Hydrated`, `HydrateFails`, `HydrateGivesUp`, `DeliverEnd` the bus; `PollEnds` moves the cursor, `PollBreaksOff` keeps it where it is, so that what was handed over is handed over again; `LocalBegin`, `LocalEnd` the handler; `Subscribe`, `Take`, `Wrote`, `Unsubscribe` one connection |
| `Badge` | `notification.go`, `stream.go`, the composition | `Store`, `Tell`, `WriteEvent` of the handler, `StoreUnanswered` when the row is stored and its answer lost; the relay is `Relay == INSTANCE FanOut`, stepped by `Poll`, `Start`, `Crash`, `Collect`; `Open`, `Receive`, `GetUnreadCount`, `Show`, `Close` of a page; `MarkNotificationsRead` |
| `RepostTx` | `repost.go`, `post.go: DeletePost`, migrations 003 and 006 | one action per statement of `Repost`, `UnRepost`, `DeletePost`, from the look-up to the final count; `Victim`, `Abort`, `CommitLost`, `LookupFails`, `CountFails` the failures.  Copies and notifications share gaps with their neighbours in the index, as in `NotifyOnce`.  `server` says whether gap locks are taken and whether copies have their unique key |
| `NotifyOnce` | `notification.go`, `like.go`, `Follow`, the visit in `GetProfile` | `Check`, `WriteDeed`, `WriteUndo`, `Count` in the handler; `SeekNote` and `InsertNote` the two halves of `INSERT .. SELECT .. WHERE NOT EXISTS` with InnoDB's shared gap lock; `Victim`, `PauseEnds` the retry; `Deliver` |
| `ThreadKeys` | `CreateReply`, `threadRootID`, `ThreadStream`, `DeletePost` | `ReadAuthor`, `ReadRoot`, `InsertReply`, `NotifyAuthor`, `PublishReply` in the order of the handler, each with its failure; `Resolve`, `SubscribeThread`, `CloseStream` the viewer; `Deliver`, `GiveUp` the bus |
| `Sessions` | `auth.go`, `middleware/auth.go` | `SignIn`, `Ask` a browser that sends with the cookie it has; `Auth`, `Work` the middleware and what it lets through; `InsertUser`, `Lookup`, `InsertSession`, `Delete` the statements of `Register`, `Login`, `Logout`; `Answer` (which may be lost), `Expire`, `Forget` |
| `PostReads` | `GetThread`, `fetchReplyTree`, `fetchPost`, `fetchPostsBulk`, `countReplies` | one action per statement of `GetThread` (`FetchSubject`, `FetchAncestor`, `ListReplies`, `FetchReply`, `ReturnLevel`, ..., each with its failure), between `CreatePost` and `DeletePost` of others; the recursion of `fetchReplyTree` is a stack of the ids each call still has to fetch.  `Single` and `Bulk` are the two ways to build a post, as functions of one snapshot |
| `Lists` | `GetNotifications`, `GetFootprints`, the feeds of `GetTimeline`, `GetUserPosts`, `searchPosts`, `searchUsers`, `GetFollowers`, `GetFollowing`, `GetLikes` | a list is the set of its entries (`table`) and the pairs of them in their `order`; `ListPage`, `LoadRows`, `CountUnread`, `CountTotal`, `NextPage`, `EndOfList` of a reader; `Notify`, `Visit`, `Join`, `JoinFeed`, `Leave`, `MarkNotificationsRead` of writers |

`EventBusProofs` (with `EventGC`), `StreamHubProofs`, `BadgeProofs`,
`RepostTxProofs`, `NotifyOnceProofs`, `ThreadKeysProofs`, `SessionsProofs` and
`ReadsProofs` (of `Lists` and `PostReads`) hold the proofs.  `MC*` modules give the constants their values for TLC, and the
`.cfg` files name the bounds.  An operator that stands just above another of a
similar name (`ReadableAtOnce` above `Readable`, `OneTryLess` above `TriesAgain`)
is the form a plausible mistake would give it: `PROJECT.json` lists, for each
property, the one that makes it fail.

What is external and modelled from its use: InnoDB (locks on index records and
gaps, deadlock detection, AUTO_INCREMENT, autocommit, cascades), `GET_LOCK`,
Go's mutex and channels, browsers with their cookies and `EventSource`, and the
client that reads a list to its end.

How the modules fit together.  `EventBus` implements `FanOut` (property
`ImplementsFanOut`, theorem `Refinement`): the place of an event is its id, its
fate that of its row, and a process has heard what its poller has handed to
`deliver`.  `Badge` is built on `FanOut` alone, so what is shown of it holds of
the bus as far as the bus is a `FanOut`: under `LagAssumption`, and not in the
executions `bus_stamps` finds, in which an event is passed over for good.
`EventBus` hands an event to `deliver`, where `StreamHub` takes it up;
`Badge` needs of a hub only that a full channel is itself a reason to fetch
(`StreamHub!DropIsNotSilence` is about that).  `NotifyOnce` and `RepostTx` end
where a handler delivers a notification, where `Badge` begins; `ThreadKeys`
abstracts the bus to an ordered log with one reader.

## 3. Runs, bounds, and what they show

| run | instance | shows |
|---|---|---|
| `bus` | 1 process, 3 events, batches of 2 | with the timing `pollLag` assumes, a cursor never passes an event that may still appear; nothing is handed over twice unless a poll failed; the relay implements `FanOut`; every committed event reaches a process that stays up; through failing polls, holes in the ids, purging, crashes |
| `bus_stamps` | 1 process, 2 events | **violated**: ids drawn in another order than `created_at` |
| `gc` | 2 processes, 2 sessions, 3 rows, 2 failures | one `DELETE` at a time; the lock comes free and the table empty again and again, unless the database is silent for good; `bus.Wait` returns even then |
| `hub` | 3 connections, 2 events, buffers of 1, polls that break off behind each event once | no send on a closed channel, a reply sent once, and once more only for each poll that broke off behind it, nobody who is subscribed passed over, the poller never stuck, a dropped event is not silence for a client that reads |
| `badge` | 2 notifications, 2 processes, 1 page, buffers of 1, 1 trouble | a badge that lacks a notification has a signal coming, and catches up, but for what `GivenUp` names |
| `repost` | 3 users, 1 post, 3 requests, 1 failure, both kinds of server | the rows of a repost together, single and without orphans; first reposts of a post by one user, all at once, never end in 500; every step takes a request nearer to its answer |
| `notify` | 3 keys of the index, 3 requests, 2 attempts, 1 failure | one notification, delivered once, stored before it is told; conflicts of two writers never cost one as long as a pause outlasts the rival's INSERT; every request is answered |
| `threads` | all forests of 2 posts, 2 replies, 1 viewer, 2 failures | who opened a thread hears it while only roots and leaves are deleted; no viewer gets another thread's reply; the author of a deleted parent is notified |
| `threads_deaf` | the same without failures | **violated**: a post inside the thread is deleted |
| `sessions` | 2 browsers, 3 requests, 3 forms that clash, 1 failure, any answer lost | acting only as a proven account, never after a logout, and no refusal without a cause |
| `reads` | all tables of up to 4 posts, 2 levels of thread, 1 of reposts, 2 writes | a thread misses nothing that was there all along and hangs together with the post; a deletion leaves no repost without its original; lists and single posts agree |
| `lists` | lists of up to 4 entries, pages of 2, 3 writes | a list read to the end misses no more than left its place and repeats no more than came, whatever is listed; it shows what the badge counts, but for what came or went |

Why these bounds are enough.  Events: a gap needs two events out of order, a
third fills a batch.  One process is enough for `bus`, since pollers share
nothing but the table, and `Refinement`, `NoEventLost` and `NoRedelivery` are
proved for any number; what liveness of one poller needs is its own steps.
`EventGC`: two contenders and the session one of them leaves behind.  `RepostTx`:
two transactions deadlock, a third takes advantage of the rollback, and with a
third user two reposts meet in one gap of copies or notifications.  `NotifyOnce`: three keys are one gap with a neighbour on
either side; two attempts scale `notifyInsertAttempts`.  `ThreadKeys`: two replies
below two posts make a thread of four levels, with a gap above a reply above a
reply.  `Sessions`: a session has a login, a logout and a request that meets
them, or two sign-ins that clash and a third.  `StreamHub`: two events fill a
buffer of one, and three connections are two at one key and one at the other.
`Badge`: two notifications fill a buffer of one; the page opens its stream at the writer's process or the other.
`PostReads`: 50 is scaled to 2 and 1 for the depths, so that every limit is met
by tables of four posts.  `Lists`: four entries are two
pages, the smallest list with a boundary and room on both sides of it.  Every
bound is a constant (`MaxFaults`, `MaxWrites`, `MaxTroubles`, `NumEvents`, ...) or the
finite set of requests; ages saturate at `Retention + 1`, the largest the code
can tell apart.

Fairness.  `EventBus`: the clock runs, an INSERT that began ends, a live poller
goes on, and a poll succeeds now and then (strong fairness: the ticker fires
again after every failure, `runPoller`).  `PollBound` keeps a live poller from
lagging by more than the retention; without it the collector may delete what was
not read, which is what `NOTIFY_RETENTION_SEC` is dimensioned for.  Only
`EventuallyDelivered` rests on it, the theorems do not.  `EventGC`: a pass goes
on where it is answered, cancelled or timed out (the database may fall silent, and
need not speak again), a process is restarted once the database answers, the server ends the sessions of the dead, and
`SetConnMaxLifetime` takes a pooled connection away in the end (strong fairness,
as it may be out of the pool each time).  `StreamHub`: bus and handlers go on;
connections need not, except in `DropIsNotSilence`, which is about a client that
reads.  `Badge`: a handler goes on, a poller that stays up comes to every event,
an open page reads its stream and fetches when it has a reason.  `NotifyOnce`:
handlers go on and InnoDB resolves deadlocks.  There is no fairness for clients
that open or close, failures or deletions.  `RepostTx` states no fairness at
all: `OnlyForward` says that every step takes one request to a later statement or
to its only retry, and TLC, which checks for deadlock there, finds that the steps
never run out before all are answered; with finitely many requests that is
termination.  `CHECK_DEADLOCK FALSE` stands only where a bounded supply of
requests, connections or writes runs out.

On `repost`: a repost is a row of `reposts`, a row of `posts` (the copy) and a
notification.  `server` is chosen at the start: REPEATABLE READ with gap locks and
no unique key on copies (a database older than migration 003), or READ COMMITTED
with it.  `RepostShown` holds under the first only, and is stated so.

On `notify`: between two attempts a request sleeps for some milliseconds, and
nothing orders the end of that sleep with the end of the INSERTs that were under
way.  `hasty` records that a request tried again before they had ended;
`ConflictsCostNothing` is stated for executions without it, which is a timing
assumption about the database, and the other properties for all.

On `badge`: what the code gives up is named in `GivenUp`: a count that failed and
was answered as 0, a row that was stored although its `INSERT` or `COMMIT` came back
with an error (the handler then publishes nothing, to its own process neither), an event the other process never wrote (`Publish` failed or
the process died in between), an event deleted before a poller came to it.

Every module's type invariant is a theorem.  `reads` and `lists` check theirs with
TLC too, where it says more than types: that a cascade takes all it must along,
and that what leaves a list leaves its order.

## 4. Findings

- `bus_stamps` (code bug).  `poller.go:21` holds back rows by `created_at`, and the
  cursor goes by `id`.  `created_at` is when the statement starts, the id is drawn
  later, and nothing orders the two across connections.  If the row with the
  smaller id has the later stamp, a poll may read the larger id alone and move
  the cursor past the smaller one.
- `threads_deaf` (documentation).  `docs/api.md:36-37` promises the replies of the
  thread whatever level is named.  After a post inside the thread is deleted, the
  replies below are published under its id (`handler.go:359-360` says so), while
  connected viewers hold the root.

Seen on the way, without a run: the INSERT of an event row may take
`relayWriteTimeout` (5 s), longer than `pollLag` (200 ms), so `InsertSpan =< PollLag`
is an assumption about the database and not about the code.  A poll that breaks
off after some rows delivers them again the next time, by design; a reply among
them reaches a stream twice, which `reply.go:77-79` says must not happen (`repeats`
in `NoDoubleReply` counts these).  Three or more
writers in one gap of the notification index can exhaust `notifyInsertAttempts` by
bad timing, and so can two when the rival is slower than every pause;
`ConflictsCostNothing` is about two, and pauses that suffice.  Reposts of one post by
several users can be each other's deadlock victims in the gaps of copies and
notifications, and with one retry (`repost.go:43-48`) end in 500; so can
concurrent reposts by one user whose copy alone was deleted, which all find the
duplicate and meet at the INSERT of the copy, against `repost.go:144-146`.
`LosersSucceed` is about first reposts by one user.  The comment at `repost.go:28`
knows no foreign key; migration 006 has one, and the code handles its error.
Reading all notifications and marking them read are two requests: what arrives in
between is marked without having been listed.  A chain of reposts longer than 50
is cut by lists and not by `GET /posts/{id}`, against the comment at
`handler.go:169-171`; `SameAsSingle` is stated up to the limit.  An open stream
outlives its session, for nothing asks again after the middleware.

## 5. Proofs

TLC checks the instances above.  TLAPS proves, for all values of the constants:

| module | theorem | states |
|---|---|---|
| `EventBusProofs` | `NoEventLost`, `DeliveryGapFree`, `PurgeFromFront` | `LagAssumption => (Spec => []..)` for `CursorPassesSettled`, `GapFree`, `PurgedPrefix` |
| | `NoRedelivery` | `Spec => []AtMostOnce` |
| | `Refinement` | `LagAssumption => (Spec => FO!Spec)`: the bus implements `FanOut` |
| | `OneDeleteAtATime`, `DeletesUnderLock` | `OneDelete`; and the session of a running `DELETE` has the lock |
| `StreamHubProofs` | `NeverOnClosed`, `RepliesOnce`, `NobodyLeftOut` | `NoSendOnClosed`, `NoDoubleReply`, `NobodyPassedOver` |
| `BadgeProofs` | `NeverSilentlyStale` | `StaleIsNotSilent` |
| `RepostTxProofs` | `EachOnce`, `NothingHangs`, `CopiesHaveReposts`, `RepostsHaveCopies` | `OneOfEach`, `NoOrphans`, `NoStrandedCopy`, `RepostShown` |
| | `RepostsAloneSucceed` | `LosersSucceed` |
| | `WithItsRepost`, `NoRequestForever` | the action properties `CommittedTogether`, `OnlyForward` |
| `NotifyOnceProofs` | `NoSecondNote`, `NobodyToldTwice`, `AnnouncedIsStored` | `OneNote`, `ToldOnce`, `ToldIsStored` |
| | `TwoLoseNothing` | `Attempts >= 2 => (Spec => []ConflictsCostNothing)` |
| `ThreadKeysProofs` | `AllMeet`, `KeysApart`, `AuthorAlwaysTold` | `AllHearWhileIntact`, `NoCrossTalk`, `AuthorTold` |
| `SessionsProofs` | `OnlyOwnAccount`, `EndedForGood`, `NoIdleRefusal` | `ActsAsProven`, `NoActAfterLogout`, `RefusedForCause` |
| `ReadsProofs` | `FewMissed`, `FewRepeated`, `BadgeIsShown` | of `Lists`: `MissedAtMostLeft`, `RepeatedAtMostCame`, `BadgeWasShown` |
| | `ThreadWhole`, `ShownAlike` | of `PostReads`: `ThreadComplete`, `SameAsSingle` |

and in each module a theorem of its types.  What they assume are the named
assumptions on the constants (sizes are positive, sets of requests are finite)
and, in the three places where it says so, `LagAssumption`: `OrderedStamps /\
InsertSpan =< PollLag`, the two things `pollLag` silently relies on; `bus_stamps`
shows the first one is needed.

The bus.  `CursorPassesSettled` is not inductive: whether a cursor may move to
`next` depends on rows that are not visible yet.  The invariant adds, for the
table, `StampOrder` (a larger id is never older) and `Young` (an unfinished INSERT is
not older than `InsertSpan`); together they say that below a row old enough to be
read, no INSERT is unfinished.  With `LowestPrefix` (`ORDER BY id LIMIT n` takes a
prefix) this gives `ReadLeavesNothing`, the heart of the proof.  For a poller the
invariant follows one poll: `Batched` (below a row of the batch all is in the batch
or settled), `Reached` (so it is below `next`), `Passed` (so it is below the cursor).
`PurgedPrefix` is needed since a purged row is settled without having been
delivered.  The refinement maps each step to a step of the log or to a stutter:
delivering is `Hear` the first time and a stutter when it is repeated; that nothing
with an earlier place may still appear is `Passed` and `Batched` once more.

The collector (in `EventBusProofs` too).  What has to be ruled out are two server sessions with a `DELETE`.
`Deleting` says where the lock is while one runs, also when the client that
started it has died; `ConnTaken` and `Holding` tie connection, pass and lock together;
`Depth` counts how often a re-entrant lock was left behind.

The hubs.  `Locked`: between listing the subscribers and the last send, the
publisher has the mutex that closing needs.  `Counted`: an event is in a channel,
in a write and in what was received at most once for every publisher that is
past it and every poll that broke off behind it, and a reply has no publisher but
the poller.  `Owed`: a subscriber the
poller saw is served or among its targets.

The badge.  A page is informed of a notification when its process has published
it, heard it, or joined the log past it; then it `Knows`: an event in its channel,
a fetch due or one under way that counts it.  The argument is over every way of
being informed, the start of a process included.

The reposts.  The locks are the argument.  `Exclusive` says they exclude, `Mine`
what a transaction has locked for what it has written, and `Fits` what it may
therefore rely on until it ends.  The tables' own invariant counts as stored both
what is not yet committed and what is deleted but may return (`Stored`); it
survives a rollback of anyone because a copy may lean on an uncommitted repost
only if it goes with it (`Paired`), and a commit because an `UnRepost` that goes
for the repost has the copy too (`Alone`).  The same argument, without gap locks
for the searches, gives what READ COMMITTED and the unique key still guarantee.

That a burst of first reposts by one user never ends in an error (`LosersSucceed`) is
a claim about deadlocks that must not be.  All lock the row of `reposts` first; who
finds it taken waits there and holds nothing that another needs, and comes to a
copy that is there already when its turn comes.  So only the one whose row went in
ever locks a gap exclusively (`OnlyLeaderShuts`).  `PeaceInv` says so as long as
nothing else ran and nothing failed; how gaps are shared does not matter to it.

The notifications.  `OneNote` rests on `GapIsMine`: who is past the search holds a
lock on a gap that contains its key, so no one else has inserted there since.  A
lock is on a gap of the index as it was at the search, and an INSERT by another
into the same gap waits.  `ToldOnce` needs that a delivered notification is stored
or went with its post, so no later request inserts it anew.  Of two
writers the one that is rolled back pauses with the other's INSERT ahead of it,
which waits for nobody any more; unless the pause is too short for that INSERT, it
finds nothing left that could block it when it tries again: it
is rolled back once at most (`RolledBackOnce`, `TwoInv`), and `ConflictsCostNothing`
holds from two attempts on.  `notifyInsertAttempts` is 5.

The threads.  The root of a post is a recursive function over ids.  Parents have
smaller ids (`Downward`), so claims about all posts are shown for the least id at
which they would fail (`Least`); this takes the place of a rule of induction.
`Keyed` says that every key in use is a post of the right thread, which is
`NoCrossTalk`; `Heard`, that while only roots and leaves have gone every key is the
very root.

The sessions.  A cookie can only be one the server has sent to that browser, and
a row of `sessions` never changes its account (`Good`); a session that is expired
or deleted stays so, therefore what was ended before a request was sent lets
none in.

The lists.  What a client will still be shown is what is behind the last cut of a
page (`Rest`).  A write moves at most one entry across that cut in either
direction (`Removal`, about places in a strict order, for any size of the list),
so entries that are missed or repeated are paid for one by one by the writes that
`left` and `came` count (`MissedSoFar`, `RepeatedSoFar`).  The end needs that no
place of a list is empty (`AtLeastFirst`): when `total` says there are no more
pages, nothing is behind the cut.  The writes that come after the last count do
not matter, since pages are cut before it.  What the badge counts was there at the
start, and then `MissedAtEnd` is about it, or came since (`BadgeSoFar`).

The threads as they are read.  A post that was there all along never changes, so
the chain of ancestors stays linked whatever others do (`Linked`), and it ends at
the limit or at one that is gone (`WentUp`).  For the replies, each one that is
owed is in the answer, or on the stack of `fetchReplyTree`, or its parent is the
next whose replies are listed (`WentDown`); at the answer there is neither.

One post and many.  `fetchPost` recurses over statements, `fetchPostsBulkDepth` over
calls, and the counts inside each over rows; all are recursive functions of one
snapshot.  Rows refer to earlier ones (`Backwards`: only `CreatePost` writes a
reference, and to a row that is there), so each function can be built up to any bound
and is what its body says (`SingleIs`, `BelowIs`, `RowsFromIs`, `BulkDepthIs`).
A row is found by `applyRepliesCount` at the latest in as many steps as its id
says, so both ways count the same (`RowsAreBelow`, `CountsAgree`); with as many calls
left as there are reposts to follow, the two posts are the same (`BulkIsSingle`).
Induction is again over the least number at which a claim would fail (`FromZero`,
`FromBelow`, `FromAbove`).

Only model-checked: liveness and everything under fairness (the prover does not
handle ENABLED).

## 6. Not modelled

Trending is one query without pages; health check, request logging, wording,
configuration, the seed generator, the proxy and the infrastructure keep no state
of the system.  Within modelled parts: bcrypt and the drawing of session tokens
are taken as they promise, and bodies that are malformed are refused before
anything happens.  `GetMe` and other single reads of a user are left out, names and
texts too.  Reposts of reposts are data of `PostReads`, not rows of `RepostTx`.
Users are never deleted, as no handler does it.  READ COMMITTED is modelled in
`RepostTx` only; elsewhere the server's default, REPEATABLE READ, is assumed.
Every `ORDER BY` of the lists ends in an id, so `Lists` orders rows
totally.  That a reply tree with a failed statement, or a failed count, is answered
with status 200 is modelled and excepted from the properties: the code means it so.
