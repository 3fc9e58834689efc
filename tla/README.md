# Sharpline in TLA+

Sharpline ingests sports odds, prices them and streams them to browsers and programs.
This directory specifies the parts of it whose correctness depends on the order in which
things happen, model-checks them with TLC, and proves what matters most about them with
TLAPS. Paths below are relative to the repository root.

    cmd/ingest   provider ─▶ poller ─▶ odds.raw ─▶ normalizer ─▶ odds.normalized ─▶ writer ─▶ Postgres
    cmd/pricer                                                   odds.normalized ─▶ pricing ─▶ price.computed
    cmd/stream   price.computed ─▶ slate + hub ─▶ one connection per client ─▶ web client, Go SDK
    cmd/api      HTTP API: auth, catalogue, account                             (Postgres, Redis)

## 1. Inventory

The parts, their state, how they interact, and what makes each correct. Those marked ●
are modelled, ◐ partly, ○ not (section 8).

● **Slate** (`internal/wsgw/state.go`, `channel.go`). State: the latest document of each
market, and two indexes over them, by event and by league. Operations: `Fold` a record
of the compacted topic, `Snapshot` a channel. Every caller is in one process and takes
the store's lock. Correct when the indexes never drift from the documents while markets
are re-keyed, deleted and created again, when an older record never replaces a newer
one, and when the publish path and the snapshot path agree on which markets a channel
has.

● **Connection** (`internal/wsgw/conn.go`, `sequence.go`). State: a bounded send queue,
the next number, the flags and channels by which five goroutines (write loop, ping loop,
closer, read loop, and the hub that publishes) end each other. Hard: an overflow empties
the queue while the write loop keeps taking from it, so what is lost is not known in
advance; four goroutines wait for one another at the end. Correct when numbers arrive in
order, a loss is always announced, a clean close drains, nobody waits in a circle, and
nothing runs after the teardown.

● **Hub** (`internal/wsgw/hub.go`, `server.go`). State: the routing table, the live set,
each connection's channels, the closed flag. Operations: publish, register with restore,
subscribe, unsubscribe, resync, unregister, shut down. The slate's lock is the hub's
lock for publication and registration; subscribe and resync take it twice. Correct when
the routing table equals what connections hold, the limit holds although it is checked
before it is used, a snapshot and the deltas around it leave no window, and the shutdown
misses nobody.

◐ **Web stream client** (`web/src/lib/ws/client.ts`, `store.ts`, `provider.tsx`). State:
expected number, status, wanted channels, the slate on the page. It survives gaps,
overflow, reconnection and its pages changing their minds. Correct when a settled page
shows exactly the slate, does not claim to be resyncing, and never shows an older price
after a newer one.

◐ **Go SDK** (`pkg/client`). A stream client with a goroutine of its own and callers
that amend, read and close it from theirs; and a session whose single refresh token is
rotated behind a mutex held across the round trip. Correct when every number is handed
on or told as a gap, no socket outlives the stream, `Close` returns; when a refresh
token is presented twice only if its answer was lost, a logout is final, and an unsafe
call acts once.

◐ **Presence** (`internal/wsgw/redispresence`, and the hub's calls of it). State: in
Redis, a set of channels for each session and two counters for each replica, all with an
expiry. Replicas share the sets, and die without cleaning up. Correct when a session
never holds more than the cap, can be resumed for as long as promised, and nothing is
left behind for ever.

◐ **Ingest polling** (`internal/ingest/scheduler`, `internal/ingest/ingest.go`). State:
the schedule of leagues, one runner goroutine per league, a token bucket and a period
ledger shared by all of them, the poller's digests and publication instants, the topic.
Hard: a league can leave and return while its old runner is still under way; a publish
can fail half way; credits are shared; the process stops in the middle. Correct when
only content that is on the bus is suppressed, a period's credits are not overdrawn, and
the final flush is last.

◐ **Kafka delivery** (`internal/platform/kafka`). A group consumer: batches, marks,
commits, rebalance callbacks, two policies for a record whose handler failed. Two
readers without a group, of compacted topics: the follower, which replays and stays, and
the snapshotter, which stops at the ends it listed. Correct when no offset is committed
past a record nobody handled, no commit rewinds, and a replay that calls itself complete
is.

● **Normalizer** (`internal/ingest/normalizer`). The handler of the group on `odds.raw`:
it suppresses what has not changed and publishes the rest to a compacted topic. State:
per process, the last content of each market, rebuilt from that topic. Correct when
nothing that was handled is missing from the topic, whoever crashed or was expired in
between, and no market of the topic gets older.

● **Writer** (`internal/ingest/writer`). The handler of the group on `odds.normalized`:
one transaction a record, of upserts from sport down to selection and inserts of quotes.
Two of them may write the same rows. Correct when the newest observation wins, a quote
is stored once, nobody waits in a circle.

◐ **Pricing** (`internal/pricing`). The handler of the group that prices a market.
State: what each replica last published, by fingerprint and engine revision, rebuilt
from `price.computed`. Correct when the price shown is that of the newest input and
never goes back, and a deleted market's price is deleted.

◐ **Auth** (`internal/auth`). State in Postgres and Redis: families of refresh tokens,
the password, the second factor, the steps of codes already used. Operations, each
several statements: login, redemption, logout, password change, enrolment, confirmation,
verification. Correct when a token is redeemed once, an end that was answered is an end,
a changed password evicts, and a code is good once.

◐ **Domain** (`internal/domain`, `migrations/00006_wagers_and_ledger.sql`). The life of
a wager and its legs, amounts in minor units, round robins, double-entry postings; and
the checks and triggers that restate the same rules. Correct when the two agree, a
settlement is posted once and money is conserved.

◐ **HTTP API** (`internal/httpapi`). Mostly one read and its mapping. Two parts span
requests: a change of a self-imposed limit, and the pages of the board and the search.
Correct when one limit is open and its trail tells what happened; when a walk shows each
event once.

○ **Providers**, **odds mathematics**, **pricing engine**, **domain catalogue**, **HTTP
middleware**, **HTTP API reads**, **web application**, **rate limiter**, **Postgres and
migrations**, **process shell**, **auth cryptography**, **Kafka producer**, and the
packages that are empty at this commit (`betting`, `market`, `settlement`, `flink`).

`PROJECT.json` repeats this list with the sources and the reason for every part left
out, and lists under `hazards` what is hard to test in each, at its line, with the
properties that speak of it.

## 2. Modules

| module | what it is | code |
|---|---|---|
| `Slate` | the store: `Fold` and its five outcomes, both indexes, snapshots | `state.go`, `channel.go` |
| `Conn` | one connection: queue, overflow, goroutines, teardown | `conn.go`, `sequence.go` |
| `FrameStream` | the abstract promise of a connection to its client; `Conn` implements it | what numbering, `enqueue` and `writeLoop` add up to for a client |
| `Gateway` | `Slate` with the hub and several connections, each reduced to what `Conn` shows of it | `hub.go`, `server.go`, `options.go` |
| `BoardClient` | `Gateway` with a browser that uses one connection after another | `client.ts`, `store.ts`, `provider.tsx` |
| `StreamClient` | `Gateway` with the SDK's stream in its place | `pkg/client/stream.go` |
| `Keeper` | the SDK's session under several goroutines, and the family on the server | `session.go`, `client.go` |
| `Presence` | the scripts and transactions of Redis, and what each replica's hub does with them | `redispresence`, `hub.go` |
| `Sweeps` | planner, league runners, budget, poller, topic | `scheduler.go`, `budget.go`, `ingest.go` |
| `Delivery` | a consumer group: poll, handle, mark, commit, rebalance, stop | `kafka/consumer.go` |
| `Normalizer` | `Delivery` with the change detector as its handler, and the topic it writes | `normalizer`, `cmd/ingest` |
| `Replay` | follower and snapshotter over a compacted log | `kafka/follower.go`, `snapshot.go` |
| `LineWriter` | the writer's transactions, row by row | `ingest/writer` |
| `Pricer` | the service around the pricing engine | `pricing/service.go` |
| `Sessions`, `SecondFactor` | the account, statement by statement | `auth/service.go`, `enrolment.go`, `pgstore`, `redisguard` |
| `Money`, `RoundRobin` | amounts in a machine word; the combinations of a round robin | `money.go`, `wager.go` |
| `Tickets` | copies of a wager in memory against its rows and their triggers | `wager.go`, `leg.go`, `ledger.go`, migration 6 |
| `Limits` | a change of a limit, statement by statement, against another | `httpapi/account.go`, `pgstore` |
| `Pages` | a walk through a listing with cursors, while ingest writes | `board.go`, `pgstore` |
| `MCStores`, `MCGoroutines`, `MCAuth`, `MCGateway`, `MCBoard`, `MCStream`, `MCFeed`, `MCTickets`, `MCReplay`, `MCPages` | small instances for TLC | |
| `GatewayProofs` (with `Slate`), `GoroutinesProofs` (with `Conn`, `Sweeps` and `Keeper`), `FeedProofs`, `StoresProofs`, `AccountProofs`, `ReplayProofs`, `StreamProofs` (with `StreamClient`), `BoardProofs` (with `BoardClient`) | the theorems and their proofs | |

Composition is by extension: `BoardClient` and `StreamClient` ⊃ `Gateway` ⊃ `Slate`,
`Normalizer` ⊃ `Delivery`, `Tickets` and `RoundRobin` ⊃ `Money`. `FrameStream` is an
abstraction, reached from `Conn` by `INSTANCE ... WITH`. `MCStores`, `MCGoroutines` and
`MCAuth` put systems that share nothing side by side: a behaviour is of one of them
(`store`, `process`, `half`), with the others at rest, so that their state spaces add
and do not multiply.

Definitions named `X_Something` above an `X` are plausible mistakes in the code `X`
models. No specification uses them: each is the variant under which a property named in
`PROJECT.json` must fail, which shows that the property depends on that code.

### How state and actions correspond to the code

*One critical section, one statement or one script is one action.* `Store` and `Hub`
share a write lock, so `Gateway!Publish` is a fold and its whole fan-out, and `Register`
the hello, the routes and every snapshot. `subscribe` and `resync` take the lock twice
and are two actions (`ClassifySubscribe`/`AttachSubscribe`, `PickResync`/`AttachResync`)
with a `job` in between. I/O (the restore from presence, the handshake) is a step of its
own. In `Sessions`, `SecondFactor` and `Limits` a request is at one SQL statement or
transaction after another, and may fail or vanish between two; in `Limits` and
`LineWriter` a row lock is held to the end of the transaction and the one who waited
decides on what the other left (READ COMMITTED).

*The overflow is not one action.* In `Conn`, an `enqueue` that fits is atomic under
`c.mu`; one that does not is `Overflows`, then any number of `DiscardOne` between which
`WriterPop` may run, then `QueueResync`, because `discardLocked` receives from a Go
channel that the write loop also receives from. In `Gateway` the whole overflow is one
action that keeps an arbitrary subset of the queue for the write loop (`Discard(l,
keep)`), in queue order, which is what `Conn` may leave behind. A connection whose write
loop has not started keeps none.

*Goroutines are program counters.* `writer`, `pinger`, `closer`, `reader` and `hub` in
`Conn`, `runner[r]` in `Sweeps`, `at`, `call[g]` and `closer` in `StreamClient`, `call[c]` in
`Keeper`. A `select` is a disjunction. `requestClose` is a `sync.Once` whose losers
wait: `asking`, `TakeClose`, `SignalQuit`.

*Data is abstract.* A frame has a number and a kind (in `Gateway` also the channel and
the market entry it carries); a document is its instant, its payload and the event and
league it is routed to; a poll answer maps events to the content of their markets. A
record `Fold` cannot hold (undecodable, invalid, mis-keyed, unrouted) is a `refused`
delivery: the outcome is the same. Raw records of a partition have instants that grow
with the offset, so `Normalizer` takes the offset for the instant. Time is abstract: a
timer may fire whenever it is armed, and where instants are compared they are small
numbers.

*What other parties may do.* The group coordinator of `Delivery` assigns a partition to
one member, may drop a member at any moment and then refuses its commits; a member
learns of it later (`Loses`). The broker of `Replay` appends, and removes a record once
a later one of its key is there. Redis may take a call and lose its answer. The server
of `Keeper` rotates, detects reuse and ends a family; its answer may be lost.

The topic `Normalizer` writes is not compacted yet (`trail`): a warm read that fails may
have got to any version of each market, or to none (`Partial`), and leaves it in memory.
Nor is the one `Pricer` writes (`versions`).

*The browser is one thread.* A message with everything its listeners do is one action
(`Message`); so is an acquired channel or the timer that releases one (`Wants`).

*Histories.* What a property relates to the past is kept in variables no action's guard
reads: `denied` in `Gateway`, `done` and `tried` in `Delivery`, `behind`, `cold` and `unsure` in `Normalizer`,
`unsure`, `late`, `missed` and `regressed` in `Pricer`, `seen` and `owed` in `Replay`, `proven` in
`SecondFactor`, `doubtful` in `StreamClient`, `overlapped` in `Sweeps`.

*The topic records of `Gateway`, `BoardClient` and `StreamClient` are scripted by
position*: `Records[n]` is what the n-th record may be, which bounds the state space
without restricting what a record is. `Slate` alone takes any record at any time.
`Delivery` reads a log that was written before it starts: a consumer cannot tell.

## 3. What is checked

Deadlock is not checked: every one of these systems really ends (a closed connection, an
emptied hub, a stopped process, a walk that reached its last page) or rests when nobody
asks for anything. That nobody waits for ever is stated by the properties instead:
`Ends`, `CloseReturns`, `ShutdownEmptiesHub`, `NoCircularWait` in `WriterCorrect`,
`EveryRecordCommitted`.

| run | module | shows | states |
|---|---|---|---|
| `stores` | `MCStores` | what outlives a call, each store alone under everything that reaches it: slate, channel sets, a ticket and its ledger, a compacted topic under its readers, the price of a market, the catalogue under two writers, a limit under two requests, the pages of a listing; and amounts and combinations against their definitions | 769 k |
| `goroutines` | `MCGoroutines` | the goroutines of one connection (and its refinement of `FrameStream`), of one poller, and of the callers of one session of the SDK | 1.96 M |
| `conn_live` | `Conn` | queue of 1, five numbers, so that a resync may itself be discarded: `serve` returns, every loss reaches a client that reads | 426 k |
| `gateway` | `MCGateway` | two connections, two channels, two requests, one record, shutdown, in every order: routes, gauge, limit, admission | 2.1 M |
| `gateway_shutdown` | `MCGateway` | the same with write loops and fairness: the shutdown empties the hub | 279 k |
| `board` | `MCBoard` | one browser, two connections in turn, an arbitrary restored set, three records, overflow, one change of mind: coherence, honest status, no price backwards, unsubscribe's ack final, wanted channels held, resync ends | 796 k |
| `auth` | `MCAuth` | two requests on the sessions of an account, and two calls on its second factor, statement by statement | 2.1 M |
| `stream` | `MCStream` | the SDK's stream over two connections, two callers subscribing and unsubscribing at once, falling behind, dropped, reconnecting, closed at any moment | 1.2 M |
| `feed` | `MCFeed` | two processes of the change detector on one partition, moved, expired, crashed, failed between any two steps | 781 k |
| `auth_password` | `MCAuth` | violated: a login puts the old password back | |
| `limits_loosened` | `Limits` | violated: a removal takes effect at once | |
| `board_cursor` | `MCPages` | violated: a cursor is refused | |

### The properties and the hazard each is for

*Slate.* `IndexExact`: an index equals what the documents say, with no empty bucket left
(the leak `deindexLocked` exists for); violating it takes a market that moves and a
later deletion. `SnapshotIsWhatIsPublished`: snapshot and publication are two code paths
that decide membership separately. `NeverRegresses`, `EveryChangeAnnounced`: what
redelivery and re-keying may not do: an older record replaces no newer one, and a dated
deletion removes no market observed after it.

*Conn.* `InNumberOrder` and `NoSilentHole` are about the race between `discardLocked`
and the write loop: whatever each of them took, what is delivered is in order and every
missing number is below a resync frame the client has or will have. `GapCountExact` is
what remains true of the resync's counts in that race. `DrainedBeforeClose`: the
going-away frame is written before the close frame, and the close carries the first
caller's reason. `TornDownOnce`: the hub forgets a connection after its goroutines,
never before. `Ends`: no circular wait at the end, whoever starts it.
`LossReachesClient`: a second overflow may discard the resync of the first; a later
resync is then written. `ImplementsFrameStream`: all of it together, as a client sees
it.

*Gateway.* `RoutesMatchHeld`, and in `GatewayTypeOK` `SubscriptionsCounted` and
`WithinLimit`: three redundant pieces of state that four operations maintain in separate
critical sections. `NobodyAdmittedLate`: the second check of the closed flag under the
lock, against a registration that passed the first. `ShutdownEmptiesHub`.

*BoardClient.* `BoardCorrect` is `BoardCoherent` and `StatusHonest`, which compare
client and server once nothing is under way (whatever was discarded, the page shows the
slate and says so), and `UnsubscribedSilence`: routes and acknowledgement go in one
section, so that nothing follows on the channel until a new subscription, or a hole in the
numbers, where that subscription's ack may have been lost. `NeverBackwards` and
`ResyncEnds` hold on the way there. `WantedHeld`: a server that restores its own idea of
the session and a client with another end up equal, but for channels the server, when last
asked, answered that the limit keeps out (`denied`).

*StreamClient.* `StreamCorrect`: `NumbersAccounted` (of two events in a row the second
starts where the first stopped: no number is passed over, gaps are told),
`NoSocketLeaked` (`Close` racing a dial included), `CloseNotMistaken` (the failure that
`Close`'s own closing of the socket causes is not reported as a lost connection),
`DesiredHeld`: as `WantedHeld`, however many callers amend the subscription at once. `amend`
changes the desire under the mutex and writes its frame outside it, so the frames of two
calls may reach the wire in the reverse order; a channel whose last Subscribe was made
while an Unsubscribe of it was under way, or was answered with an error, is excepted
(`doubtful`) until it is asked for again or the next hello. `CloseReturns`, though the buffer is full and nobody calls `Next`.

*Keeper.* `KeeperCorrect`: `ReuseNeedsLoss` (a family is ended as reused only after an
answer was lost or an older token resumed), `OneRefreshPerExpiry` (callers that wait for
the mutex do not refresh again), `RefusedIsDropped`, `LogoutIsFinal` (a refresh under
way when `Logout` runs does not bring the session back), `ActsOnce` (a method that is
not safe is not sent again once the server may have acted).

*Presence.* `PresenceCorrect`: `CapHolds` over all connections of a session, though each
hub checks only what one of them has; `ResumeWindow` (for a TTL after the last call that
reached Redis a reconnect finds exactly the channels the calls left); `CountersExact`
until a key expires under a counter, and never negative; `NothingLeftBehind` by a
replica that writes nothing for a TTL.

*Sweeps.* `SuppressedIsOnTheBus`: a market the poller remembers, and will suppress, is
on `odds.raw` with the remembered content, through publishes that fail before or after
the record reaches the topic. It says nothing of a league two sweeps of which have been in
the poller at once (`overlapped`): such a league leaves and returns while its old runner
is under way, and of it the formula does not hold (section 7). `BudgetKept`, `FlushIsLast`.

*Delivery, Normalizer.* `FeedCorrect`: `NothingSkipped` (no offset is committed past a
record whose handler was not called, or, under the policy that stops, did not succeed)
and `TopicCovers`: what a handled and committed record said of a market is on the topic,
by itself or by something as new, for every market except one some process decided about
in a state in which it could not judge. A read of the topic that failed is inside what
it promises as long as it got to the newest record of a market or to none; one that
stopped at an older record leaves the market `behind`, and outside (section 7). `FeedSteps`: `CommitsNeverRewind` (a member that
lost a partition and does not know it), `TopicNeverRegresses`. `EveryRecordCommitted`:
the feed is never stuck; a record may be handled with its offset pending because the
last commit failed and nothing more arrives.

*Replay.* `ReplayCorrect`: `SlateWhole` (a follower that says it has caught up lacks
nothing that was in the topic when it began, but for what has since been compacted away
in favour of a record past the listed end that is still to come), `NoSeam` (nothing behind its position was
passed over between the replay and the tail), `SnapshotSound` (the same of a snapshot at
the ends it listed).

*Pricer.* `PricerCorrect`: `PricedIsNewest`, `DeletedIsGone`, `NeverOlder`, over moves,
crashes, failed reads and publishes, and a new engine revision on one of the replicas. A
replica may be dropped in the middle of a record, inside the engine or a publish, and go
on with its batch beside the new owner (`stray`), until it learns of it (`Learns`). What
it then writes is outside the three: once it has changed the topic, `PricedIsNewest` and
`NeverOlder` are not claimed (`unsure`), nor `DeletedIsGone` if the new owner had passed
the record (`late`). No later record need correct it: `TombstoneIsFinal` fails
(section 7).

*LineWriter.* `WriterCorrect`: `NewestShown` (the row of an event or market is of the
newest record written, though two transactions raced for it), `QuotesOnce`,
`ParentsExist`, `NoCircularWait`.

*Sessions, SecondFactor.* `AccountCorrect`: `OneLine` (a family has at most one token
that can still be redeemed, and no token has two successors), `AnsweredEnds` (an end is
answered only once the family is revoked), `LifetimeKept` over any number of refreshes,
`ChangeEvicts`; `CodeGoodOnce` over replicas. `AccountSteps`: `RevocationFinal`,
`StaleNotExtended`, `ArmedOnlyRemoved`.

*Tickets, Money.* `TicketsCorrect`: `TermsAgree` (package and schema accept the same
slips, but for two rules only the schema has), `MethodsFitSchema` (what the package's
methods make of a stored ticket passes every CHECK and trigger, unless another hand
overtook it), `SettlementsAgree`, `MoneyConserved`. `ArithmeticExact`: `SumsExact`,
`ProductsExact` (no operation on any two machine words leaves the safe range unnoticed),
`ExpansionExact`.

*Limits, Pages.* `LimitsCorrect`: `OneOpen`, `TrailIsHistory`, `DecidedOnWhatItReplaced`
(whether a change had to wait was decided on the row it closed, though it read it in an
earlier statement). `PagesCorrect`: `EachOnce` (an event that was there all the time is
shown exactly once in a walk that ends), `OneSet`, `WindowKeeps`.

### Bounds

Every bound is a constant named `Max...` (or `WireCap`, `LastStep`, `LogLen`), stands in
a guard, and is marked as a bound where it is declared; the other constants are
parameters of the code.

*Slate:* `MaxObs = 3` gives an older, an equal and a newer instant beside the zero time,
for two markets of which one may move between two events and two leagues. *Conn:* with
`Capacity = 2`, `MaxSeq = 5` has an overflow of two frames, its resync, and a frame
behind it, in all interleavings with the write loop; a second overflow, and a resync
that is discarded, need `Capacity = 1` (`conn_live`). *Gateway:* `WireCap = 0` in
`gateway` means that no frame leaves a queue: it has no property about frames, and the
queues still overflow. One market and one league suffice there because its properties
relate connections and channels, of which there are two. *Board:* the capacity of 3 lets
hello, ack and snapshot through and overflows at the next frame; three records create,
change and remove a market with a snapshot between; behind a reconnection at most one
record is published (`MCBounded`). *Stream:* a buffer of two events, two attempts, a
queue of one, so that the hub overflows and the caller falls behind; two callers and two
calls, which overlap in every way two can. Two calls are made only of a stream nobody
closes, and one connection is always dialled before the other (`MCBounded`, `MCInTurn`).

*Sweeps:* two generations are what a league that leaves and returns needs; the third
would add no order of two sweeps. A league that has used its generations cannot enter
again, and one credit is enough to have two runners compete. *Keeper:* two callers, two
rotations, two attempts: one refreshes, one waits, and a token is one rotation old.
*Feed:* two members and one partition of four records, the first undecodable, of which
the market's contents are y, x, y, so that suppression would hide a change if it
remembered wrongly; two troubles, so that a second may come while the first is being
recovered from; two attempts to warm up. *Replay:* five logs to begin with (empty, two
keys, a swept tombstone at the end, a partition removed whole, a record nobody can
decode), three records a partition. *Pricer:* three records, two replicas, two
revisions, two mishaps; a replica that is dropped costs one of them, so that it may
publish behind the new owner, and crash or fail besides. The instants of `MCInputs` do not decrease (section 7).
*LineWriter:* five records of two sports: a market twice, with its books in two orders,
another of its event, one of the other sport quoted by the same books, and one that is
refused; each written by either of two writers, one delivered again.

*Presence:* two connections, sessions, replicas and channels, TTL 2, so that one of two
keys may expire. *Sessions:* two requests, one family of three tokens (a token, its
successor, a third by theft), time 0..2 with a token's life and the session's of 2.
*SecondFactor:* skew 1 and three steps, so that a code is good in three. *Money:* words
of five bits and a safe range of three: every pair of words is checked, and the largest
product does not fit a word. *Tickets:* one straight bet in two hands that read, change
and save their copies, with two ledger transactions; what somebody may try to place has
up to three legs, of which two are allowed. *Limits:* two requests, two caps and a
removal, cooling 2, four changes. *Pages:* three fixtures, two start times, so that the
identifier decides, pages of one and two.

## 4. Fairness

Weak fairness only, and only of steps the program takes by itself.

*Conn.* Every critical section and every `select` of a running goroutine completes; a
write succeeds or fails within `WriteTimeout`, a ping within `PongTimeout`. A read is
promised to return only once the socket or the context is gone (`WF((~socket \/ ~ctx) /\
ReadFails)`). Nothing obliges the peer to read, to answer, or to send.

*Gateway.* The same for its critical sections, for `Collect`, and for the two steps of
`Shutdown` per connection, which its bounded drain ends. `Unregister` is fair once a
connection is closing: that is `Ends` of `Conn`, checked in `conn_live`. `Transmit` is
not fair: a client that reads nothing does not stop a shutdown.

*BoardClient.* The browser's event loop, the hub's handlers and the write loop run on.
No fairness makes the hub publish, the page ask or a connection end, and `ResyncEnds` is
released by the end of the connection.

*StreamClient.* The run goroutine goes on whenever it is not blocked (`Running`), and so
does the caller that called `Close`: it cancels the context, hangs up the socket, and
returns once run has ended (`Cancels`, `Hangs`, `Returns`). Every step of run is bounded
by a timeout or ends with the context. Nobody is obliged to take events, to call
`Close`, or to answer.

*Normalizer.* A process that ended is started again; a member whose session expired
learns it; a free partition is given to each member that may have it; the loop of a
member, the handler and an orderly stop go on. Failures are never obliged to happen, nor
publishes to succeed the next time: `MaxTrouble` bounds how often they fail, which is
the assumption that trouble ends.

`Sweeps`, `Keeper` and what `stores` and `auth` check are safety only.

## 5. What is proved

For every value of the constants, with no assumption beyond the named `ASSUME`s of the
modules (which TLC evaluates on every run), but for four hypotheses that theorems state
themselves. `SkewSteps <= 1` in `AccountSafe`. In `PricesCorrect`, that the observations
of a market are published in the order of their instants (`InOrder`), as one normalizer
writes them. In `BoardShown`, that no market is re-keyed to another event or league
(`RoutesFixed`); with one that is, `BoardCoherent` is false, which is `MovedMarketLeaves`
of section 7. In `BoardForward`, that of two records of a market the later one carries the
later document (`Increasing`): without an order of documents there is no going back. The
instance of the run `board` satisfies the last two:

| theorem | establishes | invariant |
|---|---|---|
| `SlateCorrect` | `SlateTypeOK /\ IndexExact` | `SlateInv` |
| `SnapshotsCorrect` | `SnapshotIsWhatIsPublished` | follows from `SlateInv` |
| `NewestWins` | `NeverRegresses` | `SlateInv` |
| `ChangesAnnounced` | `EveryChangeAnnounced` | `SlateInv`, before and after |
| `TeardownCorrect` | `TornDownOnce` | `TeardownInv` |
| `FramesInOrder` | `InNumberOrder` | `FramesInv` |
| `DrainCorrect` | `DrainedBeforeClose` | `FramesInv`, `LastInv`, `TeardownInv` |
| `HolesAnnounced` | `NoSilentHole` | `FramesInv`, `HolesInv` |
| `PromiseKept` | `ImplementsFrameStream`: `Conn` implements `FrameStream` | `HandInv`, `FramesInv`, `TeardownInv` |
| `GapsCounted` | `GapCountExact` | `CountInv` |
| `RoutingCorrect` | `RoutesMatchHeld` | `RoutingInv` |
| `ShutdownMissesNobody` | `NobodyAdmittedLate` | `RoutingInv`, `ShutdownInv` |
| `GatewayTypes` | `GatewayTypeOK` | `HubInv`, `Bounded` |
| `StreamPromises` | `StreamCorrect` | `StreamInv` |
| `BoardHeld` | `WantedHeld` | `BoardStart` |
| `BoardKept` | `UnsubscribedSilence`, `BoardTypeOK`, `StatusHonest` | `BoardInv` |
| `BoardShown` | `BoardCorrect`, if `RoutesFixed` | `BoardInv`, `CoherentInv` |
| `BoardForward` | `NeverBackwards`, if `Increasing` | `BoardInv`, `ForwardInv` |
| `SuppressionCorrect` | `SuppressedIsOnTheBus` | `SuppressionInv` |
| `SweepsTypes` | `SweepsTypeOK` | `TypesInv`, `SuppressionInv` |
| `BudgetCorrect` | `BudgetKept` | `BudgetInv`, `SuppressionInv` (types only) |
| `FlushCorrect` | `FlushIsLast` | `FlushInv` |
| `GroupCorrect` | `DeliveryCorrect`, whatever the handler does | `DeliveryInv` |
| `CommitsForward` | `CommitsNeverRewind`, whatever the handler does | `DeliveryInv` |
| `TopicCorrect` | `FeedCorrect` | `DeliveryInv`, `NormalizerInv` |
| `TopicForward` | `FeedSteps` | `DeliveryInv`, `NormalizerInv` |
| `SessionCorrect` | `KeeperCorrect` | `KeeperInv` |
| `LimitsAudited` | `LimitsCorrect` | `LimitsInv` |
| `LinesCorrect` | `WriterCorrect` | `WriterInv` |
| `WalksCorrect` | `PagesCorrect` | `PagesInv` |
| `TicketsSafe` | `TicketsCorrect` | `CopiesInv`, `LedgerInv` |
| `SumsAreExact` | `SumsExact`, the first part of `ArithmeticExact` | |
| `ProductsAreExact` | `ProductsExact`, the second | |
| `PricesCorrect` | `PricerCorrect`, if `InOrder` | `TrackerInv`, `SyncInv` |
| `PresenceExact` | `PresenceCorrect` | `PresenceInv` |
| `ReplaysWhole` | `ReplayCorrect` | `ReplayInv` |
| `SessionsSafe` | `SessionsCorrect` | `SessionsInv` |
| `AccountSafe` | `AccountCorrect`, if `SkewSteps <= 1` | `SessionsInv`, `FactorInv` |
| `AccountForward` | `AccountSteps`, for any skew | `SessionsInv` |

Each invariant was checked by TLC, on the instances of section 3 or larger, before it
was proved. The arguments, and why the properties need strengthening:

*Slate.* `IndexExact` says that an index is a function of the documents (`Buckets`). Two
lemmas carry it: tearing a held market down turns the index of the slate into that of
the slate without it (`DeindexedExact`), indexing one the slate does not hold adds
exactly it (`IndexedExact`). `Put` is one after the other. That snapshots agree with
publications is then a property of states, and that changes are announced follows from
it on both sides of a step.

*Conn, control.* `TornDownOnce` says nothing before the end, so `TeardownInv` records
what each stage of the teardown implies of the goroutines: `quit` only after `closed`,
`closed` only with the lock free, the reader past `cancelled` only with the writer done,
and so on.

*Conn, data.* A frame is in one of three places: on the wire, in the write loop's hand,
in the queue. `FramesInv`: each is sorted, they are sorted with respect to each other,
and no number exceeds `seq`. `SortedConcat` turns that into `InNumberOrder` of the
concatenation. `LastInv` says where the newest number is; with `TeardownInv` (a drained
writer has an empty queue and an empty hand) it is the last on the wire. `HolesInv`:
outside an overflow each number is on its way or below a resync frame that is. The end
of an overflow re-establishes it whatever the write loop took meanwhile, because the
resync has the highest number.

*Conn, refinement.* `FrameStream` has a stream of numbers, of which any may be lost, and
a marker behind each loss. Under the mapping an `enqueue` that fits is a `Send`,
`DiscardOne` loses one, `QueueResync` is the marker, a write that succeeds delivers, and
everything else stutters. The one delicate step is a pop: it moves a frame from the
queue to the hand, which the abstract stream must not see. `HandInv` says when the hand
is empty.

*Conn, counts.* `GapCountExact` is about frames on the wire, long after the discards
they count. `CountInv` follows a count from its start: the queue is a run of consecutive
numbers, behind which lies everything the write loop has taken (`Taken`), with a resync
only at its head; while an overflow lasts, the gap counted so far is what is missing in
its bracket of the numbers taken. A pop in the middle of the overflow shortens the run
from the same end as a discard does, so the bracket's ends stay numbers that were
discarded, and a number between that was popped is not counted.

*Gateway.* `RoutesMatchHeld` needs to know which phases are live, that only live
connections hold channels, and that a half-done request belongs to a connection not yet
unregistered (`JobsLive`); otherwise `AttachSubscribe` could add routes for a connection
that is gone. `NobodyAdmittedLate` uses that `Register` tests the flag in the section
that makes the connection live.

*Gateway, types.* A subscribe is admitted in one critical section and carried out in
another, so `WithinLimit` is not kept by either alone. `JobsFit` is what the first leaves
for the second: what a request between its sections is about to add is new to the
connection, and there is room for it; it stays so because one read loop has one request at
a time. `Counted` is the gauge against the set of routes, operation by operation: what is
added is disjoint from what was held, what is removed was part of it. `EnqueueAllOf` is an
induction over the list of frames one section queues, by a least counterexample: whatever
holds of a connection after one frame, for each of the frames, holds after all. It takes
the lemmas about parts of a sequence at chosen positions (`Taken`), by which both the
channels a subscribe accepts and the frames an overflow leaves are stated: they are as many
as the positions, and in the same order (`TakenFacts`).

*Stream.* `StreamInv` is `HubInv` and what the SDK's goroutine and its callers have.
`StreamHub`: whatever the client does, hanging up in the middle of a request included,
keeps `HubInv`. `OwedInv`: what the run goroutine has yet to say starts where the last
event stopped and ends at the number expected next, so `NumbersAccounted` is kept by each
`Emits`. `SocketInv` and `CloserInv` say who holds which socket at each step of `Close`: a
socket that is neither closed, nor the run goroutine's, nor in `Close`'s hands, was never
opened. `DesiredHeld` speaks of the end of a conversation. `WordInv` is what holds within
it: the last word said about each channel the caller wants is on its way (run or the caller
is about to write it), or the last request to name it that the server has not read asks
for it, or the server has heeded it (held, denied, or accepted and about to be added). The
server's part is a lemma about `Gateway` (`HeededHub`), over the list of unread requests
(`WordTaken`, `WordAppended`). Before the hello there is no such request to look at, and
`GreetInv` says what takes its place: nothing has been asked, and what the hello says is
held. What is heeded and wanted is only taken away by an unsubscribe; any number of callers
may be between the desire and the frame, and by `CallInv` a wanted channel that one of
them is yet to take off this connection is in `doubtful`, of which nothing is claimed.

*Board.* The properties speak of a client with nothing on its way; the invariants say what
is true while something is. `WordInv` is as in *Stream*: the last word about each wanted
channel is among the unread requests, or the hub has heeded it. The others are about what
a link carries (`Carried`: its wire and its queue together), and each is a lemma about
queueing any list of frames, one by one and with any overflow between (`GrownAll`), a lemma
about the client taking the first frame, and nothing else, since every action of the hub
does one of a few things to a link (`HubGrows`, `HubFeeds`).

`OrderInv`: numbers leave in order. `HoleInv`: each number from the one the client expects
to the last one sent is carried, or a resync frame behind it is, and the client will see
the jump before that resync, because the number ahead of a resync is never carried; so the
client asks again for every loss. `StatusInv`: a client that says it is resyncing has the
means of its cure on the way (`Mending`): a resync or snapshot frame, the hub's unfinished
answer to a request that will queue one, or such a request unread. `SilenceInv`: behind the
ack of an unsubscribe there is nothing about the channel unless the ack of a subscribe lies
between, or a number that is missing, where it may have been; and none is to come while the
channel is held without one.

`CoherentInv` is silent while a resync is due (`Curing`), and otherwise has two parts for
each channel held. Of a market whose channel is held, the last frame carried that tells of
it tells what the slate has, and if none does the page has it (`Document`); of a market and
a channel, the same of whether the market belongs to it (`Membership`). The hub keeps it
since whatever it folds it queues in the same section; the client keeps it since the frame
it takes becomes what the page has (`DocumentTaken`, `MembershipTaken`). What begins it anew
is the snapshot of every channel held, which is queued as a whole or cut by another
overflow, in which case a resync is due again (`GrownWhole`). By `ScopeInv` a
channel lists a market only if the market may be published on it; with `RoutesFixed` those
are always the same channels, so each change of a market is told on every channel that
lists it.

`ForwardInv` is a chain of documents for each market: the page's is no later than any that
is carried, those are in the order of their numbers, none is later than the slate's, and the
slate's no later than those still to be folded. A snapshot is cut under the lock that folds
and queues deltas, so what it adds to the chain is its end.

*Sweeps.* The property is silent while a sweep of the league publishes, so
`SuppressionInv` says what such a sweep has (`Honest`): what it has yet to visit is as
it was remembered and on the topic, what it has visited is on the topic as answered. It
survives the other league's sweeps because leagues share no event, and other sweeps of
the same league because they put the league in `overlapped`, from where the property no
longer speaks of it. `SweepsTypeOK` bounds the bucket and the ledger and relates runners
to sweeps (`HoldsSweep`): a runner holds a sweep exactly while it consumes one.

*Delivery.* `NothingSkipped` is about commits, which happen long after the handling they
answer for, by a member that may not know it was dropped. `HolderInv`: the coordinator's
holder of a partition is exactly a member that is in the group and has the partition
assigned, so a commit that is accepted is by it. `PartInv`: what such a member has
marked and what is in its batch are together all the records between the committed
offset and the next to fetch; hence a mark is never ahead of a record nobody was called
for. It says nothing of a member that was dropped, whose commits the coordinator
refuses. These theorems are about `Delivery` alone, for any handler; `TopicCorrect` and
`TopicForward` are about it with the change detector.

*Normalizer.* `MemoryInv`: what a process remembers of a market is what the topic has,
except of markets it is `behind` on; a process that was warmed by a complete read
remembers everything. `CoverInv` extends `TopicCovers` from records that are committed
to those that the holder has marked and will commit (`Passed`). `TopicInv` ties an entry
of the topic to the raw record it was observed in. The attempt at this proof corrected
the property. `TopicCovers` excludes the markets (`Misjudged`) some process decided
about while it could not judge, and of the records that were handled, those given up on
since (`done` loses a record that a later member fails and skips). So it does not
promise anything in three histories the code allows: a process that was dropped from the
group, and whose read of the topic was incomplete, publishes an older record over a
newer one; and, with the policy that skips, a record handled by a member that was
dropped is handled again by a cold successor, whose failure is skipped and committed;
and a warm read fails behind an older record of a market, with which the process then
suppresses a content the topic has left (y, x, and y again: the last y is never
published). `TrailInv` says that what such a read found, the topic has a record of.

*Keeper.* `MutexInv` says where the holder of the mutex is, `NewestInv` that the token
presented is the family's newest while no answer was lost and nothing older was resumed,
including the moment in which the server has rotated and the answer is on its way.
`GenerationInv` is what the double check under the mutex rests on: a call that used the
current generation used the access token the session has now. `EmptyInv`: a refused
token or a logout leaves nothing behind.

*Limits.* `LockInv`: a transaction that found an open row holds its lock or waits for
it, no two hold one, and whoever is about to insert is alone, because the partial unique
index or the row lock excludes the other. `LastInv` gives the trail a last change before
each entry, which the prover needs to name the row a change replaced.

*LineWriter.* A transaction decides row by row and writes at its commit, when others have
committed since. `TxInv`: what it decided on a row it has locked, and which quotes it
found absent, is still what it would decide, since `Apart` says that nobody else holds
those rows or inserts those quotes. A commit then makes `NewestShown` and `QuotesInv`
true of one record more. That nobody waits in a circle rests on one order of all rows
(`Precedes`): a spine is in that order (`SpineFacts`), who is waited for has locked
something before what it wants itself (`WaitsInOrder`), and two rows do not precede each
other (`OneOrder`). Books and selections come sorted, so this needs that a sorted list of
every finite set exists (`ListExists`): by a least counterexample, whose smallest element
is put before the list of the rest.

*Tickets.* A copy is read from the row and changed in memory before it is saved.
`CopiesInv`: a copy nobody overtook descends from the row (`Descends`) by steps the
schema's triggers allow, but for the amount of a closed ticket, the one thing the package
does not refuse itself. `LedgerInv`: each entry sums to zero, each settlement moved what
the row says, and the escrow holds the stake less once the stake for each settlement. The
balance of an account is a running total over the ledger; `RunFacts` and what follows it
show that an entry behind the others adds its own amounts and changes no total before it.
`PayoutFacts`: the product of a stake with its odds, if it fits, is an amount, and the
stake is one.

*Money.* Sums and negations are decided by cases on signs. The prover knows of `\div` by a
variable only its defining inequalities, so `ProductsAreExact` goes through `Divided` (a
quotient, a remainder and what they add up to), `Fits` (`MulInt` compares a factor with a
quotient instead of the product with the range) and `Signs`; `RoundedFacts` is the error of
each rounding mode, of which `MulFloat` adds only the sign.

*Pages.* `EachOnce` rests on what a page is: an initial part of the listing in the order of
the keys, so that whatever is selected now is on it or behind the key of its last event
(`PageFacts`). The code states a page by an `ORDER BY` and a `LIMIT`, the model by who has
fewer than `size` events before it; that such a part has a last event, and that nothing is
left out when there is no next page, is by counting (`FirstExists`: a strict order has a
first element on every finite set). `ScopeInv` adds that all pages seen are of the scope in
the cursor, and that a walk that kept its listing is in the scope its parameters give: the
cursor of a window of the client's own is then never refused.

*Pricer.* `TrackedInv`: who prices a market with a current memory remembers exactly what
the topic holds; so nothing older replaces it, a tombstone is not suppressed, and what is
suppressed is what is shown. That carries `DeletedIsGone` and `NeverOlder`, whatever the
order of the instants (`TrackerInv`); a replica that was dropped either leaves the topic
as it is, or is at or past the owner's position, so that the furthest record is past it
too, or is `late`. `PricedIsNewest` speaks only of the end of a replay;
`SyncInv` says what holds within: the topic is as some record between the position and the
furthest one handled left it, because a record that is handled again finds either what it
wrote or something a later record wrote. This needs `InOrder`: a suppressed observation
does not advance the instant remembered, so with the instants 1, 2, 1, the second equal in
content to the first, the third replaces the price though the second was newer.

*Presence.* A key's expiry and the model's ghosts are two clocks; `SubInv` and `PresentInv`
join them: a key that is there has `TTL` less the ticks since its session, or its replica,
was last written. So a set cannot expire before its window is over, nor outlive it. A call
to an absent key leaves it absent, which is right because by then nothing is kept
(`KeptIsStored`). `CountersExact` follows a script member by member: those the set already
has are not counted again, those it has not are not counted down, so each script changes
the counter and the set of holders by the same session, or neither. Nothing is assumed of
the order in which connections of one session come and go, nor of `Forget` running to its
end.

*Replay.* `SeamInv`: behind the cursor nothing is passed over but what a snapshot does not
chase and what failed and was tolerated. It survives a batch because a batch is ahead of
all that was handled of its keys (`BatchInv`), for which a key must be in one partition
(`KeysApart`, an assumption on the instance: the producer's partitioner hashes the key).
`OwedInv`: compaction may take the record a reader owes but leaves a later one of its
key. `StageInv`: a reader that calls itself complete has fetched and handled all up to
the ends it listed. So what is owed has been handled, or what replaced it lies past those
ends, where a follower has it ahead and a snapshot leaves it. The proof made the property
stronger: `SlateWhole` used to be content with any record of the key still to come, which
a follower that declared itself caught up too early satisfies as well.

*Sessions.* A request holds a token across several statements of others, so `RequestInv`
says what stays true of it: the token is still stored, and the owner it read is the
owner now unless the password was changed since (`epoch`). `StaleNotExtended` is that
second half, at the redemption. `OneLine` and the links of `LinksInv` carry each other:
the successor of a redemption is the only one, because a token with a successor is used
and the one redeemed was not.

*SecondFactor.* `StepsInv`: the guard's entry of an accepted step expires only when its
code is no longer acceptable. `CodesInv`: an unused recovery code is of the last set and
was not spent. The proof needs the hypothesis that the window is one step wide, and the
attempt without it is a finding: with `SkewSteps = 2` the entry, which lasts until
`skew + 2` periods from now, expires before the code of the far edge does, `2 * skew + 1`
periods from now (section 7). The default is 1 (`totp.go:45`).

## 6. What is only model-checked

Liveness (`Ends`, `LossReachesClient`, `ShutdownEmptiesHub`, `ResyncEnds`,
`CloseReturns`, `EveryRecordCommitted`): the prover has no rules for fairness here.
`ExpansionExact`, the third part of `ArithmeticExact`: the odometer is a recursion, and so
an induction over data. The types of `Conn` are bounded by the model's bounds and are proved only
as far as the invariants above need them.

## 7. Where the code and its documents disagree

Three runs exhibit a disagreement.

*`auth_password`* — A login re-derives a weak stored hash from the password that was
typed and overwrites the stored one whatever it is by then
(`auth/pgstore/store.go:242`). A password change that commits between the login's read
and that statement is undone. `auth/store.go:90` says the re-hash changes the encoding
only.

*`limits_loosened`* — A removal closes the open row and writes no successor; a raise
closes it at once though its successor binds after the cooling-off period
(`httpapi/pgstore/pgstore.go:647`). Nothing is in force from then on.
`httpapi/account.go:147` says that loosening serves a cooling-off period.

*`board_cursor`* — `starting_before` left out is now plus the horizon, to the
nanosecond, and part of the cursor's scope (`httpapi/board.go:45`): the next page is
refused. `pkg/client/catalogue.go:72` says to pass the cursor and change nothing else.

The modules also state formulas that the repository's comments suggest and that the code
does not keep. They are in no configuration (`CodeGoodOnce` is, with the default window);
each can be given to TLC.

| formula | what happens | what is said |
|---|---|---|
| `GapRangeNotReceived` (`Conn`) | the write loop may take a frame between two discards, so the bracket of a resync may contain a number the client has; the count is exact | `conn.go:397`, `sequence.go:79`, `protocol.go:635` |
| `HelloComesFirst` (`Gateway`) | with as many restored channels as the queue has room (both defaults are 256) registration discards its own hello | `protocol.go:498` |
| `MovedMarketLeaves` (`BoardClient`) | a market that moves to another league is published on its new channels only; a subscriber of the old one keeps it | `wsgw/doc.go:93` |
| `OneSweepPerLeague` (`Sweeps`) | a runner retired while it waits for credits sweeps when they come, beside the runner of the league's return; hence the exception of `overlapped` in `SuppressedIsOnTheBus` | `ingest.go:846` |
| `ResyncUnderWay` (`StreamClient`) | a gap or a resync frame that comes while a request is pending makes no other; if the overflow it tells of discarded the answer, nothing is under way and the stream waits for a snapshot nobody will send | `stream.go:561-564` |
| `WritesInOrder` (`StreamClient`) | `amend` changes `desired` under the mutex and writes its frame after it: the frames of an Unsubscribe and a later Subscribe of one channel by two callers may be written in the reverse order, and the channel wanted is not held until the next connection | `stream.go:487`, `stream.go:604` |
| `ClosedQuietly` (`StreamClient`) | a write by the run goroutine that finds the stream marked closed, before `Close` has cancelled the context, ends the connection as if it had dropped | `stream.go:903-918` |
| `PersistedIsNewest` (`Keeper`) | two callbacks of `OnRotate` may run in the inverse order of their rotations, and the older token is persisted | `session.go:302`, `pkg/client/doc.go:77` |
| `ArmedIsProven` (`SecondFactor`) | an enrolment begun between the check of a code and `ConfirmTOTP` is armed by the code of the other | `enrolment.go:125` |
| `CodeGoodOnce` (`SecondFactor`), with `SkewSteps = 2` and `LastStep = 4` | a code of the far edge of the window is accepted again once the guard has forgotten it; widths up to 10 are configurable (`totp.go:123`), the default of 1 is safe (`AccountSafe`) | `service.go:513-515` |
| `WaitIsFree` (`Replay`) | the time a follower waits for its topic counts against its budget | `follower.go:640` |
| `ClosedKeepsItsAmount` (`Tickets`) | a copy of a settled ticket accepts another settlement amount; only the row's trigger refuses | `wager.go:310` |
| `FailuresRedelivered` (`Delivery`), `FailuresAreRedelivered` (`Pricer`) | under the policy that skips, the offset of a failed record is marked and committed with the others | `cmd/pricer/main.go:124`, `ingest/doc.go`, `pricing/service.go:662`, `writer.go:226`, `writer.go:291` |
| `RebalanceSafe` (`Normalizer`), with `Undecodable = {}` | a new owner whose warm start failed suppresses or republishes what its predecessor has overtaken | `normalizer/doc.go:115`, `store.go:26` |
| the same, with `Members = {a}` | after a restart a warm read of the uncompacted topic fails behind an older record of a market; a raw record of that older content is suppressed as unchanged and committed, and the topic keeps the content in between | `normalizer.go:459-460` |
| `TombstoneIsFinal` (`Pricer`) | a replica dropped while it is inside the engine or a publish publishes its record behind the new owner's tombstone; all is committed, the deleted market has a price, and nothing is delivered that would remove it | `pricing/doc.go:103-106`, `110` |
| `RevisionRepricesBoard` (`Pricer`) | a market that does not move is not delivered again, so a new revision leaves its price | `pricing/service.go:265` |

What the reading showed beside the models:

*Auth.* `ChangePassword`'s comment says a failed revocation leaves no usable session
(`service.go:813`); a login in flight that has verified the old password is issued one.

*SDK.* `stream.go:441` says a successful connection resets the count of attempts; it is
one that lasted. `stream.go:487` promises an implementer of `StreamSocket` that `Send`
is not called concurrently with itself; the run goroutine and `Subscribe` may, and only
the package's own socket has a lock for it.

*Presence.* The hub restores channels before it connects the session; `Forget` has no
caller; counters drift upward when sets expire, also after a clean disconnect; `Touch`
does not refresh the counters.

*Replay.* Trailing offsets that were swept leave a partition below its target until the
deadline; under the policy that skips (`cmd/stream/main.go:214`) a key whose newer
record fails is missing from a slate reported whole.

*Pricing.* A suppressed observation does not advance the instant remembered. With
records whose instants are out of order `PricedIsNewest` fails (`NeverOlder`, of what is
published against what was published, does not); `MCInputs` has instants that do not
decrease, as one normalizer writes them, and `PricesCorrect` assumes it.

*Tickets.* A teaser that moves the line the wrong way is accepted by the package and
refused by the schema; a second settlement with a new identifier is not prevented by
either; `Settle` does not ask whether all legs are graded; redelivery moves `updatedAt`.

*Writer.* Every writer of one sport waits on the sport's row. A selection whose
identifier changes for a role can never be written again
(`selections_one_per_role_idx`): the record is rolled back each time.

*Limits.* A removal that finds nothing while another request inserts is audited though
nothing changed; a request whose instant is before the row's is refused by a CHECK and
answered with a 500; a repeated or lowered pending loosening binds at once.

*Pages.* The search has no window; an event that moves may be shown twice or never.

*Process shell.* If `hub.Run` fails the listener of `cmd/stream` stays up until a signal
(`main.go:447-515`), and likewise the services of ingest and pricer: that "the process
ends" under the policy that stops needs an orchestrator.

*Migrations.* The drift check is outside the lock, so an older image may report success
with the schema ahead (`migrate.go:19-31`); "nothing to apply" reports a version read
before the wait for the lock (`560-567`); a failed unlock reports nothing applied though
it was committed.

*Budget.* `docs/adr/0003*:59` says a gauge fed by the provider's own number cannot
drift; between two readings, and after a response without one, it is the poller's own
count.

## 8. What is not modelled, and the plan

Left out of the modelled parts, on purpose: decoding of frames and documents, and
requests with channels that do not parse; codes and wording of errors; metrics other
than the gauge of subscriptions. In the hub: writes to the presence store (they are in
`Presence`). In the browser: timers of the reconnection backoff, tokens, price cells,
rails and counters. In the SDK: `Resync` and `Ping` called by the program, unlimited
attempts. In the poller: the cadence ladder, failure backoff and quiet periods (a timer
may fire at any time, which covers them), payloads without content, the stages a publish
passes through, the adoption of a limit the provider reports, and the fixture list. In
the consumer: the commit of an orderly stop is atomic with respect to a rebalance. In
auth: registration, tokens' signatures, hashing. In pricing: the engine. In the HTTP
API: handlers of one request.

Out of reach or of little use: floating-point mathematics, HTTP and SQL handlers without
state of their own, generated queries, configuration and wiring.

Liveness of `Sweeps` is not in a run: that runners told to stop end and suppressed
events are refreshed in time needs strong fairness of the bucket, the slots, the
provider's answer and the end of a sweep; a single league with one generation (11 k
states) satisfies both, a larger instance takes too long to be worth a run.

The remaining candidates for a model are the migrator's lock and drift check, the rate
limiter's script, the provider's quota and the browser's store of credentials. For a proof,
what section 6 lists is left, and out of the prover's reach.
