------------------------------- MODULE Sweeps -------------------------------
(***************************************************************************)
(* The polling half of cmd/ingest: internal/ingest/scheduler (planner,      *)
(* league runners, shared quota budget) with the poller of internal/ingest  *)
(* that publishes what moved on odds.raw and suppresses the rest.           *)
(*                                                                          *)
(* A runner is one goroutine, <<league, generation>>: a league that leaves  *)
(* the catalogue and returns gets a new one.  Time is abstract: a timer may *)
(* fire whenever it is armed, so the cadence ladder, quiet and failure      *)
(* backoff, and the update channel that recomputes a delay have no state.   *)
(***************************************************************************)
EXTENDS Naturals, FiniteSets

CONSTANTS
    Leagues,
    Events,
    LeagueOf,            \* the league of each event
    Markets,             \* market keys within an event
    Contents,            \* what the content hash of a market tells apart
    Answers,             \* the snapshots the provider may answer with, per league
    Readings,            \* the remaining-credit counts it may report, Nothing if it does not
    MaxConcurrentPolls,
    CreditsPerSweep,
    Burst,               \* capacity of the token bucket
    Limit,               \* credits of one period
    MaxSpent,            \* bound: credits of one period the model counts
    MaxGenerations,      \* bound: times a league may enter the schedule
    Nothing

VARIABLES
    active,         \* the context of Run is not cancelled
    run,         \* Service.Run: "planning", "waiting" for the runners, "flushed"
    schedule,    \* league -> generation of the runner in the schedule, 0 for none
    runner,      \* <<league, generation>> -> where its goroutine is
    stopped,     \* the runners whose done channel is closed
    poll,        \* <<league, generation>> -> the sweep it is consuming, or Nothing
    tokens,      \* the pacing bucket
    spent,       \* the period ledger
    reported,    \* the provider's own remaining count, Nothing before the first
    digests,     \* event -> market -> content hash, Nothing when not remembered
    published,   \* event -> "never", "fresh", or "due" for a refresh
    raw,         \* event -> market -> content of its last record on odds.raw
    overlapped   \* league -> two of its sweeps were in the poller at once (history)

lifeVars == <<active, run, schedule, stopped>>
budgetVars == <<tokens, spent, reported>>
cacheVars == <<digests, published>>
sweepsVars == <<lifeVars, runner, poll, budgetVars, cacheVars, raw, overlapped>>

Runners == Leagues \X (1..MaxGenerations)
League(r) == r[1]
EventsOf(l) == {e \in Events : LeagueOf[e] = l}

\* A listing is what the provider, or odds.raw, has of one event: the content
\* of its markets, Nothing for a market that is not listed.  An answer has the
\* listings of the league's events, Nothing for an event it leaves out.
Listings == [Markets -> Contents \cup {Nothing}]
Unlisted == [m \in Markets |-> Nothing]
Listed(answer) == {e \in DOMAIN answer : answer[e] # Nothing}

\* What consume holds while it publishes the answer of a league l.
Polls(l) ==
    [answer : [EventsOf(l) -> Listings \cup {Nothing}],
     reading : Nat \cup {Nothing},
     todo : SUBSET EventsOf(l),
     done : SUBSET EventsOf(l),
     prev : [EventsOf(l) -> Listings],
     last : [EventsOf(l) -> {"never", "fresh", "due"}]]

ASSUME SweepsAssumption ==
    /\ LeagueOf \in [Events -> Leagues]
    /\ \A l \in Leagues : Answers[l] \subseteq [EventsOf(l) -> Listings \cup {Nothing}]
    /\ Readings \subseteq Nat \cup {Nothing}
    /\ Nothing \notin Nat \cup Listings /\ \A l \in Leagues : Nothing \notin Polls(l)
    /\ MaxConcurrentPolls \in Nat \ {0}
    /\ {CreditsPerSweep, Burst, Limit, MaxSpent, MaxGenerations} \subseteq Nat
    /\ CreditsPerSweep <= Burst

InPoller(r) == runner[r] \in {"fetch", "consume"}
Goto(r, pc) == runner' = [runner EXCEPT ![r] = pc]

-----------------------------------------------------------------------------
(* The planner *)

Unborn(l) == {g \in 1..MaxGenerations : runner[<<l, g>>] = "unborn"}

\* retireAbsent: the runners whose leagues the catalogue no longer lists.
Retired(present) == {<<l, schedule[l]>> : l \in {k \in Leagues \ present : schedule[k] # 0}}

\* refresh: a runner starts for each new league, those of absent leagues are
\* retired.  A catalogue that cannot be read changes nothing.
Refresh(present) ==
    LET enter == {l \in present : schedule[l] = 0}
        next(l) == CHOOSE g \in Unborn(l) : TRUE
    IN  /\ run = "planning"
        /\ \A l \in enter : Unborn(l) # {}
        /\ schedule' = [l \in Leagues |-> IF l \in enter THEN next(l)
                                          ELSE IF l \in present THEN schedule[l] ELSE 0]
        /\ runner' = [r \in Runners |-> IF League(r) \in enter /\ r[2] = next(League(r))
                                        THEN "idle" ELSE runner[r]]
        /\ stopped' = stopped \cup Retired(present)
        /\ UNCHANGED <<active, run, poll, budgetVars, cacheVars, raw, overlapped>>

Cancel ==
    /\ active
    /\ active' = FALSE
    /\ UNCHANGED <<run, schedule, runner, stopped, poll, budgetVars, cacheVars, raw, overlapped>>

PlannerEnds ==
    /\ run = "planning"
    /\ ~active
    /\ run' = "waiting"
    /\ UNCHANGED <<active, schedule, runner, stopped, poll, budgetVars, cacheVars, raw, overlapped>>

\* Variant: nobody waits for the runners.
RunnersDone_NotAwaited == TRUE

\* wg.Wait in Run: every goroutine that was started has returned.
RunnersDone == \A r \in Runners : runner[r] \in {"unborn", "gone"}

\* Run returns, and only then does Service.Run flush the producer.
Flush ==
    /\ run = "waiting"
    /\ RunnersDone
    /\ run' = "flushed"
    /\ schedule' = [l \in Leagues |-> 0]
    /\ UNCHANGED <<active, runner, stopped, poll, budgetVars, cacheVars, raw, overlapped>>

-----------------------------------------------------------------------------
(* The budget *)

Least(m, n) == IF m < n THEN m ELSE n
Less(m, n) == IF m < n THEN 0 ELSE m - n

Remaining == IF reported # Nothing THEN reported ELSE Less(Limit, spent)

\* Variant: the bucket alone admits a sweep.
TryAcquire_BucketOnly ==
    /\ tokens >= CreditsPerSweep
    /\ tokens' = tokens - CreditsPerSweep
    /\ spent' = spent + CreditsPerSweep
    /\ reported' = IF reported = Nothing THEN Nothing ELSE Less(reported, CreditsPerSweep)

\* tryAcquire: both mechanisms are checked and charged under b.mu.
TryAcquire ==
    /\ Remaining >= CreditsPerSweep
    /\ tokens >= CreditsPerSweep
    /\ tokens' = tokens - CreditsPerSweep
    /\ spent' = spent + CreditsPerSweep
    /\ reported' = IF reported = Nothing THEN Nothing ELSE reported - CreditsPerSweep

\* Variant: the bucket may end above its capacity.
Refund_Uncapped ==
    /\ tokens' = tokens + CreditsPerSweep
    /\ spent' = Less(spent, CreditsPerSweep)
    /\ reported' = IF reported = Nothing THEN Nothing ELSE reported + CreditsPerSweep

\* Refund: never above the bucket's capacity, never below an empty ledger.
Refund ==
    /\ tokens' = Least(tokens + CreditsPerSweep, Burst)
    /\ spent' = Less(spent, CreditsPerSweep)
    /\ reported' = IF reported = Nothing THEN Nothing ELSE reported + CreditsPerSweep

Reconcile(reading) ==
    /\ reported' = IF reading = Nothing THEN reported ELSE reading
    /\ UNCHANGED <<tokens, spent>>

\* refillLocked, one credit at a time.
Refill ==
    /\ tokens < Burst
    /\ tokens' = tokens + 1
    /\ UNCHANGED <<lifeVars, runner, poll, spent, reported, cacheVars, raw, overlapped>>

\* rollPeriodLocked: the period is over.
Roll ==
    /\ spent > 0 \/ reported # Nothing
    /\ spent' = 0
    /\ reported' = Nothing
    /\ UNCHANGED <<lifeVars, runner, poll, tokens, cacheVars, raw, overlapped>>

-----------------------------------------------------------------------------
(* A league runner *)

\* The timer fires: runLeague enters sweep.
Due(r) ==
    /\ runner[r] = "idle"
    /\ Goto(r, "reserve")
    /\ UNCHANGED <<lifeVars, poll, budgetVars, cacheVars, raw, overlapped>>

Exit(r) ==
    /\ runner[r] = "idle"
    /\ r \in stopped \/ ~active
    /\ Goto(r, "gone")
    /\ UNCHANGED <<lifeVars, poll, budgetVars, cacheVars, raw, overlapped>>

\* Acquire returns: the credits are reserved (a cancellation after its first
\* test of active may come too late), exhausted, or given up.
Acquire(r) ==
    /\ runner[r] = "reserve"
    /\ TryAcquire
    /\ spent + CreditsPerSweep <= MaxSpent
    /\ Goto(r, "slot")
    /\ UNCHANGED <<lifeVars, poll, cacheVars, raw, overlapped>>

GiveUp(r) ==
    /\ runner[r] = "reserve"
    /\ Remaining < CreditsPerSweep \/ ~active
    /\ Goto(r, "idle")
    /\ UNCHANGED <<lifeVars, poll, budgetVars, cacheVars, raw, overlapped>>

\* A concurrency slot: runners that are in the poller hold one.
TakeSlot(r) ==
    /\ runner[r] = "slot"
    /\ Cardinality({q \in Runners : InPoller(q)}) < MaxConcurrentPolls
    /\ Goto(r, "fetch")
    /\ overlapped' = overlapped \cup {League(q) : q \in {p \in Runners : League(p) = League(r) /\ InPoller(p)}}
    /\ UNCHANGED <<lifeVars, poll, budgetVars, cacheVars, raw>>

\* The context ends first: the one refundable case.
LeaveQueue(r) ==
    /\ runner[r] = "slot"
    /\ ~active
    /\ Refund
    /\ Goto(r, "idle")
    /\ UNCHANGED <<lifeVars, poll, cacheVars, raw, overlapped>>

-----------------------------------------------------------------------------
(* The poller *)

\* Poll fails before consume: the provider, its answer, or PollTimeout.
FetchFails(r) ==
    /\ runner[r] = "fetch"
    /\ \E reading \in Readings : Reconcile(reading)
    /\ Goto(r, "idle")
    /\ UNCHANGED <<lifeVars, poll, cacheVars, raw, overlapped>>

\* The answer, the quota reading taken with it, and what consume reads of the
\* league's caches before it publishes anything.
Answer(r) ==
    /\ runner[r] = "fetch"
    /\ \E a \in Answers[League(r)], q \in Readings :
          poll' = [poll EXCEPT ![r] =
                     [answer |-> a, reading |-> q, todo |-> Listed(a), done |-> {},
                      prev |-> [e \in EventsOf(League(r)) |-> digests[e]],
                      last |-> [e \in EventsOf(League(r)) |-> published[e]]]]
    /\ Goto(r, "consume")
    /\ UNCHANGED <<lifeVars, budgetVars, cacheVars, raw, overlapped>>

\* A listed market that was not remembered, or not with this content.
Moved(p, e) == \E m \in Markets : p.answer[e][m] # Nothing /\ p.answer[e][m] # p.prev[e][m]

\* consume publishes what moved, what never reached the bus, and what has been
\* suppressed for refreshAfter.
Wanted(p, e) == Moved(p, e) \/ p.last[e] = "never" \/ p.last[e] = "due"

\* The loop of consume goes on.
With(p, todo, done) == [answer |-> p.answer, reading |-> p.reading, todo |-> todo, done |-> done,
                        prev |-> p.prev, last |-> p.last]

PublishEvent(r, e) ==
    /\ runner[r] = "consume"
    /\ e \in poll[r].todo
    /\ Wanted(poll[r], e)
    /\ raw' = [raw EXCEPT ![e] = poll[r].answer[e]]
    /\ poll' = [poll EXCEPT ![r] = With(@, @.todo \ {e}, @.done \cup {e})]
    /\ UNCHANGED <<lifeVars, runner, budgetVars, cacheVars, overlapped>>

Suppress(r, e) ==
    /\ runner[r] = "consume"
    /\ e \in poll[r].todo
    /\ ~Wanted(poll[r], e)
    /\ poll' = [poll EXCEPT ![r] = With(@, @.todo \ {e}, @.done \cup {e})]
    /\ UNCHANGED <<lifeVars, runner, budgetVars, cacheVars, raw, overlapped>>

\* Variant: the digests of an event are recorded although its publish failed.
PublishFails_Remembered(r, e) ==
    /\ runner[r] = "consume"
    /\ e \in poll[r].todo
    /\ Wanted(poll[r], e)
    /\ UNCHANGED raw
    /\ poll' = [poll EXCEPT ![r] = With(@, {}, @.done \cup {e})]
    /\ UNCHANGED <<lifeVars, runner, budgetVars, cacheVars, overlapped>>

\* The publish fails, with the record on the topic or not: the loop ends, and
\* neither this event nor those after it are remembered.
PublishFails(r, e) ==
    /\ runner[r] = "consume"
    /\ e \in poll[r].todo
    /\ Wanted(poll[r], e)
    /\ raw' \in {raw, [raw EXCEPT ![e] = poll[r].answer[e]]}
    /\ poll' = [poll EXCEPT ![r] = With(@, {}, @.done)]
    /\ UNCHANGED <<lifeVars, runner, budgetVars, cacheVars, overlapped>>

\* A payload that stays suppressed keeps its age.
Older(s, t) == IF "due" \in {s, t} THEN "due" ELSE "fresh"

\* consume installs the league's caches wholesale, sweep reconciles the quota
\* and frees the slot.
Finish(r) ==
    LET p == poll[r]
        mine(e) == LeagueOf[e] = League(r)
    IN  /\ runner[r] = "consume"
        /\ p.todo = {}
        /\ digests' = [e \in Events |-> IF ~mine(e) THEN digests[e]
                                        ELSE IF e \in p.done THEN p.answer[e] ELSE Unlisted]
        /\ published' = [e \in Events |-> IF ~mine(e) THEN published[e]
                                          ELSE IF e \notin p.done THEN "never"
                                          ELSE IF Wanted(p, e) THEN "fresh" ELSE Older(p.last[e], published[e])]
        /\ Reconcile(p.reading)
        /\ poll' = [poll EXCEPT ![r] = Nothing]
        /\ Goto(r, "idle")
        /\ UNCHANGED <<lifeVars, raw, overlapped>>

\* refreshAfter has passed since the event's payload was published.
Age(e) ==
    /\ published[e] = "fresh"
    /\ published' = [published EXCEPT ![e] = "due"]
    /\ UNCHANGED <<lifeVars, runner, poll, budgetVars, digests, raw, overlapped>>

-----------------------------------------------------------------------------
(* The specification *)

SweepsInit ==
    /\ active = TRUE
    /\ run = "planning"
    /\ schedule = [l \in Leagues |-> 0]
    /\ runner = [r \in Runners |-> "unborn"]
    /\ stopped = {}
    /\ poll = [r \in Runners |-> Nothing]
    /\ tokens = Burst
    /\ spent = 0
    /\ reported = Nothing
    /\ digests = [e \in Events |-> Unlisted]
    /\ published = [e \in Events |-> "never"]
    /\ raw = [e \in Events |-> Unlisted]
    /\ overlapped = {}

Planning == PlannerEnds \/ Flush \/ \E present \in SUBSET Leagues : Refresh(present)
Waiting(r) == Due(r) \/ Exit(r) \/ Acquire(r) \/ GiveUp(r) \/ TakeSlot(r) \/ LeaveQueue(r)
Polling(r) ==
    \/ FetchFails(r) \/ Answer(r) \/ Finish(r)
    \/ \E e \in EventsOf(League(r)) : PublishEvent(r, e) \/ Suppress(r, e) \/ PublishFails(r, e)
Passing == Refill \/ Roll \/ \E e \in Events : Age(e)

SweepsNext == Planning \/ Cancel \/ Passing \/ \E r \in Runners : Waiting(r) \/ Polling(r)

SweepsSpec == SweepsInit /\ [][SweepsNext]_sweepsVars

-----------------------------------------------------------------------------
(* Properties *)

Places == {"unborn", "idle", "reserve", "slot", "fetch", "consume", "gone"}

SweepsTypeOK ==
    /\ active \in BOOLEAN
    /\ run \in {"planning", "waiting", "flushed"}
    /\ schedule \in [Leagues -> 0..MaxGenerations]
    /\ runner \in [Runners -> Places]
    /\ stopped \subseteq Runners
    /\ \A r \in Runners : (poll[r] # Nothing) = (runner[r] = "consume")
    /\ tokens \in 0..Burst
    /\ spent \in 0..MaxSpent
    /\ reported \in Nat \cup {Nothing}
    /\ digests \in [Events -> Listings]
    /\ published \in [Events -> {"never", "fresh", "due"}]
    /\ raw \in [Events -> Listings]
    /\ overlapped \subseteq Leagues

\* While no sweep of a league is publishing and none ever ran beside another of
\* the same league, what consume remembers of a market is what odds.raw holds:
\* a payload is only ever suppressed because its content is on the bus.
SuppressedIsOnTheBus ==
    \A e \in Events, m \in Markets :
        \/ LeagueOf[e] \in overlapped
        \/ \E r \in Runners : League(r) = LeagueOf[e] /\ runner[r] = "consume"
        \/ digests[e][m] = Nothing
        \/ raw[e][m] = digests[e][m]

\* Concurrent sweeps never reserve more than the period's credits between them,
\* as long as the provider has not said that it has more.
BudgetKept == reported = Nothing => spent <= Limit

\* The final flush of the producer is after the last publish of any sweep.
FlushIsLast == [][run = "flushed" => UNCHANGED raw]_sweepsVars

\* One league is only ever swept by one goroutine at a time, the poller's
\* comment says.  A runner that is retired while it waits for credits or a slot
\* sweeps all the same, beside the runner of the league's return.
OneSweepPerLeague ==
    \A r, q \in Runners : (InPoller(r) /\ InPoller(q) /\ League(r) = League(q)) => r = q
=============================================================================
