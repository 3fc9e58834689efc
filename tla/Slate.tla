------------------------------- MODULE Slate -------------------------------
(***************************************************************************)
(* The in-memory slate of the stream gateway (internal/wsgw/state.go): the  *)
(* fold of the compacted topic price.computed, with the two secondary       *)
(* indexes that answer event: and league: snapshots.                        *)
(*                                                                          *)
(* Every operation of Store runs under one write lock, so one action is one *)
(* critical section.  Payload bytes are abstracted to members of Payloads,  *)
(* instants to small naturals with 0 for Go's zero time, and the checks     *)
(* that refuse a document to the form of the delivery.                      *)
(***************************************************************************)
EXTENDS Naturals, FiniteSets

CONSTANTS
    Markets,    \* market identifiers, the record keys of price.computed
    Events,     \* event identifiers
    Leagues,    \* league slugs
    Payloads,   \* the documents a market may carry
    MaxObs,     \* bound: the latest observation instant
    Routes,     \* Routes[m]: the event/league pairs documents of m may name
    Absent      \* the value of a market the slate does not hold

ASSUME InstantsAssumption == MaxObs \in Nat
ASSUME RoutesAssumption ==
    Routes \in [Markets -> SUBSET [event : Events, league : Leagues]]
ASSUME AbsentAssumption ==
    Absent \notin [obs : 0..MaxObs, payload : Payloads, event : Events, league : Leagues]

VARIABLES
    slate,      \* Store.markets: the market held under each key, or Absent
    byEvent,    \* Store.byEvent: a bucket of markets per event that has one
    byLeague,   \* Store.byLeague
    result      \* the ApplyResult of the last Fold

slateVars == <<slate, byEvent, byLeague, result>>

-----------------------------------------------------------------------------
(* Data *)

\* 0 is the zero time: no envelope instant, or a document without one.
Instants == 0..MaxObs

MarketChannel(m) == [kind |-> "market", id |-> m]
EventChannel(e) == [kind |-> "event", id |-> e]
LeagueChannel(l) == [kind |-> "league", id |-> l]

Channels == {MarketChannel(m) : m \in Markets}
              \cup {EventChannel(e) : e \in Events}
              \cup {LeagueChannel(l) : l \in Leagues}

Entries == [obs : Instants, payload : Payloads, event : Events, league : Leagues]

\* The one function that decides which channels a market is published on.
ChannelsFor(m, entry) ==
    {MarketChannel(m), EventChannel(entry.event), LeagueChannel(entry.league)}

\* What a record of the topic may be.  A "refused" delivery stands for every
\* document Fold cannot hold: undecodable, invalid, keyed to another market
\* than it names, or without a route; "unkeyed" for a key that is no market.
Documents ==
    {d \in [form : {"document"}, market : Markets, obs : Instants, docObs : Instants,
            payload : Payloads, route : [event : Events, league : Leagues]] :
        d.route \in Routes[d.market]}
Tombstones == [form : {"tombstone"}, market : Markets, obs : Instants]
Refusals == [form : {"refused", "unsupported"}, market : Markets]
Unkeyed == [form : {"unkeyed"}]
Deliveries == Documents \cup Tombstones \cup Refusals \cup Unkeyed

Outcome(o, m, channels) == [outcome |-> o, market |-> m, channels |-> channels]
Outcomes == {"stored", "removed", "stale", "rejected", "unsupported"}

Held == {m \in Markets : slate[m] # Absent}

\* Delivery.ObservedAt falls back to the document when the envelope has none.
EffectiveObs(d) == IF d.obs = 0 THEN d.docObs ELSE d.obs

EntryOf_Swapped(d) == [obs |-> EffectiveObs(d), payload |-> d.payload,
                       event |-> d.route.league, league |-> d.route.event]
EntryOf(d) == [obs |-> EffectiveObs(d), payload |-> d.payload,
               event |-> d.route.event, league |-> d.route.league]

\* An index bucket is created by its first market ...
Indexed(index, bucket, m) ==
    [b \in DOMAIN index \cup {bucket} |->
        IF b # bucket THEN index[b]
        ELSE {m} \cup IF bucket \in DOMAIN index THEN index[bucket] ELSE {}]

\* ... and deleted with its last one.
Deindexed_KeepsEmptied(index, bucket, m) ==
    IF bucket \notin DOMAIN index THEN index
    ELSE [index EXCEPT ![bucket] = @ \ {m}]
Deindexed(index, bucket, m) ==
    IF bucket \notin DOMAIN index THEN index
    ELSE LET emptied == index[bucket] \subseteq {m}
         IN  [b \in DOMAIN index \ (IF emptied THEN {bucket} ELSE {}) |->
                IF b = bucket THEN index[b] \ {m} ELSE index[b]]

\* The buckets left once the market a key already holds is torn down; field
\* is "event" or "league".
WithoutHeld_NoTeardown(index, m, field) == index
WithoutHeld(index, m, field) ==
    IF slate[m] = Absent THEN index ELSE Deindexed(index, slate[m][field], m)

\* snapshotLocked: the markets of a channel, read from the markets map for a
\* market: channel and through the indexes for the other two.
SnapshotMarkets(ch) ==
    {m \in Held :
        \/ ch.kind = "market" /\ m = ch.id
        \/ ch.kind = "event" /\ ch.id \in DOMAIN byEvent /\ m \in byEvent[ch.id]
        \/ ch.kind = "league" /\ ch.id \in DOMAIN byLeague /\ m \in byLeague[ch.id]}

Snapshot(ch) == [m \in SnapshotMarkets(ch) |-> slate[m]]

-----------------------------------------------------------------------------
(* The outcomes of Fold, in the order applyLocked decides them *)

Keep(res) ==
    /\ result' = res
    /\ UNCHANGED <<slate, byEvent, byLeague>>

Reject(d) ==
    \/ /\ d.form = "unkeyed"
       /\ Keep(Outcome("rejected", Absent, {}))
    \/ /\ d.form = "refused"
       /\ Keep(Outcome("rejected", d.market, {}))

RefuseType(d) ==
    /\ d.form = "unsupported"
    /\ Keep(Outcome("unsupported", d.market, {}))

\* A deletion carries an instant only where one is known; without it the
\* deletion always wins.
IsStale_DeletionsOnly(d) ==
    /\ slate[d.market] # Absent
    /\ d.form = "tombstone" /\ d.obs # 0 /\ d.obs < slate[d.market].obs
IsStale_DocumentsOnly(d) ==
    /\ slate[d.market] # Absent
    /\ d.form = "document" /\ EffectiveObs(d) < slate[d.market].obs
IsStale(d) ==
    /\ slate[d.market] # Absent
    /\ \/ /\ d.form = "document"
          /\ EffectiveObs(d) < slate[d.market].obs
       \/ /\ d.form = "tombstone"
          /\ d.obs # 0
          /\ d.obs < slate[d.market].obs

Skip(d) ==
    /\ d.form \in {"document", "tombstone"}
    /\ IsStale(d)
    /\ Keep(Outcome("stale", d.market, ChannelsFor(d.market, slate[d.market])))

\* An equal instant is applied: a republication is idempotent for a client.
Put(d) ==
    /\ d.form = "document"
    /\ ~IsStale(d)
    /\ LET entry == EntryOf(d) IN
        /\ slate' = [slate EXCEPT ![d.market] = entry]
        /\ byEvent' = Indexed(WithoutHeld(byEvent, d.market, "event"), entry.event, d.market)
        /\ byLeague' = Indexed(WithoutHeld(byLeague, d.market, "league"), entry.league, d.market)
        /\ result' = Outcome("stored", d.market, ChannelsFor(d.market, entry))

Remove(d) ==
    /\ d.form = "tombstone"
    /\ ~IsStale(d)
    /\ slate' = [slate EXCEPT ![d.market] = Absent]
    /\ byEvent' = WithoutHeld(byEvent, d.market, "event")
    /\ byLeague' = WithoutHeld(byLeague, d.market, "league")
    /\ result' = Outcome("removed", d.market,
                         IF slate[d.market] = Absent THEN {}
                         ELSE ChannelsFor(d.market, slate[d.market]))

Fold(d) == Reject(d) \/ RefuseType(d) \/ Skip(d) \/ Put(d) \/ Remove(d)

\* Fold calls the publish callback for these results and no others.
Changed_StoredOnly(res) == res.outcome = "stored"
Changed(res) ==
    \/ res.outcome = "stored"
    \/ res.outcome = "removed" /\ res.channels # {}

-----------------------------------------------------------------------------
(* The specification *)

\* No record has been folded: a result that Fold never publishes.
NoResult == Outcome("rejected", Absent, {})

SlateInit ==
    /\ slate = [m \in Markets |-> Absent]
    /\ byEvent = [e \in {} |-> {}]
    /\ byLeague = [l \in {} |-> {}]
    /\ result = NoResult

SlateNext == \E d \in Deliveries : Fold(d)

SlateSpec == SlateInit /\ [][SlateNext]_slateVars

-----------------------------------------------------------------------------
(* Properties *)

\* The type of every variable: an index is a partial function from the
\* buckets that exist to the markets in them.
SlateTypeOK ==
    /\ slate \in [Markets -> Entries \cup {Absent}]
    /\ byEvent \in UNION {[es -> SUBSET Markets] : es \in SUBSET Events}
    /\ byLeague \in UNION {[ls -> SUBSET Markets] : ls \in SUBSET Leagues}
    /\ result \in [outcome : Outcomes, market : Markets \cup {Absent},
                   channels : SUBSET Channels]

\* IndexExact: indexLocked and deindexLocked keep each index equal to what the held
\* markets say: no market missing from its bucket, none left in a bucket it
\* moved out of, and no empty bucket (the leak deindexLocked is there to stop).
Buckets(markets, field) ==
    LET held == {m \in Markets : markets[m] # Absent}
    IN  [b \in {markets[m][field] : m \in held} |-> {m \in held : markets[m][field] = b}]
IndexExact == byEvent = Buckets(slate, "event") /\ byLeague = Buckets(slate, "league")

\* The snapshot path and the publish path agree: a channel's snapshot holds
\* exactly the markets whose records are published on that channel.
SnapshotIsWhatIsPublished ==
    \A ch \in Channels :
        SnapshotMarkets(ch) = {m \in Held : ch \in ChannelsFor(m, slate[m])}

\* No fold replaces a held market by an older observation of it, and a deletion dated
\* before the observation held leaves the market as it is, whatever order records
\* arrive in.
NeverRegresses ==
    [][/\ \A m \in Markets :
            (slate[m] # Absent /\ slate'[m] # Absent) => slate'[m].obs >= slate[m].obs
       /\ \A d \in Tombstones :
            (Fold(d) /\ slate[d.market] # Absent /\ d.obs # 0 /\ d.obs < slate[d.market].obs)
                => slate'[d.market] = slate[d.market]]_slateVars

\* Fold announces every change of the slate, on every channel on which the
\* market is visible afterwards, and announces a removal on every channel on
\* which the market was visible before: no subscriber keeps a deleted market.
EveryChangeAnnounced ==
    [][\A m \in Markets : slate'[m] # slate[m] =>
        /\ Changed(result')
        /\ result'.market = m
        /\ IF slate'[m] = Absent
           THEN {ch \in Channels : m \in SnapshotMarkets(ch)} \subseteq result'.channels
           ELSE {ch \in Channels : m \in SnapshotMarkets(ch)'} \subseteq result'.channels]_slateVars
=============================================================================
