------------------------------ MODULE Gateway ------------------------------
(***************************************************************************)
(* The hub of one gateway replica (internal/wsgw/hub.go): the slate of      *)
(* Slate.tla, the routing table beside it, the connections, and the client  *)
(* requests.  Publication and registration share the slate's write lock, so *)
(* one critical section is one action, and a request that takes the lock    *)
(* twice (subscribe, resync) is two, with anything in between.              *)
(*                                                                          *)
(* A connection is reduced to what Conn.tla shows of it: numbered frames in *)
(* a bounded queue, an overflow that keeps only what the write loop took    *)
(* off the channel meanwhile, and the stream on its way to the client.      *)
(***************************************************************************)
EXTENDS Slate, Sequences

Sq == INSTANCE SequencesExt

CONSTANTS
    Conns,       \* connections, each used once
    Capacity,    \* Options.SendQueueCapacity
    MaxChannels, \* Options.MaxChannelsPerConnection
    WireCap,     \* bound: frames between the write loop and the client
    MaxFolds,    \* bound: records of the topic
    MaxAsked,    \* bound: requests clients make of their own accord
    Records,     \* Records[n]: what the n-th record of the topic may be
    Restorable   \* channels a session's durable set may hold

ASSUME CapacitiesAssumption == Capacity \in Nat \ {0} /\ MaxChannels \in Nat \ {0}
ASSUME RecordsAssumption == MaxFolds \in Nat /\ Records \in [1..MaxFolds -> SUBSET Deliveries]
ASSUME AskedAssumption == MaxAsked \in Nat
ASSUME RestorableAssumption == Restorable \subseteq Channels /\ IsFiniteSet(Restorable)

VARIABLES
    subs,       \* Hub.subs: for each channel with a subscriber, its connections
    subCount,   \* Hub.subCount
    live,       \* Hub.conns
    held,       \* held[c]: conn.channels
    denied,     \* denied[c]: channels the limit kept a subscribe from, the last time it asked
    link,       \* link[c]: numbers assigned, the send queue, frames on the wire
    phase,      \* phase[c]: where the handler that owns the connection is
    job,        \* job[c]: a request between its two critical sections
    up,         \* up[c]: requests the read loop has not read yet
    folds,      \* records folded so far
    shutdown,   \* Hub.Shutdown: its stage, and the connections it told and has yet to close
    asked       \* requests clients have made of their own accord

hubVars == <<subs, subCount, live, held, denied>>
connVars == <<link, phase, job, up>>
gatewayVars == <<slateVars, hubVars, connVars, folds, shutdown, asked>>

-----------------------------------------------------------------------------
(* Data *)

\* A frame is a shared body with the connection's own number on it.
Hello(chs) == [kind |-> "hello", channels |-> chs]
AckOf(op, chs) == [kind |-> "ack", op |-> op, channels |-> chs]
SnapshotOf(ch) == [kind |-> "snapshot", ch |-> ch, markets |-> Snapshot(ch)]
Delta(ch, m, entry) == [kind |-> "delta", ch |-> ch, market |-> m, entry |-> entry]
Removal(ch, m) == [kind |-> "removal", ch |-> ch, market |-> m]
ResyncNotice == [kind |-> "resync"]
GoingAway == [kind |-> "error"]

NoJob == [op |-> "none", channels |-> <<>>]
Ready(c) == job[c] = NoJob

\* Hub.closed.
Closed == shutdown.stage # "no"

\* conn.closed: nothing is queued to a connection that is ending.
Open(c) == phase[c] \in {"registered", "serving"}

\* The elements of a sequence at some of its positions, in their order.
Taken(s, keep) ==
    [i \in 1..Cardinality(keep) |->
        s[CHOOSE j \in keep : Cardinality({k \in keep : k <= j}) = i]]

\* Those that are members of a set.
Among(s, set) == Taken(s, {i \in DOMAIN s : s[i] \in set})

-----------------------------------------------------------------------------
(* enqueue: the states a connection may be in after one frame, or several *)

Number(l, body) ==
    [seq |-> l.seq + 1, queue |-> Append(l.queue, [seq |-> l.seq + 1, body |-> body]),
     wire |-> l.wire]

\* The frame that does not fit is numbered too, then the resync.
Discard(l, keep) ==
    [seq |-> l.seq + 2, queue |-> <<[seq |-> l.seq + 2, body |-> ResyncNotice]>>,
     wire |-> l.wire \o Taken(l.queue, keep)]

\* Variant: one frame too many.
Enqueue_OffByOne(l, body, writing) ==
    IF Len(l.queue) <= Capacity THEN {Number(l, body)}
    ELSE {Discard(l, keep) : keep \in
            {k \in SUBSET DOMAIN l.queue :
                k # {} => writing /\ Len(l.wire) + Cardinality(k) <= WireCap}}

Enqueue(l, body, writing) ==
    IF Len(l.queue) < Capacity THEN {Number(l, body)}
    ELSE {Discard(l, keep) : keep \in
            {k \in SUBSET DOMAIN l.queue :
                k # {} => writing /\ Len(l.wire) + Cardinality(k) <= WireCap}}

EnqueueAll(l, bodies, writing) ==
    LET after[n \in 0..Len(bodies)] ==
            IF n = 0 THEN {l} ELSE UNION {Enqueue(x, bodies[n], writing) : x \in after[n - 1]}
    IN  after[Len(bodies)]

\* What queueing the bodies to one connection may leave behind.  Nothing is
\* written before serve starts the write loop.
Queued(c, bodies) ==
    IF ~Open(c) THEN {link[c]} ELSE EnqueueAll(link[c], bodies, phase[c] = "serving")

Send(c, bodies) == \E l \in Queued(c, bodies) : link' = [link EXCEPT ![c] = l]

-----------------------------------------------------------------------------
(* The routing table *)

Subscribers(ch) == IF ch \in DOMAIN subs THEN subs[ch] ELSE {}

\* addRouteLocked, for each channel of chs.
Routed(chs, c) ==
    [ch \in DOMAIN subs \cup chs |-> Subscribers(ch) \cup (IF ch \in chs THEN {c} ELSE {})]

\* Variant: the bucket of a channel's last subscriber stays.
Unrouted_KeepsEmptied(chs, c) ==
    [ch \in DOMAIN subs |-> IF ch \in chs THEN subs[ch] \ {c} ELSE subs[ch]]

\* removeRouteLocked, for each channel of chs: an emptied bucket is deleted.
Unrouted(chs, c) ==
    [ch \in {x \in DOMAIN subs : x \in chs => subs[x] \ {c} # {}} |->
        IF ch \in chs THEN subs[ch] \ {c} ELSE subs[ch]]

AddRoutes(c, chs) ==
    /\ subs' = Routed(chs, c)
    /\ denied' = denied
    /\ subCount' = subCount + Cardinality(chs \ held[c])
    /\ held' = [held EXCEPT ![c] = @ \cup chs]

\* Variant: the gauge drops once for each request.
RemoveRoutes_CountsOnce(c, chs) ==
    /\ subs' = Unrouted(chs, c)
    /\ denied' = denied
    /\ subCount' = IF subCount = 0 THEN 0 ELSE subCount - 1
    /\ held' = [held EXCEPT ![c] = @ \ chs]

\* chs are channels the connection holds.
RemoveRoutes(c, chs) ==
    /\ subs' = Unrouted(chs, c)
    /\ denied' = denied
    /\ subCount' = subCount - Cardinality(chs)
    /\ held' = [held EXCEPT ![c] = @ \ chs]

-----------------------------------------------------------------------------
(* Publication *)

\* The order of ChannelsFor: market, event, league.
InOrder(channels) == Among(<<"market", "event", "league">>, {ch.kind : ch \in channels})
ChannelOfKind(channels, k) == CHOOSE ch \in channels : ch.kind = k

BodyFor(res, ch) ==
    IF res.outcome = "stored" THEN Delta(ch, res.market, slate'[res.market])
    ELSE Removal(ch, res.market)

\* The frames one record puts on a connection's queue.
Fanout(c, res) ==
    LET kinds == InOrder({ch \in res.channels : c \in Subscribers(ch)})
    IN  [i \in DOMAIN kinds |-> BodyFor(res, ChannelOfKind(res.channels, kinds[i]))]

\* HandleMessage: fold and fan out under one lock.
Publish(d) ==
    /\ folds < MaxFolds
    /\ d \in Records[folds + 1]
    /\ folds' = folds + 1
    /\ Fold(d)
    /\ IF Changed(result')
       THEN link' \in {f \in [Conns -> UNION {Queued(c, Fanout(c, result')) : c \in Conns}] :
                          \A c \in Conns : f[c] \in Queued(c, Fanout(c, result'))}
       ELSE UNCHANGED link
    /\ UNCHANGED <<hubVars, phase, job, up, shutdown, asked>>

-----------------------------------------------------------------------------
(* Registration *)

\* A client's handshake is accepted.
Upgrade(c) ==
    /\ phase[c] = "idle"
    /\ phase' = [phase EXCEPT ![c] = "upgraded"]
    /\ UNCHANGED <<slateVars, hubVars, link, job, up, folds, shutdown, asked>>

\* The restore is I/O, outside the lock; a failed restore is an empty set.
Restore(c) ==
    /\ phase[c] = "upgraded"
    /\ IF Closed
       THEN phase' = [phase EXCEPT ![c] = "refused"] /\ UNCHANGED job
       ELSE \E restored \in SUBSET Restorable :
            /\ Cardinality(restored) <= MaxChannels
            /\ job' = [job EXCEPT ![c] = [op |-> "register", channels |-> Sq!SetToSeq(restored)]]
            /\ phase' = [phase EXCEPT ![c] = "restored"]
    /\ UNCHANGED <<slateVars, hubVars, link, up, folds, shutdown, asked>>

\* Variant: the closed flag is not checked again under the lock.
Register_Unchecked(c) ==
    /\ phase[c] = "restored"
    /\ job' = [job EXCEPT ![c] = NoJob]
    /\ LET chs == job[c].channels
       IN  /\ live' = live \cup {c}
           /\ AddRoutes(c, Sq!ToSet(chs))
           /\ \E l \in EnqueueAll(link[c], <<Hello(chs)>> \o
                                  [i \in DOMAIN chs |-> SnapshotOf(chs[i])], FALSE) :
                link' = [link EXCEPT ![c] = l]
           /\ phase' = [phase EXCEPT ![c] = "registered"]
    /\ UNCHANGED <<slateVars, up, folds, shutdown, asked>>

\* Register's critical section: hello, then each restored channel and its
\* snapshot, unless the hub closed meanwhile.
Register(c) ==
    /\ phase[c] = "restored"
    /\ job' = [job EXCEPT ![c] = NoJob]
    /\ IF Closed
       THEN phase' = [phase EXCEPT ![c] = "refused"] /\ UNCHANGED <<hubVars, link>>
       ELSE LET chs == job[c].channels
            IN  /\ live' = live \cup {c}
                /\ AddRoutes(c, Sq!ToSet(chs))
                /\ \E l \in EnqueueAll(link[c], <<Hello(chs)>> \o
                                       [i \in DOMAIN chs |-> SnapshotOf(chs[i])], FALSE) :
                     link' = [link EXCEPT ![c] = l]
                /\ phase' = [phase EXCEPT ![c] = "registered"]
    /\ UNCHANGED <<slateVars, up, folds, shutdown, asked>>

\* serve starts the loops.
Serve(c) ==
    /\ phase[c] = "registered"
    /\ phase' = [phase EXCEPT ![c] = "serving"]
    /\ UNCHANGED <<slateVars, hubVars, link, job, up, folds, shutdown, asked>>

\* requestClose, whatever the reason.
Close(c) ==
    /\ Open(c)
    /\ phase' = [phase EXCEPT ![c] = "closing"]
    /\ UNCHANGED <<slateVars, hubVars, link, job, up, folds, shutdown, asked>>

\* The read loop has returned, so no request is half done.
Unregister(c) ==
    /\ phase[c] = "closing"
    /\ Ready(c)
    /\ live' = live \ {c}
    /\ RemoveRoutes(c, held[c])
    /\ link' = [link EXCEPT ![c].queue = <<>>]
    /\ phase' = [phase EXCEPT ![c] = "gone"]
    /\ up' = [up EXCEPT ![c] = <<>>]
    /\ UNCHANGED <<slateVars, job, folds, shutdown, asked>>

-----------------------------------------------------------------------------
(* Client requests, one at a time: the read loop handles them *)

Requested(c, op) ==
    phase[c] = "serving" /\ Ready(c) /\ up[c] # <<>> /\ Head(up[c]).op = op

\* Where a request names a channel for the first time that is not held.
Fresh(c, chs) == {i \in DOMAIN chs : chs[i] \notin held[c] /\ \A j \in 1..i - 1 : chs[j] # chs[i]}

\* Variant: the room is not shared by the channels of one request.
Accepted_EachAgainstLimit(c, chs) ==
    LET room == MaxChannels - Cardinality(held[c])
    IN  Taken(chs, {i \in Fresh(c, chs) : room > 0})

\* The channels of a subscribe that are new and within the limit.
Accepted(c, chs) ==
    LET room == MaxChannels - Cardinality(held[c])
        before(i) == {j \in Fresh(c, chs) : j < i}
    IN  Taken(chs, {i \in Fresh(c, chs) : Cardinality(before(i)) < room})

\* subscribe, first critical section: classification reserves nothing.
ClassifySubscribe(c) ==
    /\ Requested(c, "subscribe")
    /\ LET chs == Head(up[c]).channels
           new == Sq!ToSet(chs) \ held[c]
           accepted == Accepted(c, chs)
       IN  /\ job' = [job EXCEPT ![c] = [op |-> "subscribe", channels |-> accepted]]
           /\ denied' = [denied EXCEPT ![c] = (@ \cup new) \ Sq!ToSet(accepted)]
    /\ up' = [up EXCEPT ![c] = Tail(@)]
    /\ UNCHANGED <<slateVars, subs, subCount, live, held, link, phase, folds, shutdown, asked>>

\* subscribe, second: the ack, then each channel's route and snapshot.
AttachSubscribe(c) ==
    /\ job[c].op = "subscribe"
    /\ LET chs == job[c].channels
       IN  /\ AddRoutes(c, Sq!ToSet(chs))
           /\ Send(c, <<AckOf("subscribe", chs)>> \o [i \in DOMAIN chs |-> SnapshotOf(chs[i])])
    /\ job' = [job EXCEPT ![c] = NoJob]
    /\ UNCHANGED <<slateVars, live, phase, up, folds, shutdown, asked>>

\* Variant: the routes go in a critical section after the acknowledgement.
Unsubscribe_AckOnly(c) ==
    /\ Requested(c, "unsubscribe")
    /\ LET chs == Among(Head(up[c]).channels, held[c])
       IN  /\ held' = [held EXCEPT ![c] = @ \ Sq!ToSet(chs)]
           /\ subCount' = subCount - Cardinality(Sq!ToSet(chs))
           /\ Send(c, <<AckOf("unsubscribe", chs)>>)
    /\ up' = [up EXCEPT ![c] = Tail(@)]
    /\ UNCHANGED <<slateVars, subs, live, denied, phase, job, folds, shutdown, asked>>

\* unsubscribe: routes and acknowledgement in one critical section.
Unsubscribe(c) ==
    /\ Requested(c, "unsubscribe")
    /\ LET chs == Among(Head(up[c]).channels, held[c])
       IN  /\ RemoveRoutes(c, Sq!ToSet(chs))
           /\ Send(c, <<AckOf("unsubscribe", chs)>>)
    /\ up' = [up EXCEPT ![c] = Tail(@)]
    /\ UNCHANGED <<slateVars, live, phase, job, folds, shutdown, asked>>

\* resync, first critical section: the named channels that are held, or all.
PickResync(c) ==
    /\ Requested(c, "resync")
    /\ up' = [up EXCEPT ![c] = Tail(@)]
    /\ LET named == Head(up[c]).channels
           targets == IF named = <<>> THEN Sq!SetToSeq(held[c])
                      ELSE Among(named, held[c])
       IN  job' = [job EXCEPT ![c] = IF targets = <<>> THEN NoJob
                                     ELSE [op |-> "resync", channels |-> targets]]
    /\ UNCHANGED <<slateVars, hubVars, link, phase, folds, shutdown, asked>>

\* Variant: the answer overtakes what is queued.
AttachResync_Overtakes(c) ==
    /\ job[c].op = "resync"
    /\ LET chs == job[c].channels
           fill == [i \in DOMAIN chs |-> [seq |-> link[c].seq + i, body |-> SnapshotOf(chs[i])]]
       IN  IF Open(c) /\ Len(link[c].wire) + Len(chs) <= WireCap
           THEN link' = [link EXCEPT ![c].seq = @ + Len(chs), ![c].wire = @ \o fill]
           ELSE UNCHANGED link
    /\ job' = [job EXCEPT ![c] = NoJob]
    /\ UNCHANGED <<slateVars, hubVars, phase, up, folds, shutdown, asked>>

\* resync, second: a snapshot each.
AttachResync(c) ==
    /\ job[c].op = "resync"
    /\ LET chs == job[c].channels IN Send(c, [i \in DOMAIN chs |-> SnapshotOf(chs[i])])
    /\ job' = [job EXCEPT ![c] = NoJob]
    /\ UNCHANGED <<slateVars, hubVars, phase, up, folds, shutdown, asked>>

\* The write loop.
Transmit(c) ==
    /\ phase[c] \in {"serving", "closing"}
    /\ link[c].queue # <<>>
    /\ Len(link[c].wire) < WireCap
    /\ link' = [link EXCEPT ![c].queue = Tail(@), ![c].wire = Append(@, Head(link[c].queue))]
    /\ UNCHANGED <<slateVars, hubVars, phase, job, up, folds, shutdown, asked>>

-----------------------------------------------------------------------------
(* Shutdown *)

\* The flag is swapped, then the connections of that moment are collected.
BeginShutdown ==
    /\ ~Closed
    /\ shutdown' = [shutdown EXCEPT !.stage = "closed"]
    /\ UNCHANGED <<slateVars, hubVars, connVars, folds, asked>>

Collect ==
    /\ shutdown.stage = "closed"
    /\ shutdown' = [stage |-> "collected", told |-> {}, toClose |-> live]
    /\ UNCHANGED <<slateVars, hubVars, connVars, folds, asked>>

Farewell(c) ==
    /\ c \in shutdown.toClose \ shutdown.told
    /\ Send(c, <<GoingAway>>)
    /\ shutdown' = [shutdown EXCEPT !.told = @ \cup {c}]
    /\ UNCHANGED <<slateVars, hubVars, phase, job, up, folds, asked>>

\* Variant: the drain waits for every queue.
CloseForShutdown_Unbounded(c) ==
    /\ c \in shutdown.toClose
    /\ shutdown.toClose \subseteq shutdown.told
    /\ link[c].queue = <<>>
    /\ phase' = [phase EXCEPT ![c] = IF Open(c) THEN "closing" ELSE @]
    /\ shutdown' = [shutdown EXCEPT !.toClose = @ \ {c}]
    /\ UNCHANGED <<slateVars, hubVars, link, job, up, folds, asked>>

\* The drain is bounded, so the close may come with frames still queued.
CloseForShutdown(c) ==
    /\ c \in shutdown.toClose
    /\ shutdown.toClose \subseteq shutdown.told
    /\ phase' = [phase EXCEPT ![c] = IF Open(c) THEN "closing" ELSE @]
    /\ shutdown' = [shutdown EXCEPT !.toClose = @ \ {c}]
    /\ UNCHANGED <<slateVars, hubVars, link, job, up, folds, asked>>

-----------------------------------------------------------------------------
(* The specification, with clients that ask for anything *)

Requests == [op : {"subscribe", "unsubscribe", "resync"}, channels : {<<>>}]
              \cup [op : {"subscribe", "unsubscribe", "resync"},
                    channels : {<<ch>> : ch \in Restorable}]
              \cup [op : {"subscribe"},
                    channels : {<<a, b>> : a, b \in Restorable}]

Asks(c) ==
    /\ phase[c] = "serving"
    /\ asked < MaxAsked
    /\ asked' = asked + 1
    /\ \E req \in Requests : up' = [up EXCEPT ![c] = Append(@, req)]
    /\ UNCHANGED <<slateVars, hubVars, link, phase, job, folds, shutdown>>

Receives(c) ==
    /\ link[c].wire # <<>>
    /\ link' = [link EXCEPT ![c].wire = Tail(@)]
    /\ UNCHANGED <<slateVars, hubVars, phase, job, up, folds, shutdown, asked>>

GatewayInit ==
    /\ SlateInit
    /\ subs = [ch \in {} |-> {}]
    /\ subCount = 0
    /\ live = {}
    /\ held = [c \in Conns |-> {}]
    /\ denied = [c \in Conns |-> {}]
    /\ link = [c \in Conns |-> [seq |-> 0, queue |-> <<>>, wire |-> <<>>]]
    /\ phase = [c \in Conns |-> "idle"]
    /\ job = [c \in Conns |-> NoJob]
    /\ up = [c \in Conns |-> <<>>]
    /\ folds = 0
    /\ shutdown = [stage |-> "no", told |-> {}, toClose |-> {}]
    /\ asked = 0

Handling(c) == Unsubscribe(c) \/ ClassifySubscribe(c) \/ AttachSubscribe(c)
                 \/ PickResync(c) \/ AttachResync(c)
ShuttingDown == BeginShutdown \/ Collect \/ \E c \in Conns : Farewell(c) \/ CloseForShutdown(c)

HubNext ==
    \/ \E d \in Deliveries : Publish(d)
    \/ \E c \in Conns :
         \/ Restore(c) \/ Register(c) \/ Serve(c) \/ Close(c) \/ Unregister(c)
         \/ Handling(c)
         \/ Transmit(c)

GatewayNext == HubNext \/ ShuttingDown \/ \E c \in Conns : Upgrade(c) \/ Asks(c) \/ Receives(c)

GatewaySpec == GatewayInit /\ [][GatewayNext]_gatewayVars

\* Critical sections complete; an ended connection is unregistered, which
\* Conn.tla shows of serve (Ends).
GatewayFairness ==
    /\ WF_gatewayVars(Collect)
    /\ \A c \in Conns :
        /\ WF_gatewayVars(Restore(c)) /\ WF_gatewayVars(Register(c)) /\ WF_gatewayVars(Serve(c))
        /\ WF_gatewayVars(AttachSubscribe(c)) /\ WF_gatewayVars(AttachResync(c))
        /\ WF_gatewayVars(Unregister(c))
        /\ WF_gatewayVars(Farewell(c)) /\ WF_gatewayVars(CloseForShutdown(c))

FairGatewaySpec == GatewaySpec /\ GatewayFairness

-----------------------------------------------------------------------------
(* Properties *)

Phases == {"idle", "upgraded", "restored", "refused", "registered", "serving", "closing", "gone"}

\* The gauge against the routes, and the cap of each connection.
SubscriptionsCounted == subCount = Cardinality({p \in Conns \X Channels : p[2] \in held[p[1]]})
WithinLimit == \A c \in Conns : Cardinality(held[c]) <= MaxChannels

\* The type of the hub's state; the gauge of subscriptions counts the routes,
\* however they came and went, and the cap on a connection's channels holds
\* though subscribe classifies in one critical section and adds in another.
GatewayTypeOK ==
    /\ SlateTypeOK
    /\ SubscriptionsCounted
    /\ WithinLimit
    /\ subs \in UNION {[chs -> SUBSET Conns] : chs \in SUBSET Channels}
    /\ subCount \in Nat
    /\ live \in SUBSET Conns
    /\ {held, denied} \subseteq [Conns -> SUBSET Channels]
    /\ phase \in [Conns -> Phases]
    /\ \A c \in Conns : Len(link[c].queue) <= Capacity
    /\ folds \in 0..MaxFolds
    /\ asked \in 0..MaxAsked

\* The routing table says exactly what the connections hold: no bucket without
\* a subscriber, none for a connection that is not live, and the gauge counts
\* it.  A route without a holding is a delta on a channel the client has left.
RoutesMatchHeld ==
    /\ DOMAIN subs = UNION {held[c] : c \in Conns}
    /\ \A ch \in DOMAIN subs : subs[ch] = {c \in Conns : ch \in held[c]}
    /\ \A c \in Conns : c \notin live => held[c] = {}

Outgoing(c) == link[c].wire \o link[c].queue

\* An unsubscribe's ack is the last thing a client receives for a channel: what
\* follows on it comes after a new subscription, or after a hole in the numbers,
\* where the ack of one may be lost.
UnsubscribedSilence ==
    \A c \in Conns : LET out == Outgoing(c) IN
        \A i, j \in DOMAIN out :
            (/\ i < j
             /\ out[i].body.kind = "ack" /\ out[i].body.op = "unsubscribe"
             /\ out[j].body.kind \in {"snapshot", "delta", "removal"}
             /\ out[j].body.ch \in Sq!ToSet(out[i].body.channels))
            => \E k \in i + 1..j :
                \/ out[k].seq # out[k - 1].seq + 1
                \/ /\ out[k].body.kind = "ack" /\ out[k].body.op = "subscribe"
                   /\ out[j].body.ch \in Sq!ToSet(out[k].body.channels)

\* The hub admits nobody it will not close: once Shutdown has collected, every
\* open connection is one it collected and has yet to close.
NobodyAdmittedLate ==
    shutdown.stage = "collected" => {c \in Conns : Open(c)} \subseteq shutdown.toClose

\* Shutdown ends with no connection live, none of them stuck in a request or
\* between admission and its loops.
ShutdownEmptiesHub == Closed ~> live = {}

\* HelloFrame is the first frame on every connection.
HelloComesFirst ==
    \A c \in Conns : LET out == Outgoing(c) IN
        (out # <<>> /\ phase[c] = "registered") => Head(out).body.kind = "hello"
=============================================================================
