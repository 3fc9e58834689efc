---------------------------- MODULE BoardClient ----------------------------
(***************************************************************************)
(* The browser: web/src/lib/ws/client.ts and the slate it feeds, store.ts,  *)
(* against the hub of Gateway.tla.  JavaScript runs one event at a time, so *)
(* a message, with everything its listeners do, is one action.  The browser *)
(* uses one connection after another.  Prices, rails and counters of the    *)
(* store are left out: a market is the entry the slate holds.               *)
(***************************************************************************)
EXTENDS Gateway

VARIABLES
    socket,     \* WsClient.socket: the connection in use, or None
    expected,   \* expectedSeq
    status,     \* StreamState.status
    wanted,     \* WsClient.held: the channels the pages want
    markets,    \* MarketSlate.markets
    members     \* MarketSlate.channelMarkets: the markets of each known channel

CONSTANT None   \* no socket

ASSUME NoneAssumption == None \notin Conns

boardVars == <<socket, expected, status, wanted, markets, members>>
boardGatewayVars == <<gatewayVars, boardVars>>

Ask(op, chs) == [op |-> op, channels |-> chs]

\* WsClient.send: dropped unless the socket is open.
Sends(reqs) ==
    IF socket = None THEN UNCHANGED up
    ELSE up' = [up EXCEPT ![socket] = @ \o reqs]

-----------------------------------------------------------------------------
(* store.ts *)

NoMarkets == [m \in Markets |-> Absent]
NoMembers == [ch \in {} |-> {}]

Members(ch) == IF ch \in DOMAIN members THEN members[ch] ELSE {}

\* applySnapshot: the channel's markets are those of the snapshot, and each
\* document of it is taken.  A market that left the channel keeps its document.
ApplySnapshot(f) ==
    /\ members' = [ch \in DOMAIN members \cup {f.ch} |->
                     IF ch = f.ch THEN DOMAIN f.markets ELSE members[ch]]
    /\ markets' = [m \in Markets |-> IF m \in DOMAIN f.markets THEN f.markets[m] ELSE markets[m]]

\* Variant: a delta does not make its channel known, so its market is not a member.
ApplyDelta_KnownChannels(f) ==
    /\ members' = members
    /\ markets' = [markets EXCEPT ![f.market] = f.entry]

\* applyDelta, an update.
ApplyDelta(f) ==
    /\ members' = [ch \in DOMAIN members \cup {f.ch} |->
                     IF ch = f.ch THEN Members(ch) \cup {f.market} ELSE members[ch]]
    /\ markets' = [markets EXCEPT ![f.market] = f.entry]

\* Variant: only the document goes.
ApplyRemoval_DocumentOnly(f) ==
    /\ members' = members
    /\ markets' = [markets EXCEPT ![f.market] = Absent]

\* applyDelta, a removal: the market leaves every channel.
ApplyRemoval(f) ==
    /\ members' = IF markets[f.market] = Absent THEN members
                  ELSE [ch \in DOMAIN members |-> members[ch] \ {f.market}]
    /\ markets' = [markets EXCEPT ![f.market] = Absent]

Apply(f) ==
    CASE f.kind = "snapshot" -> ApplySnapshot(f)
      [] f.kind = "delta" -> ApplyDelta(f)
      [] f.kind = "removal" -> ApplyRemoval(f)
      [] OTHER -> UNCHANGED <<markets, members>>

-----------------------------------------------------------------------------
(* client.ts *)

Gapped(frame) == frame.seq # expected

\* What one frame makes the client send: a gap asks for every channel again,
\* a resync frame subscribes to every wanted channel again.
Answers_IgnoresGaps(frame) ==
    IF frame.body.kind = "resync" /\ wanted # {}
    THEN <<Ask("subscribe", Sq!SetToSeq(wanted))>> ELSE <<>>
Answers(frame) ==
    (IF Gapped(frame) THEN <<Ask("resync", <<>>)>> ELSE <<>>)
      \o (IF frame.body.kind = "resync" /\ wanted # {}
          THEN <<Ask("subscribe", Sq!SetToSeq(wanted))>> ELSE <<>>)

\* Variant: a snapshot does not end the resyncing state.
StatusAfter_SnapshotIgnored(frame) ==
    LET kind == frame.body.kind
        noted == IF Gapped(frame) /\ status = "open" THEN "resyncing" ELSE status
    IN  IF kind = "hello" THEN "open"
        ELSE IF kind = "resync" THEN (IF wanted = {} THEN "open" ELSE "resyncing")
        ELSE noted

\* route, after noteFrame has seen the gap.
StatusAfter(frame) ==
    LET kind == frame.body.kind
        noted == IF Gapped(frame) /\ status = "open" THEN "resyncing" ELSE status
    IN  IF kind = "hello" THEN "open"
        ELSE IF kind = "snapshot" /\ noted = "resyncing" THEN "open"
        ELSE IF kind = "resync" THEN (IF wanted = {} THEN "open" ELSE "resyncing")
        ELSE IF kind = "ack" /\ noted = "resyncing" /\ wanted = {} THEN "open"
        ELSE noted

Message ==
    /\ socket # None
    /\ link[socket].wire # <<>>
    /\ LET frame == Head(link[socket].wire)
       IN  /\ expected' = frame.seq + 1
           /\ Sends(Answers(frame))
           /\ status' = StatusAfter(frame)
           /\ Apply(frame.body)
    /\ link' = [link EXCEPT ![socket].wire = Tail(@)]
    /\ UNCHANGED <<slateVars, hubVars, phase, job, folds, shutdown, asked, socket, wanted>>

\* Variant: only channels wanted while the socket is open are asked for.
Opens_AsksNothing(c) ==
    /\ socket = None
    /\ phase[c] = "idle"
    /\ phase' = [phase EXCEPT ![c] = "upgraded"]
    /\ socket' = c
    /\ expected' = 1
    /\ status' = IF status = "idle" THEN "connecting" ELSE "reconnecting"
    /\ markets' = NoMarkets
    /\ members' = NoMembers
    /\ UNCHANGED <<slateVars, hubVars, link, job, up, folds, shutdown, asked, wanted>>

\* openSocket and, once the handshake is done, onOpen: the store is cleared
\* and the wanted channels are asked for.
Opens(c) ==
    /\ socket = None
    /\ phase[c] = "idle"
    /\ phase' = [phase EXCEPT ![c] = "upgraded"]
    /\ socket' = c
    /\ expected' = 1
    /\ status' = IF status = "idle" THEN "connecting" ELSE "reconnecting"
    /\ up' = [up EXCEPT ![c] =
                IF wanted = {} THEN <<>> ELSE <<Ask("subscribe", Sq!SetToSeq(wanted))>>]
    /\ markets' = NoMarkets
    /\ members' = NoMembers
    /\ UNCHANGED <<slateVars, hubVars, link, job, folds, shutdown, asked, wanted>>

\* onClose; frames the socket still carried may be lost with it.
Closes ==
    /\ socket # None
    /\ phase[socket] \in {"closing", "gone", "refused"}
    /\ socket' = None
    /\ status' = "reconnecting"
    /\ link' = [link EXCEPT ![socket].wire = <<>>]
    /\ UNCHANGED <<slateVars, hubVars, phase, job, up, folds, shutdown, asked, expected, wanted,
                   markets, members>>

\* A page acquires a channel, or its release timer fires.
Wants(ch) ==
    /\ asked < MaxAsked
    /\ asked' = asked + 1
    /\ \/ /\ ch \notin wanted
          /\ wanted' = wanted \cup {ch}
          /\ Sends(<<Ask("subscribe", <<ch>>)>>)
       \/ /\ ch \in wanted
          /\ wanted' = wanted \ {ch}
          /\ Sends(<<Ask("unsubscribe", <<ch>>)>>)
    /\ UNCHANGED <<slateVars, hubVars, link, phase, job, folds, shutdown, socket, expected, status,
                   markets, members>>

-----------------------------------------------------------------------------
(* The specification *)

\* A page opens with some of the channels wanted.
BoardInit ==
    /\ GatewayInit
    /\ socket = None
    /\ expected = 1
    /\ status = "idle"
    /\ wanted \in SUBSET Restorable
    /\ markets = NoMarkets
    /\ members = NoMembers

BoardNext ==
    \/ HubNext /\ UNCHANGED boardVars
    \/ Message
    \/ \E c \in Conns : Opens(c)
    \/ Closes
    \/ \E ch \in Restorable : Wants(ch)

BoardSpec == BoardInit /\ [][BoardNext]_boardGatewayVars

\* The loops of a connection that lasts, and the browser's event loop, go on.
BoardFairness ==
    /\ WF_boardGatewayVars(Message)
    /\ \A c \in Conns :
        /\ WF_boardGatewayVars(Restore(c) /\ UNCHANGED boardVars)
        /\ WF_boardGatewayVars(Register(c) /\ UNCHANGED boardVars)
        /\ WF_boardGatewayVars(Serve(c) /\ UNCHANGED boardVars)
        /\ WF_boardGatewayVars(Handling(c) /\ UNCHANGED boardVars)
        /\ WF_boardGatewayVars(Transmit(c) /\ UNCHANGED boardVars)

FairBoardSpec == BoardSpec /\ BoardFairness

-----------------------------------------------------------------------------
(* Properties *)

Statuses == {"idle", "connecting", "open", "resyncing", "reconnecting"}

\* The type of the client's state; a channel lists only markets that have a
\* document.
BoardTypeOK ==
    /\ socket \in Conns \cup {None}
    /\ status \in Statuses
    /\ wanted \in SUBSET Channels
    /\ markets \in [Markets -> Entries \cup {Absent}]
    /\ members \in UNION {[chs -> SUBSET Markets] : chs \in SUBSET Channels}
    /\ \A ch \in DOMAIN members, m \in Markets : m \in members[ch] => markets[m] # Absent

\* Nothing is under way between the client and the hub.
Settled ==
    /\ socket # None
    /\ phase[socket] = "serving"
    /\ Ready(socket)
    /\ up[socket] = <<>>
    /\ link[socket].queue = <<>> /\ link[socket].wire = <<>>

\* The channels the page shows: wanted, and held by the connection.
Shown == wanted \cap held[socket]

\* Whatever was lost or overtaken by a request, a client with nothing under way
\* shows exactly the slate on every channel: no market missing, none too many,
\* each at its latest document.
BoardCoherent ==
    Settled =>
        \A ch \in Shown :
            /\ Members(ch) = SnapshotMarkets(ch)
            /\ \A m \in Members(ch) : markets[m] = slate[m]

\* A reconnection is invisible to the pages: whatever the connection before it
\* held and the server restored, the wanted channels are held again, but for
\* those the server last answered its limit keeps out.
WantedHeld == Settled => wanted \subseteq held[socket] \cup denied[socket]

\* A client with nothing under way does not say it is resyncing.
StatusHonest == Settled => status # "resyncing"

\* What is promised of a board, and of what its hub sends it, at any moment.
BoardCorrect == UnsubscribedSilence /\ BoardTypeOK /\ BoardCoherent /\ StatusHonest

\* A market on the page never goes back to an earlier document: the snapshot
\* that answers a resync is queued under the lock that queues deltas.
NeverBackwards ==
    [][\A m \in Markets :
        (markets[m] # Absent /\ markets'[m] # Absent) =>
            markets'[m].payload >= markets[m].payload]_boardGatewayVars

\* A hole is always healed: a client that says it is resyncing stops saying so,
\* unless its connection ends.
ResyncEnds ==
    status = "resyncing" ~>
        \/ status # "resyncing"
        \/ socket # None /\ phase[socket] \in {"closing", "gone"}

\* A market that moves to another league leaves the board of its old one.
MovedMarketLeaves ==
    Settled => \A ch \in Shown : Members(ch) \subseteq SnapshotMarkets(ch)
=============================================================================
