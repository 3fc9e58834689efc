---------------------------- MODULE BoardProofs ----------------------------
(***************************************************************************)
(* Proofs about the browser: what its pages show is what the hub holds,     *)
(* whatever an overflow discarded, whenever the page changed its mind and   *)
(* whichever connection it is on.  Of two theorems the hypotheses are about  *)
(* the records: RoutesFixed, without which the board is not coherent, and    *)
(* Increasing, which says what an earlier document is.                      *)
(***************************************************************************)
EXTENDS GatewayProofs, BoardClient

-----------------------------------------------------------------------------
(* The hub's invariant under the browser's steps *)

\* A client opens a connection, sends requests and takes frames off a wire.
LEMMA ClientHub ==
    ASSUME HubInv, UNCHANGED <<slateVars, hubVars, job>>,
           link' \in [Conns -> Links], up' \in [Conns -> Seq(Asked)],
           \/ phase' = phase
           \/ \E c \in Conns : phase[c] = "idle" /\ phase' = [phase EXCEPT ![c] = "upgraded"]
    PROVE  HubInv'
<1>1. /\ RoutingInv /\ SlateInv /\ TypesInv /\ ConnTypes
      /\ Shape /\ RoutesExact /\ LiveExact /\ HeldLive /\ JobsLive
  BY DEF HubInv, RoutingInv, TypesInv
<1>2. UNCHANGED <<subs, subCount, live, held, denied, job>>
  BY DEF hubVars
<1>3. /\ phase' \in [Conns -> Phases]
      /\ \A c \in Conns : phase'[c] = phase[c] \/ (phase[c] = "idle" /\ phase'[c] = "upgraded")
  BY <1>1 DEF ConnTypes, Phases
<1>4. RoutingInv'
  <2>1. Shape' /\ RoutesExact' /\ HeldLive'
    BY <1>1, <1>2, <1>3 DEF Shape, RoutesExact, HeldLive
  <2>2. LiveExact' /\ JobsLive'
    BY <1>1, <1>2, <1>3 DEF LiveExact, LivePhases, JobsLive
  <2> QED BY <2>1, <2>2 DEF RoutingInv
<1>5. TypesInv'
  BY <1>1, <1>2, <1>3, LinkStepTypes
<1> QED BY <1>1, <1>4, <1>5, SlateKept DEF HubInv

\* The types the board's own steps keep.
BoardTypes ==
    /\ socket \in Conns \cup {None}
    /\ status \in Statuses
    /\ wanted \in SUBSET Restorable
    /\ expected \in Nat
    /\ \A c \in Conns : \A i \in DOMAIN up[c] : up[c][i].op = "resync" => up[c][i].channels = <<>>

\* What the browser asks for is a request.
Resync == Ask("resync", <<>>)
Again == Ask("subscribe", Sq!SetToSeq(wanted))

\* The browser's requests are requests of the hub.
LEMMA AsksAsked ==
    ASSUME wanted \in SUBSET Restorable
    PROVE  /\ Resync \in Asked /\ Again \in Asked
           /\ Resync.op = "resync" /\ Resync.channels = <<>>
           /\ Again.op = "subscribe" /\ Sq!ToSet(Again.channels) = wanted
           /\ wanted # {} => Again.channels # <<>>
           /\ \A ch \in Restorable : /\ Ask("subscribe", <<ch>>) \in Asked
                                     /\ Ask("unsubscribe", <<ch>>) \in Asked
                                     /\ Sq!ToSet(<<ch>>) = {ch}
<1>1. IsFiniteSet(wanted) /\ wanted \subseteq Channels /\ Restorable \subseteq Channels
  BY RestorableAssumption, FS_Subset
<1>2. Sq!SetToSeq(wanted) \in Seq(Channels) /\ Sq!ToSet(Sq!SetToSeq(wanted)) = wanted
  BY <1>1, ListedFacts
<1>3. Sq!ToSet(<<>>) = {}
  BY DEF Sq!ToSet
<1>4. <<>> \in Seq(Channels) /\ \A ch \in Restorable : <<ch>> \in Seq(Channels) /\ Sq!ToSet(<<ch>>) = {ch}
  <2> SUFFICES ASSUME NEW ch \in Restorable PROVE <<ch>> \in Seq(Channels) /\ Sq!ToSet(<<ch>>) = {ch}
    OBVIOUS
  <2>1. DOMAIN <<ch>> = {1} /\ <<ch>>[1] = ch
    OBVIOUS
  <2> QED BY <1>1, <2>1 DEF Sq!ToSet
<1> QED BY <1>2, <1>3, <1>4 DEF Resync, Again, Ask, Asked, RequestOps

\* One element put behind a sequence, as a tuple.
LEMMA PutBehind ==
    ASSUME NEW S, NEW s \in Seq(S), NEW x \in S
    PROVE  s \o <<x>> = Append(s, x)
<1> DEFINE N == Len(s)
           t == s \o <<x>>
           u == Append(s, x)
<1>1. /\ t \in Seq(S) /\ u \in Seq(S) /\ Len(t) = N + 1 /\ Len(u) = N + 1 /\ N \in Nat
      /\ t[N + 1] = x /\ u[N + 1] = x /\ \A i \in 1 .. N : t[i] = s[i] /\ u[i] = s[i]
  OBVIOUS
<1> HIDE DEF t, u
<1>2. \A i \in 1 .. Len(t) : t[i] = u[i]
  BY <1>1
<1>3. t = u
  BY <1>1, <1>2, SameSeq
<1> QED BY <1>3 DEF t, u

\* The requests a step of the browser adds to those on their way.
LEMMA Appended ==
    ASSUME NEW S, NEW s \in Seq(S), NEW a \in S, NEW b \in S
    PROVE  /\ s \o (<<>> \o <<>>) = s
           /\ s \o (<<a>> \o <<>>) = Append(s, a)
           /\ s \o (<<>> \o <<b>>) = Append(s, b)
           /\ s \o (<<a>> \o <<b>>) = Append(Append(s, a), b)
           /\ s \o <<a>> = Append(s, a)
<1> DEFINE N == Len(s)
<1>1. N \in Nat /\ <<a>> \in Seq(S) /\ <<b>> \in Seq(S) /\ <<>> \in Seq(S)
  OBVIOUS
<1>2. <<>> \o <<>> = <<>> /\ <<a>> \o <<>> = <<a>> /\ <<>> \o <<b>> = <<b>> /\ s \o <<>> = s
  OBVIOUS
<1>3. ASSUME NEW x \in S PROVE s \o <<x>> = Append(s, x)
  BY PutBehind
<1>4. s \o (<<a>> \o <<b>>) = Append(Append(s, a), b)
  <2> DEFINE u == Append(s, a)
  <2>1. u \in Seq(S) /\ u = s \o <<a>>
    BY <1>3
  <2>2. s \o (<<a>> \o <<b>>) = (s \o <<a>>) \o <<b>>
    OBVIOUS
  <2> HIDE DEF u
  <2>3. u \o <<b>> = Append(u, b)
    BY <2>1, PutBehind
  <2> QED BY <2>1, <2>2, <2>3 DEF u
<1> QED BY <1>2, <1>3, <1>4

\* The requests that are behind those of s in t.
Adds(s, t) ==
    \/ t = s
    \/ \E r \in Asked : t = Append(s, r)
    \/ \E q, r \in Asked : t = Append(Append(s, q), r)

LEMMA AddsType ==
    ASSUME NEW s \in Seq(Asked), NEW t, Adds(s, t)
    PROVE  t \in Seq(Asked)
BY DEF Adds

\* The first frame of the socket's wire, and what the browser asks when it reads it.
First == Head(link[socket].wire)
Answered(t) ==
    /\ Gapped(First) => IF First.body.kind = "resync" /\ wanted # {}
                        THEN t = Append(Append(up[socket], Resync), Again)
                        ELSE t = Append(up[socket], Resync)
    /\ ~Gapped(First) => IF First.body.kind = "resync" /\ wanted # {}
                         THEN t = Append(up[socket], Again)
                         ELSE t = up[socket]

\* What taking a frame does.
LEMMA MessageFacts ==
    ASSUME HubInv, BoardTypes, Message
    PROVE  /\ socket \in Conns /\ link[socket].wire # <<>>
           /\ First \in Frames /\ link[socket] \in Links
           /\ link' = [link EXCEPT ![socket] = [seq |-> link[socket].seq, queue |-> link[socket].queue,
                                                wire |-> Tail(link[socket].wire)]]
           /\ link' \in [Conns -> Links]
           /\ up' = [up EXCEPT ![socket] = up'[socket]] /\ up[socket] \in Seq(Asked)
           /\ Answered(up'[socket]) /\ Adds(up[socket], up'[socket]) /\ up' \in [Conns -> Seq(Asked)]
           /\ expected' = First.seq + 1 /\ status' = StatusAfter(First) /\ Apply(First.body)
           /\ UNCHANGED <<slateVars, hubVars, phase, job, folds, asked, shutdown, socket, wanted>>
<1>1. ConnTypes /\ socket \in Conns /\ link[socket].wire # <<>>
  BY DEF HubInv, TypesInv, Message, BoardTypes
<1>2. link[socket] \in Links /\ up[socket] \in Seq(Asked)
  BY <1>1 DEF ConnTypes
<1>3. First \in Frames /\ link[socket].wire \in Seq(Frames)
  BY <1>1, <1>2 DEF Links, LinksOf, Frames, First
<1>4. /\ link' = [link EXCEPT ![socket].wire = Tail(@)]
      /\ Sends(Answers(First))
      /\ expected' = First.seq + 1 /\ status' = StatusAfter(First) /\ Apply(First.body)
      /\ UNCHANGED <<slateVars, hubVars, phase, job, folds, asked, shutdown, socket, wanted>>
  BY DEF Message, First
<1>5. [link[socket] EXCEPT !.wire = Tail(@)]
        = [seq |-> link[socket].seq, queue |-> link[socket].queue, wire |-> Tail(link[socket].wire)]
  <2> DEFINE w == Tail(link[socket].wire)
  <2>1. [link[socket] EXCEPT !.wire = Tail(@)] = [link[socket] EXCEPT !.wire = w]
    OBVIOUS
  <2> HIDE DEF w
  <2>2. [link[socket] EXCEPT !.wire = w] = [seq |-> link[socket].seq, queue |-> link[socket].queue, wire |-> w]
    BY <1>2 DEF Links, LinksOf
  <2> QED BY <2>1, <2>2 DEF w
<1>6. [link[socket] EXCEPT !.wire = Tail(@)] \in Links
  BY <1>1, <1>2, MoveType
<1>7. link' \in [Conns -> Links]
  BY <1>1, <1>4, <1>6 DEF ConnTypes
<1>8. up' = [up EXCEPT ![socket] = up[socket] \o Answers(First)]
  BY <1>1, <1>4, NoneAssumption DEF Sends
<1>9. up'[socket] = up[socket] \o Answers(First)
  BY <1>1, <1>8 DEF ConnTypes
<1>10. Resync \in Asked /\ Again \in Asked
  BY AsksAsked DEF BoardTypes
<1>11. Answered(up'[socket])
  <2>1. Answers(First) = (IF Gapped(First) THEN <<Resync>> ELSE <<>>)
                           \o (IF First.body.kind = "resync" /\ wanted # {} THEN <<Again>> ELSE <<>>)
    BY DEF Answers, Resync, Again
  <2> DEFINE t == up'[socket]
             g == Gapped(First)
             h == First.body.kind = "resync" /\ wanted # {}
  <2>2. t = up[socket] \o ((IF g THEN <<Resync>> ELSE <<>>) \o (IF h THEN <<Again>> ELSE <<>>))
    BY <1>9, <2>1
  <2> HIDE DEF t, g, h
  <2>3. /\ up[socket] \o (<<>> \o <<>>) = up[socket]
        /\ up[socket] \o (<<Resync>> \o <<>>) = Append(up[socket], Resync)
        /\ up[socket] \o (<<>> \o <<Again>>) = Append(up[socket], Again)
        /\ up[socket] \o (<<Resync>> \o <<Again>>) = Append(Append(up[socket], Resync), Again)
    BY <1>2, <1>10, Appended
  <2>4. /\ g => IF h THEN t = Append(Append(up[socket], Resync), Again) ELSE t = Append(up[socket], Resync)
        /\ ~g => IF h THEN t = Append(up[socket], Again) ELSE t = up[socket]
    BY <2>2, <2>3, Zenon
  <2> QED BY <2>4 DEF Answered, t, g, h
<1>12. Adds(up[socket], up'[socket])
  BY <1>10, <1>11 DEF Answered, Adds
<1>13. up' \in [Conns -> Seq(Asked)]
  BY <1>1, <1>2, <1>8, <1>9, <1>12, AddsType DEF ConnTypes
<1> QED BY <1>1, <1>2, <1>3, <1>4, <1>5, <1>7, <1>8, <1>9, <1>11, <1>12, <1>13

\* The page wants a channel, or no longer.
LEMMA WantsFacts ==
    ASSUME HubInv, BoardTypes, NEW ch \in Restorable, Wants(ch)
    PROVE  /\ up' \in [Conns -> Seq(Asked)]
           /\ socket = None => up' = up
           /\ socket # None => /\ \A c \in Conns \ {socket} : up'[c] = up[c]
                               /\ \/ ch \in wanted' /\ up'[socket] = Append(up[socket], Ask("subscribe", <<ch>>))
                                  \/ ch \notin wanted' /\ up'[socket] = Append(up[socket], Ask("unsubscribe", <<ch>>))
           /\ wanted' = wanted \cup {ch} \/ wanted' = wanted \ {ch}
           /\ UNCHANGED <<slateVars, hubVars, link, phase, job, folds, socket, expected, status, markets, members>>
<1>1. up \in [Conns -> Seq(Asked)]
  BY DEF HubInv, TypesInv, ConnTypes
<1>2. Ask("subscribe", <<ch>>) \in Asked /\ Ask("unsubscribe", <<ch>>) \in Asked
  BY AsksAsked DEF BoardTypes
<1>3. ASSUME NEW r \in Asked, Sends(<<r>>), socket # None
      PROVE  /\ up'[socket] = Append(up[socket], r) /\ \A c \in Conns \ {socket} : up'[c] = up[c]
             /\ up' \in [Conns -> Seq(Asked)]
  <2>1. up' = [up EXCEPT ![socket] = up[socket] \o <<r>>] /\ socket \in Conns /\ up[socket] \in Seq(Asked)
    BY <1>1, <1>3 DEF Sends, BoardTypes
  <2>2. up[socket] \o <<r>> = Append(up[socket], r)
    BY <2>1, Appended
  <2> QED BY <1>1, <2>1, <2>2
<1>4. \/ wanted' = wanted \cup {ch} /\ Sends(<<Ask("subscribe", <<ch>>)>>)
      \/ wanted' = wanted \ {ch} /\ Sends(<<Ask("unsubscribe", <<ch>>)>>)
  BY DEF Wants
<1>5. CASE socket = None
  BY <1>1, <1>4, <1>5 DEF Sends, Wants
<1>6. CASE socket # None
  <2>1. CASE wanted' = wanted \cup {ch} /\ Sends(<<Ask("subscribe", <<ch>>)>>)
    BY <1>2, <1>3, <1>6, <2>1 DEF Wants
  <2>2. CASE wanted' = wanted \ {ch} /\ Sends(<<Ask("unsubscribe", <<ch>>)>>)
    BY <1>2, <1>3, <1>6, <2>2 DEF Wants
  <2> QED BY <1>4, <2>1, <2>2
<1> QED BY <1>5, <1>6

\* A socket is opened on a connection nobody used.
Opened == IF wanted = {} THEN <<>> ELSE <<Again>>

LEMMA OpensFacts ==
    ASSUME HubInv, BoardTypes, NEW c \in Conns, Opens(c)
    PROVE  /\ phase[c] = "idle" /\ phase' = [phase EXCEPT ![c] = "upgraded"] /\ socket' = c
           /\ up' = [up EXCEPT ![c] = Opened] /\ Opened \in Seq(Asked) /\ up' \in [Conns -> Seq(Asked)]
           /\ expected' = 1 /\ status' \in {"connecting", "reconnecting"}
           /\ markets' = NoMarkets /\ members' = NoMembers
           /\ UNCHANGED <<slateVars, hubVars, link, job, folds, wanted>>
<1>1. Opened \in Seq(Asked)
  BY AsksAsked DEF Opened, BoardTypes
<1>2. up' = [up EXCEPT ![c] = Opened]
  BY DEF Opens, Opened, Again
<1> QED BY <1>1, <1>2 DEF Opens, HubInv, TypesInv, ConnTypes

\* A socket is closed, and what is still on its wire is lost.
LEMMA ClosesFacts ==
    ASSUME HubInv, BoardTypes, Closes
    PROVE  /\ socket \in Conns /\ socket' = None /\ status' = "reconnecting"
           /\ phase[socket] \in {"closing", "gone", "refused"}
           /\ link[socket] \in Links
           /\ link' = [link EXCEPT ![socket] = [seq |-> link[socket].seq, queue |-> link[socket].queue, wire |-> <<>>]]
           /\ link' \in [Conns -> Links]
           /\ UNCHANGED <<slateVars, hubVars, phase, job, up, folds, expected, wanted, markets, members>>
<1>1. socket \in Conns /\ ConnTypes /\ link[socket] \in Links
  BY DEF Closes, BoardTypes, HubInv, TypesInv, ConnTypes
<1>2. [link[socket] EXCEPT !.wire = <<>>]
        = [seq |-> link[socket].seq, queue |-> link[socket].queue, wire |-> <<>>]
  BY <1>1 DEF Links, LinksOf
<1>3. [seq |-> link[socket].seq, queue |-> link[socket].queue, wire |-> <<>>] \in Links
  BY <1>1 DEF Links, LinksOf
<1>4. link' = [link EXCEPT ![socket] = [link[socket] EXCEPT !.wire = <<>>]]
  BY DEF Closes
<1> QED BY <1>1, <1>2, <1>3, <1>4 DEF Closes, ConnTypes

\* Every step of a board is a step of the hub, or keeps what holds of it.
LEMMA BoardHub ==
    ASSUME HubInv, BoardTypes, [BoardNext]_boardGatewayVars
    PROVE  HubInv'
<1>1. CASE HubNext
  BY <1>1, HubStep DEF GatewayNext
<1>2. CASE UNCHANGED boardGatewayVars
  BY <1>2, HubStep DEF boardGatewayVars
<1>3. ConnTypes
  BY DEF HubInv, TypesInv
<1>4. CASE Message
  BY <1>4, MessageFacts, ClientHub
<1>5. ASSUME NEW c \in Conns, Opens(c) PROVE HubInv'
  BY <1>3, <1>5, OpensFacts, ClientHub DEF ConnTypes
<1>6. CASE Closes
  BY <1>3, <1>6, ClosesFacts, ClientHub DEF ConnTypes
<1>7. ASSUME NEW ch \in Restorable, Wants(ch) PROVE HubInv'
  BY <1>3, <1>7, WantsFacts, ClientHub DEF ConnTypes
<1> QED BY <1>1, <1>2, <1>4, <1>5, <1>6, <1>7 DEF BoardNext

-----------------------------------------------------------------------------
(* What the pages want, the hub holds *)

\* The hub reads a request, or ends the connection it is on.
LEMMA HubTakes ==
    ASSUME ConnTypes, HubNext, NEW c \in Conns
    PROVE  \/ up'[c] = up[c]
           \/ phase[c] = "serving" /\ up[c] # <<>> /\ up'[c] = Tail(up[c])
           \/ phase[c] = "closing" /\ up'[c] = <<>>
<1>1. up \in [Conns -> Seq(Asked)]
  BY DEF ConnTypes
<1>2. CASE up' = up
  BY <1>2
<1>3. ASSUME NEW d, Publish(d) PROVE up' = up
  BY <1>3 DEF Publish
<1>4. ASSUME NEW x \in Conns, \/ Restore(x) \/ Register(x) \/ Serve(x) \/ Close(x) \/ Transmit(x)
                              \/ AttachSubscribe(x) \/ AttachResync(x)
      PROVE  up' = up
  BY <1>4 DEF Restore, Register, Serve, Close, Transmit, AttachSubscribe, AttachResync
<1>5. ASSUME NEW x \in Conns, Unregister(x) \/ Unsubscribe(x) \/ ClassifySubscribe(x) \/ PickResync(x)
      PROVE  \/ up'[c] = up[c]
             \/ phase[c] = "serving" /\ up[c] # <<>> /\ up'[c] = Tail(up[c])
             \/ phase[c] = "closing" /\ up'[c] = <<>>
  BY <1>1, <1>5 DEF Unregister, Unsubscribe, ClassifySubscribe, PickResync, Requested
<1> QED BY <1>2, <1>3, <1>4, <1>5 DEF HubNext, Handling

\* A page on a connection that was not admitted still has its wish on the way;
\* on one that was, the hub heeds it.
WordInv ==
    socket # None =>
        /\ phase[socket] # "idle"
        /\ phase[socket] \in Early => \A ch \in wanted : Final(up[socket], ch)
        /\ Open(socket) => \A ch \in wanted : Heeded(socket, ch)

BoardStart == HubInv /\ BoardTypes /\ EarlyInv /\ WordInv

LEMMA BoardTypesStep ==
    ASSUME HubInv, BoardTypes, [BoardNext]_boardGatewayVars
    PROVE  BoardTypes'
<1> DEFINE Plain(s) == \A i \in DOMAIN s : s[i].op = "resync" => s[i].channels = <<>>
<1>1. /\ ConnTypes /\ up \in [Conns -> Seq(Asked)] /\ \A c \in Conns : Plain(up[c])
      /\ socket \in Conns \cup {None} /\ status \in Statuses /\ wanted \in SUBSET Restorable /\ expected \in Nat
  BY DEF HubInv, TypesInv, ConnTypes, BoardTypes
<1>2. ASSUME NEW s \in Seq(Asked), Plain(s)
      PROVE  /\ s # <<>> => Plain(Tail(s))
             /\ \A r \in Asked : (r.op = "resync" => r.channels = <<>>) => Plain(Append(s, r))
  <2>1. ASSUME s # <<>> PROVE Plain(Tail(s))
    <3>1. \A i \in DOMAIN Tail(s) : i + 1 \in DOMAIN s /\ Tail(s)[i] = s[i + 1]
      BY <2>1
    <3> QED BY <1>2, <3>1
  <2>2. ASSUME NEW r \in Asked, r.op = "resync" => r.channels = <<>> PROVE Plain(Append(s, r))
    <3>1. \A i \in DOMAIN Append(s, r) : (i \in DOMAIN s /\ Append(s, r)[i] = s[i]) \/ Append(s, r)[i] = r
      OBVIOUS
    <3> QED BY <1>2, <2>2, <3>1
  <2> QED BY <2>1, <2>2
<1>3. CASE HubNext /\ UNCHANGED boardVars
  <2>1. \A c \in Conns : Plain(up'[c])
    <3> SUFFICES ASSUME NEW c \in Conns PROVE Plain(up'[c])
      OBVIOUS
    <3>1. up[c] \in Seq(Asked) /\ Plain(up[c]) /\ Plain(<<>>)
      BY <1>1
    <3> HIDE DEF Plain
    <3> QED BY <1>1, <1>2, <1>3, <3>1, HubTakes
  <2> QED BY <1>1, <1>3, <2>1 DEF BoardTypes, boardVars
<1>4. CASE UNCHANGED boardGatewayVars
  BY <1>1, <1>4 DEF BoardTypes, boardGatewayVars, boardVars, gatewayVars, connVars
<1>5. Resync \in Asked /\ Again \in Asked /\ Resync.channels = <<>> /\ Again.op = "subscribe" /\ Restorable \subseteq Channels
  BY <1>1, AsksAsked, RestorableAssumption
<1>6. CASE Message
  <2>1. /\ socket \in Conns /\ up[socket] \in Seq(Asked) /\ Answered(up'[socket]) /\ up' = [up EXCEPT ![socket] = up'[socket]]
        /\ expected' = First.seq + 1 /\ status' = StatusAfter(First) /\ First \in Frames
        /\ socket' = socket /\ wanted' = wanted
    BY <1>6, MessageFacts
  <2>2. /\ Plain(up[socket]) /\ Plain(Append(up[socket], Resync)) /\ Plain(Append(up[socket], Again))
        /\ Plain(Append(Append(up[socket], Resync), Again))
        /\ Append(up[socket], Resync) \in Seq(Asked)
    <3>1. Plain(up[socket]) /\ Append(up[socket], Resync) \in Seq(Asked)
      BY <1>1, <1>5, <2>1
    <3> HIDE DEF Plain
    <3>2. Plain(Append(up[socket], Resync)) /\ Plain(Append(up[socket], Again))
      BY <1>2, <1>5, <2>1, <3>1
    <3> QED BY <1>2, <1>5, <3>1, <3>2
  <2>3. Plain(up'[socket])
    <3> HIDE DEF Plain
    <3> QED BY <2>1, <2>2 DEF Answered
  <2>4. \A c \in Conns : Plain(up'[c])
    <3> HIDE DEF Plain
    <3>1. \A c \in Conns : c = socket \/ up'[c] = up[c]
      BY <1>1, <2>1
    <3> QED BY <1>1, <2>3, <3>1
  <2>5. expected' \in Nat /\ status' \in Statuses
    BY <1>1, <2>1 DEF Frames, FramesOf, StatusAfter, Statuses
  <2> QED BY <1>1, <2>1, <2>4, <2>5 DEF BoardTypes
<1>7. ASSUME NEW c \in Conns, Opens(c) PROVE BoardTypes'
  <2>1. /\ up' = [up EXCEPT ![c] = Opened] /\ socket' = c /\ expected' = 1 /\ wanted' = wanted
        /\ status' \in {"connecting", "reconnecting"}
    BY <1>7, OpensFacts
  <2>2. Plain(Opened)
    <3>1. \A i \in DOMAIN Opened : Opened[i] = Again
      BY DEF Opened
    <3> QED BY <1>5, <3>1
  <2>3. \A x \in Conns : Plain(up'[x])
    <3> HIDE DEF Plain
    <3> QED BY <1>1, <2>1, <2>2
  <2> QED BY <1>1, <2>1, <2>3 DEF BoardTypes, Statuses
<1>8. CASE Closes
  BY <1>1, <1>8, ClosesFacts DEF BoardTypes, Statuses
<1>9. ASSUME NEW ch \in Restorable, Wants(ch) PROVE BoardTypes'
  <2>1. /\ socket = None => up' = up
        /\ socket # None => /\ \A c \in Conns \ {socket} : up'[c] = up[c]
                            /\ \/ up'[socket] = Append(up[socket], Ask("subscribe", <<ch>>))
                               \/ up'[socket] = Append(up[socket], Ask("unsubscribe", <<ch>>))
        /\ wanted' = wanted \cup {ch} \/ wanted' = wanted \ {ch}
        /\ UNCHANGED <<socket, expected, status>>
    BY <1>9, WantsFacts
  <2>2. /\ Ask("subscribe", <<ch>>) \in Asked /\ Ask("unsubscribe", <<ch>>) \in Asked
        /\ Ask("subscribe", <<ch>>).op = "subscribe" /\ Ask("unsubscribe", <<ch>>).op = "unsubscribe"
    BY <1>1, AsksAsked DEF Ask
  <2>3. \A c \in Conns : Plain(up'[c])
    <3>1. \A c \in Conns : Plain(up[c]) /\ up[c] \in Seq(Asked)
      BY <1>1
    <3> HIDE DEF Plain
    <3> QED BY <1>1, <1>2, <2>1, <2>2, <3>1
  <2> QED BY <1>1, <2>1, <2>3 DEF BoardTypes
<1> QED BY <1>3, <1>4, <1>6, <1>7, <1>8, <1>9 DEF BoardNext

\* A connection that has not said hello has sent nothing.
LEMMA BoardEarlyStep ==
    ASSUME BoardStart, [BoardNext]_boardGatewayVars
    PROVE  EarlyInv'
<1>1. /\ HubInv /\ BoardTypes /\ ConnTypes /\ EarlyInv
      /\ socket # None => phase[socket] # "idle"
      /\ link \in [Conns -> Links] /\ up \in [Conns -> Seq(Asked)] /\ phase \in [Conns -> Phases]
  BY DEF BoardStart, WordInv, HubInv, TypesInv, ConnTypes
<1>2. CASE HubNext
  BY <1>1, <1>2, EarlyHub
<1>3. CASE UNCHANGED boardGatewayVars
  BY <1>1, <1>3 DEF EarlyInv, boardGatewayVars, boardVars, gatewayVars, connVars
<1>4. CASE Message
  <2>1. /\ socket \in Conns /\ link[socket].wire # <<>> /\ phase' = phase /\ socket # None
        /\ up' = [up EXCEPT ![socket] = up'[socket]]
        /\ link' = [link EXCEPT ![socket] = [seq |-> link[socket].seq, queue |-> link[socket].queue,
                                             wire |-> Tail(link[socket].wire)]]
    BY <1>1, <1>4, MessageFacts, NoneAssumption
  <2>2. phase[socket] \notin Early
    BY <1>1, <2>1 DEF EarlyInv
  <2>3. \A c \in Conns \ {socket} : link'[c] = link[c] /\ up'[c] = up[c]
    BY <1>1, <2>1
  <2> QED BY <1>1, <2>1, <2>2, <2>3 DEF EarlyInv, Early
<1>5. ASSUME NEW c \in Conns, Opens(c) PROVE EarlyInv'
  BY <1>1, <1>5, OpensFacts DEF EarlyInv, Early
<1>6. CASE Closes
  <2>1. /\ socket \in Conns /\ phase' = phase /\ up' = up
        /\ link' = [link EXCEPT ![socket] = [seq |-> link[socket].seq, queue |-> link[socket].queue, wire |-> <<>>]]
    BY <1>1, <1>6, ClosesFacts
  <2> QED BY <1>1, <2>1 DEF EarlyInv
<1>7. ASSUME NEW ch \in Restorable, Wants(ch) PROVE EarlyInv'
  <2>1. /\ link' = link /\ phase' = phase /\ \A c \in Conns : c # socket => up'[c] = up[c]
    BY <1>1, <1>7, WantsFacts, NoneAssumption DEF BoardTypes
  <2> QED BY <1>1, <2>1, NoneAssumption DEF EarlyInv
<1> QED BY <1>2, <1>3, <1>4, <1>5, <1>6, <1>7 DEF BoardNext

\* The last word about a wanted channel is unread, or heeded.
LEMMA BoardWordStep ==
    ASSUME BoardStart, [BoardNext]_boardGatewayVars
    PROVE  WordInv'
<1>1. /\ HubInv /\ BoardTypes /\ ConnTypes /\ EarlyInv /\ WordInv
      /\ link \in [Conns -> Links] /\ up \in [Conns -> Seq(Asked)] /\ phase \in [Conns -> Phases]
      /\ wanted \in SUBSET Restorable /\ Restorable \subseteq Channels
  BY RestorableAssumption DEF BoardStart, HubInv, TypesInv, ConnTypes, BoardTypes
<1>2. CASE HubNext /\ UNCHANGED boardVars
  <2> SUFFICES ASSUME socket # None
               PROVE  /\ phase'[socket] # "idle"
                      /\ phase'[socket] \in Early => \A ch \in wanted : Final(up'[socket], ch)
                      /\ Open(socket)' => \A ch \in wanted : Heeded(socket, ch)'
    BY <1>2 DEF WordInv, boardVars, Heeded, Granted, Open
  <2>1. socket \in Conns
    BY <1>1 DEF BoardTypes
  <2>2. /\ phase'[socket] # "idle"
        /\ phase'[socket] \in Early => phase[socket] \in Early
        /\ Open(socket)' => phase[socket] \in Early \/ Open(socket)
    <3>1. phase[socket] # "idle" /\ socket' = socket
      BY <1>1, <1>2 DEF WordInv, boardVars
    <3>2. PICK c \in Conns : c = socket
      BY <2>1
    <3>3. /\ phase'[c] = "idle" => phase[c] = "idle"
          /\ phase'[c] \in Early => phase[c] \in Early
          /\ Open(c)' => phase[c] \in Early \/ Open(c)
      BY <1>1, <1>2, HubPhases, HubAdvances
    <3> QED BY <3>1, <3>2, <3>3
  <2>3. phase[socket] \in Early => up'[socket] = up[socket] /\ \A ch \in wanted : Final(up[socket], ch)
    BY <1>1, <1>2, <2>1, HubTakes DEF Early, WordInv
  <2>4. ASSUME NEW ch \in wanted, Open(socket)' PROVE Heeded(socket, ch)'
    <3>1. CASE phase[socket] \in Early
      <4>1. Final(up'[socket], ch)
        BY <2>3, <3>1
      <4> QED BY <1>2, <4>1 DEF Heeded, boardVars
    <3>2. CASE phase[socket] \notin Early
      <4>1. Heeded(socket, ch)
        BY <1>1, <2>2, <2>4, <3>2 DEF WordInv
      <4>2. PICK c \in Conns : c = socket
        BY <2>1
      <4>3. Open(c)' /\ Heeded(c, ch) /\ phase[c] \notin Early
        BY <1>2, <2>4, <3>2, <4>1, <4>2 DEF boardVars
      <4>4. Heeded(c, ch)'
        BY <1>1, <1>2, <4>3, HeededHub
      <4> QED BY <1>2, <4>2, <4>4 DEF boardVars
    <3> QED BY <3>1, <3>2
  <2> QED BY <2>2, <2>3, <2>4
<1>3. CASE UNCHANGED boardGatewayVars
  BY <1>1, <1>3 DEF WordInv, Heeded, Granted, Open, boardGatewayVars, boardVars, gatewayVars, connVars, hubVars
<1>4. CASE Message
  <2>1. /\ socket \in Conns /\ up[socket] \in Seq(Asked) /\ Answered(up'[socket]) /\ socket' = socket
        /\ phase' = phase /\ wanted' = wanted /\ held' = held /\ denied' = denied /\ job' = job /\ socket # None
    BY <1>1, <1>4, MessageFacts, NoneAssumption DEF hubVars
  <2>2. /\ Resync \in Asked /\ Again \in Asked /\ Append(up[socket], Resync) \in Seq(Asked)
        /\ \A ch : ~Drops(Resync, ch) /\ ~Drops(Again, ch)
    BY <2>1, AsksAsked DEF BoardTypes, BoardStart, Drops
  <2>3. ASSUME NEW ch \in wanted
        PROVE  /\ Final(up[socket], ch) => Final(up'[socket], ch)
               /\ Silent(up[socket], ch) => Silent(up'[socket], ch)
    <3>1. \A s \in Seq(Asked), r \in Asked :
             ~Drops(r, ch) => /\ Final(s, ch) => Final(Append(s, r), ch)
                              /\ Silent(s, ch) => Silent(Append(s, r), ch)
      BY WordAppended
    <3> QED BY <2>1, <2>2, <3>1 DEF Answered
  <2>4. ASSUME NEW ch \in wanted, Heeded(socket, ch) PROVE Heeded(socket, ch)'
    BY <2>1, <2>3, <2>4 DEF Heeded, Granted
  <2> QED BY <1>1, <2>1, <2>3, <2>4 DEF WordInv, Open
<1>5. ASSUME NEW c \in Conns, Opens(c) PROVE WordInv'
  <2>1. /\ socket' = c /\ phase'[c] = "upgraded" /\ up'[c] = Opened /\ wanted' = wanted
    BY <1>1, <1>5, OpensFacts
  <2>2. ASSUME NEW ch \in wanted PROVE Final(Opened, ch)
    <3>1. Opened = <<Again>> /\ Len(Opened) = 1 /\ Opened[1] = Again
      BY <2>2 DEF Opened
    <3>2. AsksFor(Again, ch)
      BY <1>1, <2>2, AsksAsked DEF AsksFor
    <3>3. 1 \in 1 .. 1 /\ 1 + 1 .. 1 = {}
      OBVIOUS
    <3> QED BY <3>1, <3>2, <3>3 DEF Final
  <2>3. ~(phase'[c] \in {"registered", "serving"})
    BY <2>1
  <2> QED BY <2>1, <2>2, <2>3 DEF WordInv, Open, Early
<1>6. CASE Closes
  BY <1>1, <1>6, ClosesFacts DEF WordInv
<1>7. ASSUME NEW ch \in Restorable, Wants(ch) PROVE WordInv'
  <2>1. /\ wanted' = wanted \cup {ch} \/ wanted' = wanted \ {ch}
        /\ UNCHANGED <<held, denied, phase, job, socket>>
        /\ socket # None =>
               \/ ch \in wanted' /\ up'[socket] = Append(up[socket], Ask("subscribe", <<ch>>))
               \/ ch \notin wanted' /\ up'[socket] = Append(up[socket], Ask("unsubscribe", <<ch>>))
    BY <1>1, <1>7, WantsFacts DEF hubVars
  <2> SUFFICES ASSUME socket # None
               PROVE  /\ phase[socket] # "idle"
                      /\ phase[socket] \in Early => \A x \in wanted' : Final(up'[socket], x)
                      /\ Open(socket) => \A x \in wanted' : Heeded(socket, x)'
    BY <2>1 DEF WordInv, Heeded, Granted, Open
  <2>2. socket \in Conns /\ up[socket] \in Seq(Asked)
    BY <1>1 DEF BoardTypes
  <2>3. /\ Ask("subscribe", <<ch>>) \in Asked /\ Ask("unsubscribe", <<ch>>) \in Asked /\ Sq!ToSet(<<ch>>) = {ch}
        /\ Ask("subscribe", <<ch>>).op = "subscribe" /\ Ask("unsubscribe", <<ch>>).op = "unsubscribe"
        /\ Ask("subscribe", <<ch>>).channels = <<ch>> /\ Ask("unsubscribe", <<ch>>).channels = <<ch>>
    BY <1>1, AsksAsked DEF Ask
  <2>4. /\ AsksFor(Ask("subscribe", <<ch>>), ch)
        /\ \A x : ~Drops(Ask("subscribe", <<ch>>), x)
        /\ \A x : x # ch => ~Drops(Ask("unsubscribe", <<ch>>), x)
    BY <2>3 DEF AsksFor, Drops
  <2>5. ASSUME NEW x \in wanted'
        PROVE  \/ Final(up'[socket], x)
               \/ /\ x \in wanted
                  /\ Final(up[socket], x) => Final(up'[socket], x)
                  /\ Silent(up[socket], x) => Silent(up'[socket], x)
    <3>1. \A r \in Asked :
             /\ AsksFor(r, x) => Final(Append(up[socket], r), x)
             /\ ~Drops(r, x) => /\ Final(up[socket], x) => Final(Append(up[socket], r), x)
                                /\ Silent(up[socket], x) => Silent(Append(up[socket], r), x)
      BY <2>2, WordAppended
    <3>2. CASE x = ch
      BY <2>1, <2>3, <2>4, <2>5, <3>1, <3>2
    <3>3. CASE x # ch
      <4>1. x \in wanted
        BY <2>1, <2>5, <3>3
      <4>2. /\ Final(up[socket], x) => Final(Append(up[socket], Ask("unsubscribe", <<ch>>)), x)
            /\ Silent(up[socket], x) => Silent(Append(up[socket], Ask("unsubscribe", <<ch>>)), x)
            /\ Final(up[socket], x) => Final(Append(up[socket], Ask("subscribe", <<ch>>)), x)
            /\ Silent(up[socket], x) => Silent(Append(up[socket], Ask("subscribe", <<ch>>)), x)
        BY <2>3, <2>4, <3>1, <3>3, Zenon
      <4> QED BY <2>1, <4>1, <4>2
    <3> QED BY <3>2, <3>3
  <2>6. ASSUME NEW x \in wanted', Open(socket) PROVE Heeded(socket, x)'
    <3>1. x \in wanted => Heeded(socket, x)
      BY <1>1, <2>6 DEF WordInv
    <3> QED BY <2>1, <2>5, <3>1 DEF Heeded, Granted
  <2> QED BY <1>1, <2>1, <2>5, <2>6 DEF WordInv
<1> QED BY <1>2, <1>3, <1>4, <1>5, <1>6, <1>7 DEF BoardNext

LEMMA BoardStartInit == BoardInit => BoardStart
<1> SUFFICES ASSUME BoardInit PROVE BoardStart
  OBVIOUS
<1>1. HubInv
  BY HubInit DEF BoardInit
<1>2. BoardTypes
  BY DEF BoardInit, GatewayInit, BoardTypes, Statuses
<1>3. EarlyInv
  BY DEF BoardInit, GatewayInit, EarlyInv
<1> QED BY <1>1, <1>2, <1>3 DEF BoardInit, BoardStart, WordInv

LEMMA BoardStartStep == BoardStart /\ [BoardNext]_boardGatewayVars => BoardStart'
BY BoardHub, BoardTypesStep, BoardEarlyStep, BoardWordStep DEF BoardStart

\* A client with nothing on its way holds what the page wants, but for what the
\* limit kept it from.
LEMMA NothingForgotten == BoardStart => WantedHeld
<1> SUFFICES ASSUME BoardStart, Settled, NEW ch \in wanted
             PROVE  ch \in held[socket] \cup denied[socket]
  BY DEF WantedHeld
<1>1. socket # None /\ Open(socket) /\ job[socket] = NoJob /\ up[socket] = <<>>
  BY DEF Settled, Open, Ready
<1>2. Heeded(socket, ch)
  BY <1>1 DEF BoardStart, WordInv
<1>3. ~Final(<<>>, ch)
  BY DEF Final
<1> QED BY <1>1, <1>2, <1>3 DEF Heeded, Granted, NoJob

\* However often the page changes its mind, whatever a connection restored and
\* whichever connection it is on, the hub ends up holding every channel the page
\* wants, but for those the limit kept out.
THEOREM BoardHeld == BoardSpec => []WantedHeld
BY BoardStartInit, BoardStartStep, NothingForgotten, PTL DEF BoardSpec

-----------------------------------------------------------------------------
(* What a link carries, and what queueing does to it *)

Carried(l) == Sq!ToSet(l.wire) \cup Sq!ToSet(l.queue)
IsResync(f) == f.body.kind = "resync"

\* A number of F, or one the client will know it missed.
Accounted(F, m) == \/ \E f \in F : f.seq = m
                   \/ \E r \in F : IsResync(r) /\ r.seq > m

Ascending(s) == \A i, j \in DOMAIN s : i < j => s[i].seq < s[j].seq

\* Frames leave in the order of their numbers.
Ordered(l) ==
    /\ Ascending(l.wire) /\ Ascending(l.queue)
    /\ \A i \in DOMAIN l.wire, j \in DOMAIN l.queue : l.wire[i].seq < l.queue[j].seq
    /\ \A f \in Carried(l) : f.seq <= l.seq

\* The elements of a sequence with one more, of two joined, and of one with its
\* first apart.
LEMMA SetAppended ==
    ASSUME NEW S, NEW s \in Seq(S), NEW e \in S
    PROVE  Sq!ToSet(Append(s, e)) = Sq!ToSet(s) \cup {e}
<1> DEFINE N == Len(s)
<1>1. N \in Nat /\ DOMAIN s = 1 .. N
  OBVIOUS
<1>2. \A x : x \in Sq!ToSet(s) <=> \E i \in 1 .. N : x = s[i]
  BY <1>1 DEF Sq!ToSet
<1>3. Sq!ToSet(Append(s, e)) = Sq!ToSet(s) \cup {e}
  <2> DEFINE u == Append(s, e)
  <2>1. DOMAIN u = 1 .. N + 1 /\ u[N + 1] = e /\ \A i \in 1 .. N : u[i] = s[i]
    OBVIOUS
  <2> HIDE DEF u, N
  <2>2. \A x : x \in Sq!ToSet(u) <=> \E i \in 1 .. N + 1 : x = u[i]
    BY <2>1 DEF Sq!ToSet
  <2>3. \A i \in 1 .. N + 1 : i = N + 1 \/ i \in 1 .. N
    BY <1>1
  <2>4. N + 1 \in 1 .. N + 1 /\ 1 .. N \subseteq 1 .. N + 1
    BY <1>1
  <2>5. \A x : x \in Sq!ToSet(u) <=> x \in Sq!ToSet(s) \/ x = e
    BY <1>2, <2>1, <2>2, <2>3, <2>4
  <2> QED BY <2>5 DEF u
<1> QED BY <1>3

LEMMA SetJoined ==
    ASSUME NEW S, NEW s \in Seq(S), NEW t \in Seq(S)
    PROVE  Sq!ToSet(s \o t) = Sq!ToSet(s) \cup Sq!ToSet(t)
<1> DEFINE N == Len(s)
           M == Len(t)
<1>1. N \in Nat /\ M \in Nat /\ DOMAIN s = 1 .. N /\ DOMAIN t = 1 .. M
  OBVIOUS
<1>2. \A x : x \in Sq!ToSet(s) <=> \E i \in 1 .. N : x = s[i]
  BY <1>1 DEF Sq!ToSet
<1>3. \A x : x \in Sq!ToSet(t) <=> \E i \in 1 .. M : x = t[i]
  BY <1>1 DEF Sq!ToSet
<1>4. Sq!ToSet(s \o t) = Sq!ToSet(s) \cup Sq!ToSet(t)
  <2> DEFINE u == s \o t
  <2>1. /\ DOMAIN u = 1 .. N + M /\ \A i \in 1 .. N : u[i] = s[i]
        /\ \A i \in 1 .. M : u[N + i] = t[i]
    OBVIOUS
  <2> HIDE DEF u, N, M
  <2>2. \A x : x \in Sq!ToSet(u) <=> \E i \in 1 .. N + M : x = u[i]
    BY <2>1 DEF Sq!ToSet
  <2>3. \A i \in 1 .. N + M : i \in 1 .. N \/ (i - N \in 1 .. M /\ N + (i - N) = i)
    BY <1>1
  <2>4. 1 .. N \subseteq 1 .. N + M /\ \A i \in 1 .. M : N + i \in 1 .. N + M
    BY <1>1
  <2>5. ASSUME NEW x PROVE x \in Sq!ToSet(u) <=> x \in Sq!ToSet(s) \/ x \in Sq!ToSet(t)
    <3>1. ASSUME x \in Sq!ToSet(u) PROVE x \in Sq!ToSet(s) \/ x \in Sq!ToSet(t)
      <4>1. PICK i \in 1 .. N + M : x = u[i]
        BY <2>2, <3>1
      <4>2. CASE i \in 1 .. N
        BY <1>2, <2>1, <4>1, <4>2
      <4>3. CASE i - N \in 1 .. M /\ N + (i - N) = i
        <5>1. u[i] = t[i - N]
          BY <2>1, <4>3
        <5> QED BY <1>3, <4>1, <4>3, <5>1
      <4> QED BY <2>3, <4>2, <4>3
    <3>2. ASSUME x \in Sq!ToSet(s) PROVE x \in Sq!ToSet(u)
      BY <1>2, <2>1, <2>2, <2>4, <3>2
    <3>3. ASSUME x \in Sq!ToSet(t) PROVE x \in Sq!ToSet(u)
      BY <1>3, <2>1, <2>2, <2>4, <3>3
    <3> QED BY <3>1, <3>2, <3>3
  <2> QED BY <2>5 DEF u
<1> QED BY <1>4

LEMMA SetTaken ==
    ASSUME NEW S, NEW s \in Seq(S), s # <<>>
    PROVE  Sq!ToSet(s) = {Head(s)} \cup Sq!ToSet(Tail(s))
<1> DEFINE N == Len(s)
<1>1. N \in Nat /\ DOMAIN s = 1 .. N
  OBVIOUS
<1>2. \A x : x \in Sq!ToSet(s) <=> \E i \in 1 .. N : x = s[i]
  BY <1>1 DEF Sq!ToSet
<1>3. Sq!ToSet(s) = {Head(s)} \cup Sq!ToSet(Tail(s))
  <2> DEFINE u == Tail(s)
  <2>1. N >= 1 /\ Head(s) = s[1] /\ DOMAIN u = 1 .. N - 1 /\ \A i \in 1 .. N - 1 : u[i] = s[i + 1]
    OBVIOUS
  <2> HIDE DEF u, N
  <2>2. \A x : x \in Sq!ToSet(u) <=> \E i \in 1 .. N - 1 : x = s[i + 1]
    BY <2>1 DEF Sq!ToSet
  <2>3. \A i \in 1 .. N : i = 1 \/ (i - 1 \in 1 .. N - 1 /\ (i - 1) + 1 = i)
    BY <1>1
  <2>4. 1 \in 1 .. N /\ \A i \in 1 .. N - 1 : i + 1 \in 1 .. N
    BY <1>1, <2>1
  <2>5. \A x : x \in Sq!ToSet(s) <=> x = Head(s) \/ x \in Sq!ToSet(u)
    BY <1>2, <2>1, <2>2, <2>3, <2>4
  <2> QED BY <2>5 DEF u
<1> QED BY <1>3

LEMMA SetOfOne == \A e : Sq!ToSet(<<e>>) = {e}
<1> SUFFICES ASSUME NEW e PROVE Sq!ToSet(<<e>>) = {e}
  OBVIOUS
<1>1. DOMAIN <<e>> = {1} /\ <<e>>[1] = e
  OBVIOUS
<1> QED BY <1>1 DEF Sq!ToSet

\* Two ascending lists of which one is ahead of the other are one.
LEMMA AscendingJoined ==
    ASSUME NEW s \in Seq(Frames), NEW t \in Seq(Frames), Ascending(s), Ascending(t),
           \A i \in DOMAIN s, j \in DOMAIN t : s[i].seq < t[j].seq
    PROVE  Ascending(s \o t)
<1> DEFINE N == Len(s)
           M == Len(t)
           u == s \o t
<1>1. N \in Nat /\ M \in Nat /\ DOMAIN s = 1 .. N /\ DOMAIN t = 1 .. M
  OBVIOUS
<1>2. /\ DOMAIN u = 1 .. N + M /\ \A i \in 1 .. N : u[i] = s[i]
      /\ \A i \in N + 1 .. N + M : u[i] = t[i - N] /\ i - N \in 1 .. M
  OBVIOUS
<1> HIDE DEF u, N, M
<1> SUFFICES ASSUME NEW i \in 1 .. N + M, NEW j \in 1 .. N + M, i < j PROVE u[i].seq < u[j].seq
  BY <1>2 DEF Ascending, u
<1>3. CASE j <= N
  <2>1. i \in 1 .. N /\ j \in 1 .. N
    BY <1>1, <1>3
  <2> QED BY <1>1, <1>2, <2>1 DEF Ascending
<1>4. CASE i <= N /\ j > N
  <2>1. i \in 1 .. N /\ j \in N + 1 .. N + M
    BY <1>1, <1>4
  <2> QED BY <1>1, <1>2, <2>1
<1>5. CASE i > N
  <2>1. i \in N + 1 .. N + M /\ j \in N + 1 .. N + M /\ i - N < j - N
    BY <1>1, <1>5
  <2> QED BY <1>1, <1>2, <2>1 DEF Ascending
<1> QED BY <1>1, <1>3, <1>4, <1>5

\* One frame more, after all the others; or none of those still queued but what
\* the write loop had taken, and the notice.
LEMMA EnqueueCarries ==
    ASSUME NEW l \in Links, Ordered(l), NEW body \in Bodies, NEW writing, NEW k \in Enqueue(l, body, writing)
    PROVE  /\ k \in Links /\ Ordered(k)
           /\ \/ /\ k.seq = l.seq + 1
                 /\ Carried(k) = Carried(l) \cup {[seq |-> l.seq + 1, body |-> body]}
              \/ /\ k.seq = l.seq + 2
                 /\ Carried(k) \subseteq Carried(l) \cup {[seq |-> l.seq + 2, body |-> ResyncNotice]}
                 /\ [seq |-> l.seq + 2, body |-> ResyncNotice] \in Carried(k)
<1>1. /\ l.seq \in Nat /\ l.queue \in Seq(Frames) /\ l.wire \in Seq(Frames)
      /\ Carried(l) \subseteq Frames
  <2>1. l.seq \in Nat /\ l.queue \in Seq(Frames) /\ l.wire \in Seq(Frames)
    BY DEF Links, LinksOf, Frames
  <2> QED BY <2>1 DEF Carried, Sq!ToSet
<1>2. k \in Links
  BY LinkBodies, EnqueueOf DEF Links
<1>3. /\ \A i \in DOMAIN l.wire : l.wire[i] \in Carried(l)
      /\ \A i \in DOMAIN l.queue : l.queue[i] \in Carried(l)
      /\ \A f \in Carried(l) : f.seq \in Nat /\ f.seq <= l.seq
      /\ Ascending(l.wire) /\ Ascending(l.queue)
      /\ \A i \in DOMAIN l.wire, j \in DOMAIN l.queue : l.wire[i].seq < l.queue[j].seq
  <2>1. \A f \in Carried(l) : f.seq \in Nat
    BY <1>1 DEF Frames, FramesOf
  <2> QED BY <2>1 DEF Ordered, Carried, Sq!ToSet
<1>4. CASE k = Number(l, body)
  <2> DEFINE f == [seq |-> l.seq + 1, body |-> body]
             q == Append(l.queue, f)
  <2>1. k.seq = l.seq + 1 /\ k.wire = l.wire /\ k.queue = q
    BY <1>4 DEF Number
  <2>2. f \in Frames /\ f.seq = l.seq + 1
    BY <1>1 DEF Frames, FramesOf
  <2>3. DOMAIN q = DOMAIN l.queue \cup {Len(l.queue) + 1} /\ q[Len(l.queue) + 1] = f
        /\ \A i \in DOMAIN l.queue : q[i] = l.queue[i] /\ i < Len(l.queue) + 1
    BY <1>1, <2>2
  <2>4. Carried(k) = Carried(l) \cup {f}
    <3> HIDE DEF f
    <3>1. Sq!ToSet(Append(l.queue, f)) = Sq!ToSet(l.queue) \cup {f}
      BY <1>1, <2>2, SetAppended
    <3> QED BY <2>1, <3>1 DEF Carried
  <2> HIDE DEF f, q
  <2>5. Ascending(q)
    <3> SUFFICES ASSUME NEW i \in DOMAIN q, NEW j \in DOMAIN q, i < j PROVE q[i].seq < q[j].seq
      BY DEF Ascending
    <3>1. i \in DOMAIN l.queue
      BY <1>1, <2>3
    <3>2. CASE j \in DOMAIN l.queue
      BY <1>3, <2>3, <3>1, <3>2 DEF Ascending
    <3>3. CASE j = Len(l.queue) + 1
      <4>1. q[i] = l.queue[i] /\ l.queue[i].seq \in Nat /\ l.queue[i].seq <= l.seq /\ q[j] = f
        BY <1>3, <2>3, <3>1, <3>3
      <4> QED BY <1>1, <2>2, <4>1
    <3> QED BY <2>3, <3>2, <3>3
  <2>6. \A i \in DOMAIN l.wire, j \in DOMAIN q : l.wire[i].seq < q[j].seq
    <3> SUFFICES ASSUME NEW i \in DOMAIN l.wire, NEW j \in DOMAIN q PROVE l.wire[i].seq < q[j].seq
      OBVIOUS
    <3>1. l.wire[i].seq \in Nat /\ l.wire[i].seq <= l.seq
      BY <1>3
    <3>2. CASE j = Len(l.queue) + 1
      BY <1>1, <2>2, <2>3, <3>1, <3>2
    <3>3. CASE j \in DOMAIN l.queue
      BY <1>3, <2>3, <3>3
    <3> QED BY <2>3, <3>2, <3>3
  <2>7. \A g \in Carried(k) : g.seq <= k.seq
    BY <1>1, <1>3, <2>1, <2>2, <2>4
  <2>8. Ordered(k)
    BY <1>3, <2>1, <2>5, <2>6, <2>7 DEF Ordered
  <2> QED BY <1>2, <2>1, <2>4, <2>8 DEF f
<1>5. ASSUME NEW keep, keep \subseteq DOMAIN l.queue, k = Discard(l, keep)
      PROVE  /\ Ordered(k) /\ k.seq = l.seq + 2
             /\ Carried(k) \subseteq Carried(l) \cup {[seq |-> l.seq + 2, body |-> ResyncNotice]}
             /\ [seq |-> l.seq + 2, body |-> ResyncNotice] \in Carried(k)
  <2> DEFINE r == [seq |-> l.seq + 2, body |-> ResyncNotice]
             t == Taken(l.queue, keep)
             w == l.wire \o t
  <2>1. k.seq = l.seq + 2 /\ k.wire = w /\ k.queue = <<r>>
    BY <1>5 DEF Discard
  <2>2. r \in Frames /\ r.seq = l.seq + 2
    BY <1>1, LinkBodies DEF Frames, FramesOf
  <2>3. t \in Seq(Frames) /\ Sq!ToSet(t) = {l.queue[i] : i \in keep} /\ Len(t) = Cardinality(keep)
    BY <1>1, <1>5, TakenType
  <2>4. PICK f : Picks(f, l.queue, keep)
    <3>1. Len(l.queue) \in Nat /\ DOMAIN l.queue = 1 .. Len(l.queue)
      BY <1>1
    <3> QED BY <1>5, <3>1, TakenFacts
  <2>5. DOMAIN t = 1 .. Cardinality(keep) /\ \A i \in DOMAIN t : f[i] \in keep /\ t[i] = l.queue[f[i]]
    BY <2>4 DEF Picks
  <2>6. \A i, j \in DOMAIN t : i < j => f[i] < f[j]
    BY <2>4, <2>5 DEF Picks
  <2>7. Carried(k) = Sq!ToSet(l.wire) \cup {l.queue[i] : i \in keep} \cup {r}
    <3> HIDE DEF t, r
    <3>1. Sq!ToSet(l.wire \o t) = Sq!ToSet(l.wire) \cup Sq!ToSet(t)
      BY <1>1, <2>3, SetJoined
    <3> QED BY <2>1, <2>3, <3>1, SetOfOne DEF Carried
  <2> HIDE DEF t, r
  <2>8. Ascending(t)
    <3> SUFFICES ASSUME NEW i \in DOMAIN t, NEW j \in DOMAIN t, i < j PROVE t[i].seq < t[j].seq
      BY DEF Ascending
    <3>1. f[i] \in DOMAIN l.queue /\ f[j] \in DOMAIN l.queue /\ f[i] < f[j]
      BY <1>5, <2>5, <2>6
    <3> QED BY <1>3, <2>5, <3>1 DEF Ascending
  <2>9. \A i \in DOMAIN l.wire, j \in DOMAIN t : l.wire[i].seq < t[j].seq
    BY <1>3, <1>5, <2>5
  <2>10. Ascending(w)
    BY <1>1, <1>3, <2>3, <2>8, <2>9, AscendingJoined
  <2>11. w \in Seq(Frames) /\ Sq!ToSet(w) \subseteq Carried(l)
    <3>1. w \in Seq(Frames) /\ Sq!ToSet(w) = Sq!ToSet(l.wire) \cup Sq!ToSet(t)
      <4>1. Sq!ToSet(l.wire \o t) = Sq!ToSet(l.wire) \cup Sq!ToSet(t)
        BY <1>1, <2>3, SetJoined
      <4>2. l.wire \o t \in Seq(Frames)
        BY <1>1, <2>3
      <4> QED BY <4>1, <4>2
    <3>2. {l.queue[i] : i \in keep} \subseteq Carried(l)
      BY <1>3, <1>5
    <3>3. Sq!ToSet(l.wire) \subseteq Carried(l)
      BY DEF Carried
    <3> QED BY <2>3, <3>1, <3>2, <3>3
  <2> HIDE DEF w
  <2>12. \A i \in DOMAIN w, j \in DOMAIN <<r>> : w[i].seq < <<r>>[j].seq
    <3> SUFFICES ASSUME NEW i \in DOMAIN w, NEW j \in DOMAIN <<r>> PROVE w[i].seq < <<r>>[j].seq
      OBVIOUS
    <3>1. w[i] \in Carried(l)
      BY <2>11 DEF Sq!ToSet
    <3>2. <<r>>[j] = r
      OBVIOUS
    <3> QED BY <1>1, <1>3, <2>2, <3>1, <3>2
  <2>13. Ascending(<<r>>)
    BY DEF Ascending
  <2>14. Carried(k) \subseteq Carried(l) \cup {r} /\ r \in Carried(k)
    <3>1. {l.queue[i] : i \in keep} \subseteq Carried(l)
      BY <1>3, <1>5
    <3>2. Sq!ToSet(l.wire) \subseteq Carried(l)
      BY DEF Carried
    <3> QED BY <2>7, <3>1, <3>2
  <2>15. \A g \in Carried(k) : g.seq <= k.seq
    BY <1>1, <1>3, <2>1, <2>2, <2>14
  <2>16. Ordered(k)
    BY <2>1, <2>10, <2>12, <2>13, <2>15 DEF Ordered
  <2> QED BY <2>1, <2>14, <2>16 DEF r
<1> QED BY <1>2, <1>4, <1>5 DEF Enqueue

\* The frames of the bodies, had none been lost.
Numbered(l, bodies, n) == {[seq |-> l.seq + i, body |-> bodies[i]] : i \in 1 .. n}

\* What the first n of the bodies make of a link.
Grown(l, k, bodies, n) ==
    /\ Ordered(k)
    /\ k.seq >= l.seq + n
    /\ \A f \in Carried(k) :
          \/ f \in Carried(l)
          \/ /\ f.seq > l.seq
             /\ f.body = ResyncNotice \/ \E i \in 1 .. n : f.body = bodies[i]
    /\ \A f \in Carried(k) : f.seq = l.seq + 1 => f.body = bodies[1]
    /\ \A m \in Nat : Accounted(Carried(l), m) \/ (l.seq < m /\ m <= k.seq) => Accounted(Carried(k), m)
    /\ \A r \in Carried(k) : IsResync(r) /\ r.seq > l.seq =>
          r.seq > l.seq + 1 /\ \A f \in Carried(k) : f.seq # r.seq - 1
    /\ \/ \E r \in Carried(k) : IsResync(r)
       \/ k.seq = l.seq + n /\ Carried(k) = Carried(l) \cup Numbered(l, bodies, n)

\* A number is on one frame.
LEMMA NumbersOnce ==
    ASSUME NEW l \in Links, Ordered(l)
    PROVE  /\ l.seq \in Nat /\ Carried(l) \subseteq Frames
           /\ \A f \in Carried(l) : f \in Frames /\ f.seq \in Nat /\ f.seq <= l.seq /\ f.body \in Bodies
           /\ \A f, g \in Carried(l) : f.seq = g.seq => f = g
<1>1. /\ l.seq \in Nat /\ l.queue \in Seq(Frames) /\ l.wire \in Seq(Frames)
  BY DEF Links, LinksOf, Frames
<1>2. \A f \in Carried(l) : \/ \E i \in DOMAIN l.wire : f = l.wire[i]
                            \/ \E i \in DOMAIN l.queue : f = l.queue[i]
  BY DEF Carried, Sq!ToSet
<1>3. /\ \A i \in DOMAIN l.wire : i \in Nat /\ l.wire[i] \in Frames
      /\ \A i \in DOMAIN l.queue : i \in Nat /\ l.queue[i] \in Frames
  BY <1>1
<1>4. \A f \in Carried(l) : f \in Frames /\ f.seq \in Nat /\ f.body \in Bodies
  BY <1>2, <1>3 DEF Frames, FramesOf
<1>5. ASSUME NEW f \in Carried(l), NEW g \in Carried(l), f.seq = g.seq PROVE f = g
  <2>1. ASSUME NEW i \in DOMAIN l.wire, NEW j \in DOMAIN l.wire, f = l.wire[i], g = l.wire[j] PROVE f = g
    BY <1>3, <1>4, <1>5, <2>1 DEF Ordered, Ascending
  <2>2. ASSUME NEW i \in DOMAIN l.queue, NEW j \in DOMAIN l.queue, f = l.queue[i], g = l.queue[j] PROVE f = g
    BY <1>3, <1>4, <1>5, <2>2 DEF Ordered, Ascending
  <2>3. ASSUME NEW i \in DOMAIN l.wire, NEW j \in DOMAIN l.queue,
               (f = l.wire[i] /\ g = l.queue[j]) \/ (g = l.wire[i] /\ f = l.queue[j])
        PROVE  f = g
    BY <1>4, <1>5, <2>3 DEF Ordered
  <2> QED BY <1>2, <2>1, <2>2, <2>3
<1> QED BY <1>1, <1>4, <1>5 DEF Ordered

\* Of a list of bodies, none is queued yet.
LEMMA GrownStart ==
    ASSUME NEW l \in Links, Ordered(l), NEW bodies
    PROVE  Grown(l, l, bodies, 0)
<1>1. /\ l.seq \in Nat /\ \A f \in Carried(l) : f.seq \in Nat /\ f.seq <= l.seq
  BY NumbersOnce
<1>2. Numbered(l, bodies, 0) = {}
  BY DEF Numbered
<1> QED BY <1>1, <1>2 DEF Grown

\* One more is: it fits, or the queue overflows.
LEMMA GrownOne ==
    ASSUME NEW l \in Links, Ordered(l), NEW bodies \in Seq(Bodies), NEW n \in Nat, n + 1 <= Len(bodies),
           bodies[n + 1].kind # "resync",
           NEW x \in Links, Grown(l, x, bodies, n), NEW writing, NEW k \in Enqueue(x, bodies[n + 1], writing)
    PROVE  k \in Links /\ Grown(l, k, bodies, n + 1)
<1> DEFINE b == bodies[n + 1]
           f1 == [seq |-> x.seq + 1, body |-> b]
           f2 == [seq |-> x.seq + 2, body |-> ResyncNotice]
<1>1. /\ l.seq \in Nat /\ x.seq \in Nat /\ x.seq >= l.seq + n /\ Ordered(x) /\ b \in Bodies
      /\ \A f \in Carried(l) : f.seq \in Nat /\ f.seq <= l.seq
      /\ \A f \in Carried(x) : f.seq \in Nat /\ f.seq <= x.seq
      /\ \A f, g \in Carried(x) : f.seq = g.seq => f = g
  BY NumbersOnce DEF Grown
<1>2. /\ k \in Links /\ Ordered(k)
      /\ \/ k.seq = x.seq + 1 /\ Carried(k) = Carried(x) \cup {f1}
         \/ k.seq = x.seq + 2 /\ Carried(k) \subseteq Carried(x) \cup {f2} /\ f2 \in Carried(k)
  BY <1>1, EnqueueCarries
<1>3. /\ f1.seq = x.seq + 1 /\ f1.body = b /\ f2.seq = x.seq + 2 /\ f2.body = ResyncNotice
      /\ IsResync(f2) /\ ~IsResync(f1)
  BY DEF IsResync, ResyncNotice
<1> HIDE DEF b, f1, f2
<1>4. \A f \in Carried(k) : f \in Carried(x) \/ (f = f1 /\ k.seq = x.seq + 1) \/ (f = f2 /\ k.seq = x.seq + 2)
  BY <1>2
<1>5. k.seq >= l.seq + (n + 1)
  BY <1>1, <1>2
<1>6. ASSUME NEW f \in Carried(k)
      PROVE  \/ f \in Carried(l)
             \/ /\ f.seq > l.seq
                /\ f.body = ResyncNotice \/ \E i \in 1 .. n + 1 : f.body = bodies[i]
  <2>1. CASE f \in Carried(x)
    <3>1. \A i \in 1 .. n : i \in 1 .. n + 1
      OBVIOUS
    <3> QED BY <2>1, <3>1 DEF Grown
  <2>2. CASE f = f1
    <3>1. n + 1 \in 1 .. n + 1
      OBVIOUS
    <3> QED BY <1>1, <1>3, <2>2, <3>1 DEF b
  <2>3. CASE f = f2
    BY <1>1, <1>3, <2>3
  <2> QED BY <1>4, <2>1, <2>2, <2>3
<1>7. ASSUME NEW f \in Carried(k), f.seq = l.seq + 1 PROVE f.body = bodies[1]
  <2>1. CASE f \in Carried(x)
    BY <1>7, <2>1 DEF Grown
  <2>2. CASE f = f1
    <3>1. n = 0
      BY <1>1, <1>3, <1>7, <2>2
    <3> QED BY <1>3, <2>2, <3>1 DEF b
  <2>3. CASE f = f2
    BY <1>1, <1>3, <1>7, <2>3
  <2> QED BY <1>4, <2>1, <2>2, <2>3
<1>8. ASSUME NEW m \in Nat, Accounted(Carried(l), m) \/ (l.seq < m /\ m <= k.seq)
      PROVE  Accounted(Carried(k), m)
  <2>1. CASE k.seq = x.seq + 1 /\ Carried(k) = Carried(x) \cup {f1}
    <3>1. CASE Accounted(Carried(x), m)
      BY <2>1, <3>1 DEF Accounted
    <3>2. CASE ~Accounted(Carried(x), m)
      <4>1. m = x.seq + 1
        BY <1>1, <1>8, <2>1, <3>2 DEF Grown
      <4> QED BY <1>3, <2>1, <4>1 DEF Accounted
    <3> QED BY <3>1, <3>2
  <2>2. CASE k.seq = x.seq + 2 /\ f2 \in Carried(k)
    <3>1. m <= x.seq + 2
      <4>1. CASE Accounted(Carried(l), m)
        BY <1>1, <4>1 DEF Accounted
      <4> QED BY <1>1, <1>8, <2>2, <4>1
    <3>2. CASE m = x.seq + 2
      BY <1>3, <2>2, <3>2 DEF Accounted
    <3>3. CASE m < x.seq + 2
      BY <1>3, <2>2, <3>3 DEF Accounted
    <3> QED BY <1>1, <3>1, <3>2, <3>3
  <2> QED BY <1>2, <2>1, <2>2
<1>9. ASSUME NEW r \in Carried(k), IsResync(r), r.seq > l.seq
      PROVE  r.seq > l.seq + 1 /\ \A f \in Carried(k) : f.seq # r.seq - 1
  <2>1. CASE r \in Carried(x)
    <3>1. r.seq > l.seq + 1 /\ \A f \in Carried(x) : f.seq # r.seq - 1
      BY <1>9, <2>1 DEF Grown
    <3>2. r.seq \in Nat /\ r.seq <= x.seq
      BY <1>1, <2>1
    <3> QED BY <1>1, <1>3, <1>4, <3>1, <3>2
  <2>2. CASE r = f2 /\ k.seq = x.seq + 2
    <3>1. \A f \in Carried(k) : f \in Carried(x) \/ f = f2
      BY <1>1, <1>4, <2>2
    <3> QED BY <1>1, <1>3, <2>2, <3>1
  <2> QED BY <1>3, <1>4, <1>9, <2>1, <2>2
<1>10. \/ \E r \in Carried(k) : IsResync(r)
       \/ k.seq = l.seq + (n + 1) /\ Carried(k) = Carried(l) \cup Numbered(l, bodies, n + 1)
  <2>1. CASE k.seq = x.seq + 1 /\ Carried(k) = Carried(x) \cup {f1}
    <3>1. CASE \E r \in Carried(x) : IsResync(r)
      BY <2>1, <3>1
    <3>2. CASE x.seq = l.seq + n /\ Carried(x) = Carried(l) \cup Numbered(l, bodies, n)
      <4>1. f1 = [seq |-> l.seq + (n + 1), body |-> bodies[n + 1]]
        BY <1>1, <3>2 DEF f1, b
      <4>2. Numbered(l, bodies, n + 1) = Numbered(l, bodies, n) \cup {f1}
        <5>1. \A i \in 1 .. n + 1 : i \in 1 .. n \/ i = n + 1
          OBVIOUS
        <5>2. n + 1 \in 1 .. n + 1 /\ 1 .. n \subseteq 1 .. n + 1
          OBVIOUS
        <5> QED BY <4>1, <5>1, <5>2 DEF Numbered
      <4> QED BY <1>1, <2>1, <3>2, <4>2
    <3> QED BY <3>1, <3>2 DEF Grown
  <2>2. CASE f2 \in Carried(k)
    BY <1>3, <2>2
  <2> QED BY <1>2, <2>1, <2>2
<1> QED BY <1>2, <1>5, <1>6, <1>7, <1>8, <1>9, <1>10 DEF Grown

\* What queueing several bodies makes of a link.
LEMMA GrownAll ==
    ASSUME NEW l \in Links, Ordered(l), NEW bodies \in Seq(Bodies), NEW writing,
           \A i \in 1 .. Len(bodies) : bodies[i].kind # "resync",
           NEW k \in EnqueueAll(l, bodies, writing)
    PROVE  k \in Links /\ Grown(l, k, bodies, Len(bodies))
<1> DEFINE N == Len(bodies)
           G == [n \in 0 .. N |-> {x \in Links : Grown(l, x, bodies, n)}]
<1>1. N \in Nat /\ Len(bodies) = N
  OBVIOUS
<1>2. l \in G[0]
  <2>1. 0 \in 0 .. N
    BY <1>1
  <2> QED BY <2>1, GrownStart
<1>3. ASSUME NEW n \in 1 .. N, NEW x \in G[n - 1] PROVE Enqueue(x, bodies[n], writing) \subseteq G[n]
  <2>1. n - 1 \in Nat /\ n - 1 \in 0 .. N /\ n \in 0 .. N /\ (n - 1) + 1 = n
    BY <1>1
  <2>2. x \in Links /\ Grown(l, x, bodies, n - 1)
    BY <1>3, <2>1
  <2> SUFFICES ASSUME NEW y \in Enqueue(x, bodies[n], writing) PROVE y \in Links /\ Grown(l, y, bodies, n)
    BY <2>1
  <2>3. PICK p \in Nat : p = n - 1 /\ p + 1 = n
    BY <2>1
  <2> HIDE DEF N, G
  <2>4. p + 1 <= Len(bodies) /\ bodies[p + 1].kind # "resync" /\ Grown(l, x, bodies, p)
    BY <1>1, <2>2, <2>3
  <2>5. y \in Enqueue(x, bodies[p + 1], writing)
    BY <2>3
  <2>6. y \in Links /\ Grown(l, y, bodies, p + 1)
    BY <2>2, <2>4, <2>5, GrownOne
  <2> QED BY <2>3, <2>6
<1>4. EnqueueAll(l, bodies, writing) \subseteq G[N]
  <2> HIDE DEF G, N
  <2> QED BY <1>1, <1>2, <1>3, QueuedAll
<1>5. N \in 0 .. N
  BY <1>1
<1> QED BY <1>4, <1>5

-----------------------------------------------------------------------------
(* What each step of the hub queues *)

Snaps(chs) == [i \in DOMAIN chs |-> SnapshotOf(chs[i])]

\* The snapshots of the channels, alone or behind another frame.
LEMMA SnapsFacts ==
    ASSUME SlateTypeOK, NEW chs \in Seq(Channels), NEW b \in Bodies
    PROVE  /\ Snaps(chs) \in Seq(Bodies) /\ Len(Snaps(chs)) = Len(chs)
           /\ \A i \in 1 .. Len(chs) : Snaps(chs)[i] = SnapshotOf(chs[i]) /\ chs[i] \in Sq!ToSet(chs)
           /\ \A ch \in Sq!ToSet(chs) : \E i \in 1 .. Len(chs) : Snaps(chs)[i] = SnapshotOf(ch)
           /\ <<b>> \o Snaps(chs) \in Seq(Bodies) /\ Len(<<b>> \o Snaps(chs)) = Len(chs) + 1
           /\ (<<b>> \o Snaps(chs))[1] = b
           /\ \A i \in 1 .. Len(chs) : (<<b>> \o Snaps(chs))[i + 1] = Snaps(chs)[i]
           /\ \A i \in 2 .. Len(chs) + 1 : (<<b>> \o Snaps(chs))[i] = Snaps(chs)[i - 1] /\ i - 1 \in 1 .. Len(chs)
<1> DEFINE s == Snaps(chs)
           N == Len(chs)
<1>1. N \in Nat /\ DOMAIN chs = 1 .. N /\ s \in Seq(Bodies)
  BY SnapshotsType DEF Snaps
<1>2. DOMAIN s = DOMAIN chs /\ \A i \in DOMAIN chs : s[i] = SnapshotOf(chs[i])
  BY DEF Snaps
<1>3. Len(s) = N
  <2>1. DOMAIN s = 1 .. Len(s) /\ Len(s) \in Nat
    BY <1>1
  <2> HIDE DEF s, N
  <2> QED BY <1>1, <1>2, <2>1
<1>4. \A i \in 1 .. N : chs[i] \in Sq!ToSet(chs)
  BY <1>1 DEF Sq!ToSet
<1>5. \A ch \in Sq!ToSet(chs) : \E i \in 1 .. N : s[i] = SnapshotOf(ch)
  <2>1. \A ch \in Sq!ToSet(chs) : \E i \in 1 .. N : chs[i] = ch
    BY <1>1 DEF Sq!ToSet
  <2> QED BY <1>1, <1>2, <2>1
<1> HIDE DEF s, N
<1>6. /\ <<b>> \o s \in Seq(Bodies) /\ Len(<<b>> \o s) = N + 1 /\ (<<b>> \o s)[1] = b
      /\ \A i \in 1 .. N : (<<b>> \o s)[i + 1] = s[i]
      /\ \A i \in 2 .. N + 1 : (<<b>> \o s)[i] = s[i - 1] /\ i - 1 \in 1 .. N
  BY <1>1, <1>3
<1> QED BY <1>1, <1>2, <1>3, <1>4, <1>5, <1>6 DEF s, N

\* What a fold that is published did.
Stored(m, entry) == result'.outcome = "stored" /\ slate' = [slate EXCEPT ![m] = entry]
Removed(m, entry) == /\ result'.outcome = "removed" /\ slate[m] = entry
                     /\ slate' = [slate EXCEPT ![m] = Absent]

\* What a fold that is published did to its market.
LEMMA Published ==
    ASSUME SlateInv, NEW d \in Deliveries, Fold(d), Changed(result')
    PROVE  \E m \in Markets, entry \in Entries :
              /\ result'.market = m /\ result'.channels = ChannelsFor(m, entry)
              /\ \/ Stored(m, entry) /\ d \in Documents /\ d.market = m /\ entry = EntryOf(d)
                 \/ Removed(m, entry)
<1>1. slate \in [Markets -> Entries \cup {Absent}]
  BY DEF SlateInv, SlateTypeOK
<1>2. Put(d) \/ Remove(d)
  <2>1. ASSUME Reject(d) \/ RefuseType(d) \/ Skip(d) PROVE FALSE
    BY <2>1 DEF Reject, RefuseType, Skip, Keep, Outcome, Changed
  <2> QED BY <2>1 DEF Fold
<1>3. CASE Put(d)
  <2>1. d \in Documents
    BY <1>3 DEF Put, Deliveries, Tombstones, Refusals, Unkeyed
  <2>2. d.market \in Markets /\ EntryOf(d) \in Entries
    BY <2>1, EntryOfType
  <2>3. /\ slate' = [slate EXCEPT ![d.market] = EntryOf(d)] /\ result'.market = d.market
        /\ result'.outcome = "stored" /\ result'.channels = ChannelsFor(d.market, EntryOf(d))
    BY <1>3 DEF Put, Outcome
  <2> QED BY <2>1, <2>2, <2>3 DEF Stored
<1>4. CASE Remove(d)
  <2>1. d.market \in Markets
    BY <1>4 DEF Remove, Deliveries, Documents, Tombstones, Refusals, Unkeyed
  <2>2. /\ slate' = [slate EXCEPT ![d.market] = Absent] /\ result'.market = d.market
        /\ result'.outcome = "removed"
        /\ result'.channels = IF slate[d.market] = Absent THEN {} ELSE ChannelsFor(d.market, slate[d.market])
    BY <1>4 DEF Remove, Outcome
  <2>3. slate[d.market] # Absent
    BY <2>2 DEF Changed
  <2> QED BY <1>1, <2>1, <2>2, <2>3 DEF Removed
<1> QED BY <1>2, <1>3, <1>4

\* A record reaches a connection on the channels it holds, each once.
LEMMA FanoutFacts ==
    ASSUME HubInv, NEW d \in Deliveries, Fold(d), Changed(result'), NEW c \in Conns
    PROVE  /\ Fanout(c, result') \in Seq(Bodies)
           /\ \A i \in 1 .. Len(Fanout(c, result')) :
                \E ch \in result'.channels \cap held[c] : Fanout(c, result')[i] = BodyFor(result', ch)
           /\ \A ch \in result'.channels \cap held[c] :
                \E i \in 1 .. Len(Fanout(c, result')) : Fanout(c, result')[i] = BodyFor(result', ch)
<1> DEFINE res == result'
           mine == {ch \in res.channels : c \in Subscribers(ch)}
           kinds == InOrder(mine)
<1>1. SlateInv /\ RoutesExact /\ res.channels \subseteq Channels
  BY PublishedResult DEF HubInv, RoutingInv
<1>2. PICK m \in Markets, entry \in Entries : res.channels = ChannelsFor(m, entry)
  BY <1>1, Published
<1>3. \A a, b \in res.channels : a.kind = b.kind => a = b
  <2> HIDE DEF res
  <2> QED BY <1>2 DEF ChannelsFor, MarketChannel, EventChannel, LeagueChannel
<1>4. mine = res.channels \cap held[c]
  <2>1. ASSUME NEW ch PROVE c \in Subscribers(ch) <=> ch \in held[c]
    BY <1>1 DEF RoutesExact, Subscribers
  <2> QED BY <2>1
<1>5. /\ kinds \in Seq({"market", "event", "league"}) /\ Sq!ToSet(kinds) = {ch.kind : ch \in mine}
  <2>1. mine \subseteq Channels
    BY <1>1
  <2> HIDE DEF mine
  <2> QED BY <2>1, InOrderFacts
<1>6. DOMAIN Fanout(c, res) = DOMAIN kinds
      /\ \A i \in DOMAIN kinds : Fanout(c, res)[i] = BodyFor(res, ChannelOfKind(res.channels, kinds[i]))
  BY DEF Fanout
<1>7. Fanout(c, res) \in Seq(Bodies)
  BY <1>1, FanoutType
<1> HIDE DEF res, kinds
<1>8. DOMAIN kinds = 1 .. Len(Fanout(c, res))
  BY <1>6, <1>7
<1>9. \A ch \in res.channels : ChannelOfKind(res.channels, ch.kind) = ch
  BY <1>3 DEF ChannelOfKind
<1>10. \A i \in DOMAIN kinds : \E ch \in mine : ch.kind = kinds[i]
  <2>1. \A i \in DOMAIN kinds : kinds[i] \in Sq!ToSet(kinds)
    BY DEF Sq!ToSet
  <2> QED BY <1>5, <2>1
<1>11. \A ch \in mine : \E i \in DOMAIN kinds : ch.kind = kinds[i]
  <2>1. \A ch \in mine : ch.kind \in Sq!ToSet(kinds)
    BY <1>5
  <2> QED BY <2>1 DEF Sq!ToSet
<1>12. \A i \in DOMAIN kinds : \E ch \in res.channels \cap held[c] : Fanout(c, res)[i] = BodyFor(res, ch)
  BY <1>4, <1>6, <1>9, <1>10
<1>13. \A ch \in res.channels \cap held[c] : \E i \in DOMAIN kinds : Fanout(c, res)[i] = BodyFor(res, ch)
  BY <1>4, <1>6, <1>9, <1>11
<1> QED BY <1>7, <1>8, <1>12, <1>13 DEF res

\* Of every connection.
OrderInv == \A c \in Conns : Ordered(link[c])

\* What a step queued to a connection: nothing, unless it is open.
Sent(c, bodies) ==
    IF Open(c) THEN Grown(link[c], link'[c], bodies, Len(bodies)) ELSE link'[c] = link[c]

LEMMA QueuedSent ==
    ASSUME HubInv, OrderInv, NEW c \in Conns, NEW bodies \in Seq(Bodies),
           \A i \in 1 .. Len(bodies) : bodies[i].kind # "resync", link'[c] \in Queued(c, bodies)
    PROVE  Sent(c, bodies)
<1>1. link[c] \in Links /\ Ordered(link[c])
  BY DEF HubInv, TypesInv, ConnTypes, OrderInv
<1> QED BY <1>1, GrownAll DEF Sent, Queued

LEMMA SendSent ==
    ASSUME HubInv, OrderInv, NEW c \in Conns, NEW bodies \in Seq(Bodies),
           \A i \in 1 .. Len(bodies) : bodies[i].kind # "resync", Send(c, bodies)
    PROVE  Sent(c, bodies) /\ \A x \in Conns \ {c} : link'[x] = link[x]
<1>1. link \in [Conns -> Links]
  BY DEF HubInv, TypesInv, ConnTypes
<1>2. PICK l \in Queued(c, bodies) : link' = [link EXCEPT ![c] = l]
  BY DEF Send
<1>3. link'[c] = l /\ \A x \in Conns \ {c} : link'[x] = link[x]
  BY <1>1, <1>2
<1> QED BY <1>2, <1>3, QueuedSent

\* What a connection is sent when a record is published.
LEMMA PublishSends ==
    ASSUME HubInv, OrderInv, NEW d \in Deliveries, Publish(d), NEW c \in Conns
    PROVE  /\ Fold(d)
           /\ Changed(result') => Sent(c, Fanout(c, result'))
           /\ ~Changed(result') => link'[c] = link[c]
<1>1. Fold(d)
  BY DEF Publish
<1>2. ASSUME Changed(result') PROVE Sent(c, Fanout(c, result'))
  <2>1. link'[c] \in Queued(c, Fanout(c, result'))
    BY <1>2 DEF Publish
  <2>2. /\ Fanout(c, result') \in Seq(Bodies)
        /\ \A i \in 1 .. Len(Fanout(c, result')) : \E ch : Fanout(c, result')[i] = BodyFor(result', ch)
    BY <1>1, <1>2, FanoutFacts
  <2>3. \A ch : BodyFor(result', ch).kind # "resync"
    BY DEF BodyFor, Delta, Removal
  <2>4. \A i \in 1 .. Len(Fanout(c, result')) : Fanout(c, result')[i].kind # "resync"
    BY <2>2, <2>3
  <2> QED BY <2>1, <2>2, <2>4, QueuedSent
<1> QED BY <1>1, <1>2 DEF Publish

\* A frame and snapshots behind it.
LEMMA LedSnaps ==
    ASSUME SlateTypeOK, NEW chs \in Seq(Channels), NEW b \in Bodies, b.kind # "resync"
    PROVE  /\ <<b>> \o Snaps(chs) \in Seq(Bodies)
           /\ \A i \in 1 .. Len(<<b>> \o Snaps(chs)) : (<<b>> \o Snaps(chs))[i].kind # "resync"
           /\ Snaps(chs) \in Seq(Bodies)
           /\ \A i \in 1 .. Len(Snaps(chs)) : Snaps(chs)[i].kind # "resync"
<1> DEFINE s == Snaps(chs)
           t == <<b>> \o s
           N == Len(chs)
<1>1. /\ s \in Seq(Bodies) /\ Len(s) = N
      /\ \A i \in 1 .. N : s[i] = SnapshotOf(chs[i])
      /\ t \in Seq(Bodies) /\ Len(t) = N + 1 /\ t[1] = b
      /\ \A i \in 2 .. N + 1 : t[i] = s[i - 1] /\ i - 1 \in 1 .. N
  BY SnapsFacts
<1> HIDE DEF s, t
<1>2. \A i \in 1 .. N : s[i].kind # "resync"
  <2>1. \A ch : SnapshotOf(ch).kind # "resync"
    BY DEF SnapshotOf
  <2> QED BY <1>1, <2>1
<1>3. ASSUME NEW i \in 1 .. N + 1 PROVE t[i].kind # "resync"
  <2>1. i = 1 \/ i \in 2 .. N + 1
    OBVIOUS
  <2> QED BY <1>1, <1>2, <2>1
<1> QED BY <1>1, <1>2, <1>3 DEF s, t

LEMMA RegisterSends ==
    ASSUME HubInv, OrderInv, NEW c \in Conns, Register(c), ~Closed
    PROVE  /\ Grown(link[c], link'[c], <<Hello(job[c].channels)>> \o Snaps(job[c].channels),
                    Len(<<Hello(job[c].channels)>> \o Snaps(job[c].channels)))
           /\ \A x \in Conns \ {c} : link'[x] = link[x]
<1> DEFINE chs == job[c].channels
           t == <<Hello(chs)>> \o Snaps(chs)
<1>1. /\ link \in [Conns -> Links] /\ Ordered(link[c]) /\ SlateTypeOK /\ chs \in Seq(Channels)
  BY DEF HubInv, SlateInv, TypesInv, ConnTypes, OrderInv
<1>2. PICK l \in EnqueueAll(link[c], t, FALSE) : link' = [link EXCEPT ![c] = l]
  BY DEF Register, Snaps
<1>3. Hello(chs) \in Bodies /\ Hello(chs).kind # "resync"
  <2> HIDE DEF chs
  <2> QED BY <1>1 DEF Hello, Bodies
<1>4. t \in Seq(Bodies) /\ \A i \in 1 .. Len(t) : t[i].kind # "resync"
  <2> HIDE DEF chs
  <2> QED BY <1>1, <1>3, LedSnaps
<1>5. link'[c] = l /\ \A x \in Conns \ {c} : link'[x] = link[x]
  BY <1>1, <1>2
<1> HIDE DEF t, chs
<1>6. Grown(link[c], l, t, Len(t))
  BY <1>1, <1>2, <1>4, GrownAll
<1> QED BY <1>5, <1>6 DEF t, chs

LEMMA AttachSubscribeSends ==
    ASSUME HubInv, OrderInv, NEW c \in Conns, AttachSubscribe(c)
    PROVE  /\ Sent(c, <<AckOf("subscribe", job[c].channels)>> \o Snaps(job[c].channels))
           /\ \A x \in Conns \ {c} : link'[x] = link[x]
<1> DEFINE chs == job[c].channels
           t == <<AckOf("subscribe", chs)>> \o Snaps(chs)
<1>1. /\ SlateTypeOK /\ chs \in Seq(Channels)
  BY DEF HubInv, SlateInv, TypesInv, ConnTypes
<1>2. Send(c, t)
  BY DEF AttachSubscribe, Snaps
<1>3. AckOf("subscribe", chs) \in Bodies /\ AckOf("subscribe", chs).kind # "resync"
  <2> HIDE DEF chs
  <2> QED BY <1>1 DEF AckOf, Bodies
<1>4. t \in Seq(Bodies) /\ \A i \in 1 .. Len(t) : t[i].kind # "resync"
  <2> HIDE DEF chs
  <2> QED BY <1>1, <1>3, LedSnaps
<1> HIDE DEF t, chs
<1>5. Sent(c, t) /\ \A x \in Conns \ {c} : link'[x] = link[x]
  BY <1>2, <1>4, SendSent
<1> QED BY <1>5 DEF t, chs

LEMMA AttachResyncSends ==
    ASSUME HubInv, OrderInv, NEW c \in Conns, AttachResync(c)
    PROVE  /\ Sent(c, Snaps(job[c].channels))
           /\ \A x \in Conns \ {c} : link'[x] = link[x]
<1> DEFINE chs == job[c].channels
           t == Snaps(chs)
<1>1. /\ SlateTypeOK /\ chs \in Seq(Channels)
  BY DEF HubInv, SlateInv, TypesInv, ConnTypes
<1>2. Send(c, t)
  BY DEF AttachResync, Snaps
<1>3. GoingAway \in Bodies /\ GoingAway.kind # "resync"
  BY DEF GoingAway, Bodies
<1>4. t \in Seq(Bodies) /\ \A i \in 1 .. Len(t) : t[i].kind # "resync"
  <2> HIDE DEF chs
  <2> QED BY <1>1, <1>3, LedSnaps
<1> HIDE DEF t, chs
<1>5. Sent(c, t) /\ \A x \in Conns \ {c} : link'[x] = link[x]
  BY <1>2, <1>4, SendSent
<1> QED BY <1>5 DEF t, chs

\* The channels an unsubscribe names and the connection holds.
Dropped(c) == Among(Head(up[c]).channels, held[c])

LEMMA UnsubscribeSends ==
    ASSUME HubInv, OrderInv, NEW c \in Conns, Unsubscribe(c)
    PROVE  /\ Sent(c, <<AckOf("unsubscribe", Dropped(c))>>)
           /\ \A x \in Conns \ {c} : link'[x] = link[x]
           /\ Dropped(c) \in Seq(Channels)
           /\ held' = [held EXCEPT ![c] = held[c] \ Sq!ToSet(Dropped(c))]
<1>1. Head(up[c]).channels \in Seq(Channels) /\ held \in [Conns -> SUBSET Channels]
  <2>1. ConnTypes /\ Requested(c, "unsubscribe") /\ Counted
    BY DEF HubInv, TypesInv, Unsubscribe
  <2> QED BY <2>1, RequestType DEF Counted
<1>2. Dropped(c) \in Seq(Channels)
  BY <1>1, AmongType DEF Dropped
<1> DEFINE t == <<AckOf("unsubscribe", Dropped(c))>>
<1>3. Send(c, t) /\ held' = [held EXCEPT ![c] = held[c] \ Sq!ToSet(Dropped(c))]
  BY <1>1 DEF Unsubscribe, Dropped, RemoveRoutes
<1>4. AckOf("unsubscribe", Dropped(c)) \in Bodies /\ AckOf("unsubscribe", Dropped(c)).kind # "resync"
  BY <1>2 DEF AckOf, Bodies
<1>5. t \in Seq(Bodies) /\ \A i \in 1 .. Len(t) : t[i].kind # "resync"
  BY <1>4
<1> HIDE DEF t
<1>6. Sent(c, t) /\ \A x \in Conns \ {c} : link'[x] = link[x]
  BY <1>3, <1>5, SendSent
<1> QED BY <1>2, <1>3, <1>6 DEF t

\* The write loop moves a frame on, and loses none.
LEMMA TransmitMoves ==
    ASSUME HubInv, OrderInv, NEW c \in Conns, Transmit(c)
    PROVE  /\ Ordered(link'[c]) /\ Carried(link'[c]) = Carried(link[c]) /\ link'[c].seq = link[c].seq
           /\ \A x \in Conns \ {c} : link'[x] = link[x]
<1> DEFINE l == link[c]
           h == Head(l.queue)
           q == Tail(l.queue)
           w == Append(l.wire, h)
           k == link'[c]
<1>1. /\ link \in [Conns -> Links] /\ l \in Links /\ Ordered(l) /\ l.queue # <<>>
      /\ link' = [link EXCEPT ![c] = [l EXCEPT !.queue = q, !.wire = w]]
  BY DEF HubInv, TypesInv, ConnTypes, OrderInv, Transmit
<1>2. l.queue \in Seq(Frames) /\ l.wire \in Seq(Frames) /\ h \in Frames /\ q \in Seq(Frames)
  <2>1. l.queue \in Seq(Frames) /\ l.wire \in Seq(Frames)
    BY <1>1 DEF Links, LinksOf, Frames
  <2> HIDE DEF l
  <2> QED BY <1>1, <2>1
<1>3. /\ k.seq = l.seq /\ k.queue = q /\ k.wire = w
      /\ \A x \in Conns \ {c} : link'[x] = link[x]
  <2>1. k = [l EXCEPT !.queue = q, !.wire = w]
    BY <1>1
  <2>2. l \in [seq : Nat, queue : Seq(Frames), wire : Seq(Frames)]
    BY <1>1 DEF Links, LinksOf, Frames
  <2> HIDE DEF l, q, w
  <2>3. k.seq = l.seq /\ k.queue = q /\ k.wire = w
    BY <2>1, <2>2
  <2> QED BY <1>1, <2>3
<1>4. Carried(k) = Carried(l)
  <2>1. Sq!ToSet(w) = Sq!ToSet(l.wire) \cup {h}
    <3> HIDE DEF h, l
    <3> QED BY <1>2, SetAppended
  <2>2. Sq!ToSet(l.queue) = {h} \cup Sq!ToSet(q)
    BY <1>1, <1>2, SetTaken
  <2> QED BY <1>3, <2>1, <2>2 DEF Carried
<1>5. /\ DOMAIN l.wire = 1 .. Len(l.wire) /\ Len(l.wire) \in Nat
      /\ DOMAIN w = 1 .. Len(l.wire) + 1 /\ w[Len(l.wire) + 1] = h
      /\ \A i \in DOMAIN l.wire : w[i] = l.wire[i]
      /\ Len(l.queue) \in Nat /\ Len(l.queue) >= 1 /\ DOMAIN l.queue = 1 .. Len(l.queue) /\ h = l.queue[1]
      /\ DOMAIN q = 1 .. Len(l.queue) - 1 /\ \A i \in DOMAIN q : q[i] = l.queue[i + 1] /\ i + 1 \in DOMAIN l.queue
  <2> HIDE DEF l
  <2> QED BY <1>1, <1>2
<1>6. /\ Ascending(l.wire) /\ Ascending(l.queue)
      /\ \A i \in DOMAIN l.wire, j \in DOMAIN l.queue : l.wire[i].seq < l.queue[j].seq
      /\ \A f \in Carried(l) : f.seq <= l.seq
  BY <1>1 DEF Ordered
<1> HIDE DEF l, h, q, w, k
<1>7. Ascending(w)
  <2> SUFFICES ASSUME NEW i \in DOMAIN w, NEW j \in DOMAIN w, i < j PROVE w[i].seq < w[j].seq
    BY DEF Ascending
  <2>1. i \in DOMAIN l.wire /\ (j \in DOMAIN l.wire \/ j = Len(l.wire) + 1)
    BY <1>5
  <2>2. CASE j \in DOMAIN l.wire
    BY <1>5, <1>6, <2>1, <2>2 DEF Ascending
  <2>3. CASE j = Len(l.wire) + 1
    <3>1. 1 \in DOMAIN l.queue
      BY <1>5
    <3> QED BY <1>5, <1>6, <2>1, <2>3, <3>1
  <2> QED BY <2>1, <2>2, <2>3
<1>8. Ascending(q)
  <2> SUFFICES ASSUME NEW i \in DOMAIN q, NEW j \in DOMAIN q, i < j PROVE q[i].seq < q[j].seq
    BY DEF Ascending
  <2>1. i + 1 < j + 1 /\ i + 1 \in DOMAIN l.queue /\ j + 1 \in DOMAIN l.queue
    BY <1>5
  <2> QED BY <1>5, <1>6, <2>1 DEF Ascending
<1>9. \A i \in DOMAIN w, j \in DOMAIN q : w[i].seq < q[j].seq
  <2> SUFFICES ASSUME NEW i \in DOMAIN w, NEW j \in DOMAIN q PROVE w[i].seq < q[j].seq
    OBVIOUS
  <2>1. j + 1 \in DOMAIN l.queue /\ 1 < j + 1 /\ 1 \in DOMAIN l.queue
    BY <1>5
  <2>2. CASE i \in DOMAIN l.wire
    BY <1>5, <1>6, <2>1, <2>2
  <2>3. CASE i = Len(l.wire) + 1
    BY <1>5, <1>6, <2>1, <2>3 DEF Ascending
  <2> QED BY <1>5, <2>2, <2>3
<1>10. Ordered(k)
  BY <1>3, <1>4, <1>6, <1>7, <1>8, <1>9 DEF Ordered
<1> QED BY <1>3, <1>4, <1>10 DEF k, l

\* What is still queued when a connection is unregistered is lost, and what is
\* still on the wire when a client leaves.
LEMMA LessCarried ==
    ASSUME NEW l \in Links, Ordered(l), NEW k \in Links, k.seq = l.seq,
           \/ k.wire = l.wire /\ k.queue = <<>>
           \/ k.wire = <<>> /\ k.queue = l.queue
    PROVE  Ordered(k) /\ Carried(k) \subseteq Carried(l)
<1>1. Sq!ToSet(<<>>) = {}
  BY DEF Sq!ToSet
<1>2. /\ Ascending(l.wire) /\ Ascending(l.queue) /\ Ascending(<<>>)
      /\ \A f \in Carried(l) : f.seq <= l.seq
  BY DEF Ordered, Ascending
<1>3. Carried(k) \subseteq Carried(l)
  BY <1>1 DEF Carried
<1> QED BY <1>2, <1>3 DEF Ordered

\* A client takes the first frame of the wire.
LEMMA FirstTaken ==
    ASSUME NEW l \in Links, Ordered(l), NEW k \in Links, k.seq = l.seq,
           l.wire # <<>>, k.wire = Tail(l.wire), k.queue = l.queue
    PROVE  /\ Ordered(k) /\ Carried(l) = Carried(k) \cup {Head(l.wire)}
           /\ \A f \in Carried(k) : Head(l.wire).seq < f.seq
<1> DEFINE w == Tail(l.wire)
<1>1. l.queue \in Seq(Frames) /\ l.wire \in Seq(Frames)
  BY DEF Links, LinksOf, Frames
<1>2. /\ Ascending(l.wire) /\ Ascending(l.queue)
      /\ \A i \in DOMAIN l.wire, j \in DOMAIN l.queue : l.wire[i].seq < l.queue[j].seq
      /\ \A f \in Carried(l) : f.seq <= l.seq
  BY DEF Ordered
<1>3. Carried(l) = Carried(k) \cup {Head(l.wire)}
  BY <1>1, SetTaken DEF Carried
<1>4. /\ Head(l.wire) = l.wire[1] /\ 1 \in DOMAIN l.wire
      /\ \A i \in DOMAIN w : w[i] = l.wire[i + 1] /\ i + 1 \in DOMAIN l.wire /\ i \in Nat /\ 1 < i + 1
  BY <1>1
<1> HIDE DEF w
<1>5. Ascending(w)
  <2> SUFFICES ASSUME NEW i \in DOMAIN w, NEW j \in DOMAIN w, i < j PROVE w[i].seq < w[j].seq
    BY DEF Ascending
  <2>1. i + 1 < j + 1
    BY <1>4
  <2> QED BY <1>2, <1>4, <2>1 DEF Ascending
<1>6. \A i \in DOMAIN w, j \in DOMAIN l.queue : w[i].seq < l.queue[j].seq
  BY <1>2, <1>4
<1>7. \A f \in Carried(k) : f.seq <= k.seq
  BY <1>2, <1>3
<1>8. Ordered(k)
  BY <1>2, <1>5, <1>6, <1>7 DEF Ordered, w
<1>9. ASSUME NEW f \in Carried(k) PROVE Head(l.wire).seq < f.seq
  <2>1. (\E i \in DOMAIN w : f = w[i]) \/ (\E j \in DOMAIN l.queue : f = l.queue[j])
    BY DEF Carried, w, Sq!ToSet
  <2>2. ASSUME NEW i \in DOMAIN w, f = w[i] PROVE Head(l.wire).seq < f.seq
    BY <1>2, <1>4, <2>2 DEF Ascending
  <2>3. ASSUME NEW j \in DOMAIN l.queue, f = l.queue[j] PROVE Head(l.wire).seq < f.seq
    BY <1>2, <1>4, <2>3
  <2> QED BY <2>1, <2>2, <2>3
<1> QED BY <1>3, <1>8, <1>9

LEMMA UnregisterDrops ==
    ASSUME HubInv, OrderInv, NEW c \in Conns, Unregister(c)
    PROVE  /\ Ordered(link'[c]) /\ Carried(link'[c]) \subseteq Carried(link[c]) /\ link'[c].seq = link[c].seq
           /\ \A x \in Conns \ {c} : link'[x] = link[x]
<1> DEFINE l == link[c]
           k == [seq |-> l.seq, queue |-> <<>>, wire |-> l.wire]
<1>1. /\ link \in [Conns -> Links] /\ l \in Links /\ Ordered(l)
      /\ link' = [link EXCEPT ![c] = [l EXCEPT !.queue = <<>>]]
  BY DEF HubInv, TypesInv, ConnTypes, OrderInv, Unregister
<1>2. [l EXCEPT !.queue = <<>>] = k /\ k \in Links
  <2> HIDE DEF l
  <2> QED BY <1>1, CapacitiesAssumption DEF Links, LinksOf
<1>3. link'[c] = k /\ \A x \in Conns \ {c} : link'[x] = link[x]
  BY <1>1, <1>2
<1>4. Ordered(k) /\ Carried(k) \subseteq Carried(l) /\ k.seq = l.seq
  <2>1. k.seq = l.seq /\ k.wire = l.wire /\ k.queue = <<>>
    OBVIOUS
  <2> HIDE DEF k, l
  <2> QED BY <1>1, <1>2, <2>1, LessCarried
<1> QED BY <1>3, <1>4

\* The hub leaves every other link alone.
Quiet == /\ link' = link
         /\ \/ \E c \in Conns : Restore(c) \/ (Register(c) /\ Closed) \/ Serve(c) \/ Close(c)
            \/ \E c \in Conns : ClassifySubscribe(c) \/ PickResync(c)

\* The steps of the hub that touch a link.
LEMMA HubCases ==
    ASSUME HubNext
    PROVE  \/ Quiet
           \/ \E d \in Deliveries : Publish(d)
           \/ \E c \in Conns : \/ Register(c) /\ ~Closed
                               \/ Unregister(c) \/ Transmit(c)
                               \/ Unsubscribe(c) \/ AttachSubscribe(c) \/ AttachResync(c)
<1>1. ASSUME NEW c \in Conns, Restore(c) \/ (Register(c) /\ Closed) \/ Serve(c) \/ Close(c)
                              \/ ClassifySubscribe(c) \/ PickResync(c)
      PROVE  link' = link
  BY <1>1 DEF Restore, Register, Serve, Close, ClassifySubscribe, PickResync
<1> QED BY <1>1 DEF HubNext, Handling, Quiet

LEMMA OrderHub ==
    ASSUME HubInv, OrderInv, HubNext
    PROVE  OrderInv'
<1> USE DEF OrderInv
<1>1. ASSUME NEW c \in Conns, NEW bodies, Sent(c, bodies) PROVE Ordered(link'[c])
  BY <1>1 DEF Sent, Grown
<1>2. CASE Quiet
  BY <1>2 DEF Quiet
<1>3. ASSUME NEW d \in Deliveries, Publish(d) PROVE OrderInv'
  <2> SUFFICES ASSUME NEW c \in Conns PROVE Ordered(link'[c])
    OBVIOUS
  <2> QED BY <1>1, <1>3, PublishSends
<1>4. ASSUME NEW c \in Conns, Register(c), ~Closed PROVE OrderInv'
  BY <1>4, RegisterSends DEF Grown
<1>5. ASSUME NEW c \in Conns, Unregister(c) PROVE OrderInv'
  BY <1>5, UnregisterDrops
<1>6. ASSUME NEW c \in Conns, Transmit(c) PROVE OrderInv'
  BY <1>6, TransmitMoves
<1>7. ASSUME NEW c \in Conns, Unsubscribe(c) PROVE OrderInv'
  BY <1>1, <1>7, UnsubscribeSends
<1>8. ASSUME NEW c \in Conns, AttachSubscribe(c) PROVE OrderInv'
  BY <1>1, <1>8, AttachSubscribeSends
<1>9. ASSUME NEW c \in Conns, AttachResync(c) PROVE OrderInv'
  BY <1>1, <1>9, AttachResyncSends
<1> QED BY <1>2, <1>3, <1>4, <1>5, <1>6, <1>7, <1>8, <1>9, HubCases

\* Nor does the browser reorder what it is sent.
LEMMA BoardOrderStep ==
    ASSUME BoardStart, OrderInv, [BoardNext]_boardGatewayVars
    PROVE  OrderInv'
<1>1. HubInv /\ BoardTypes /\ \A c \in Conns : link[c] \in Links /\ Ordered(link[c])
  BY DEF BoardStart, HubInv, TypesInv, ConnTypes, OrderInv
<1>2. CASE HubNext
  BY <1>1, <1>2, OrderHub
<1>3. CASE link' = link
  BY <1>3 DEF OrderInv
<1>4. CASE Message
  <2> DEFINE l == link[socket]
             k == [seq |-> l.seq, queue |-> l.queue, wire |-> Tail(l.wire)]
  <2>1. /\ socket \in Conns /\ l.wire # <<>> /\ link' = [link EXCEPT ![socket] = k] /\ link' \in [Conns -> Links]
    BY <1>1, <1>4, MessageFacts
  <2>2. link'[socket] = k /\ k \in Links /\ \A c \in Conns \ {socket} : link'[c] = link[c]
    <3> HIDE DEF k
    <3>1. link \in [Conns -> Links]
      BY <1>1 DEF HubInv, TypesInv, ConnTypes
    <3> QED BY <2>1, <3>1
  <2>3. Ordered(k)
    <3>1. k.seq = l.seq /\ k.wire = Tail(l.wire) /\ k.queue = l.queue /\ l \in Links /\ Ordered(l)
      BY <1>1, <2>1
    <3> HIDE DEF k, l
    <3> QED BY <2>1, <2>2, <3>1, FirstTaken DEF l
  <2> HIDE DEF k
  <2> QED BY <1>1, <2>2, <2>3 DEF OrderInv
<1>5. CASE Closes
  <2> DEFINE l == link[socket]
             k == [seq |-> l.seq, queue |-> l.queue, wire |-> <<>>]
  <2>1. /\ socket \in Conns /\ link' = [link EXCEPT ![socket] = k] /\ link' \in [Conns -> Links]
    BY <1>1, <1>5, ClosesFacts
  <2>2. link'[socket] = k /\ k \in Links /\ \A c \in Conns \ {socket} : link'[c] = link[c]
    <3> HIDE DEF k
    <3>1. link \in [Conns -> Links]
      BY <1>1 DEF HubInv, TypesInv, ConnTypes
    <3> QED BY <2>1, <3>1
  <2>3. Ordered(k)
    <3>1. k.seq = l.seq /\ k.wire = <<>> /\ k.queue = l.queue /\ l \in Links /\ Ordered(l)
      BY <1>1, <2>1
    <3> HIDE DEF k, l
    <3> QED BY <2>2, <3>1, LessCarried
  <2> HIDE DEF k
  <2> QED BY <1>1, <2>2, <2>3 DEF OrderInv
<1>6. ASSUME NEW c, Opens(c) PROVE link' = link
  BY <1>6 DEF Opens
<1>7. ASSUME NEW ch, Wants(ch) PROVE link' = link
  BY <1>7 DEF Wants
<1>8. UNCHANGED boardGatewayVars => link' = link
  BY DEF boardGatewayVars, gatewayVars, connVars
<1> QED BY <1>2, <1>3, <1>4, <1>5, <1>6, <1>7, <1>8 DEF BoardNext

-----------------------------------------------------------------------------
(* The silence after an unsubscribe *)

Ends(b, ch) == b.kind = "ack" /\ b.op = "unsubscribe" /\ ch \in Sq!ToSet(b.channels)
Starts(b, ch) == b.kind = "ack" /\ b.op = "subscribe" /\ ch \in Sq!ToSet(b.channels)
About(b, ch) == b.kind \in {"snapshot", "delta", "removal"} /\ b.ch = ch

\* Past a number and up to another, one is missing, or acknowledges a subscription.
Reopened(F, from, ch, top) == \E n \in from + 1 .. top : \A f \in F : f.seq = n => Starts(f.body, ch)

\* What follows the end of a channel on a link, where those of H are held.
Silence(l, H) ==
    \A x \in Carried(l), ch \in Channels :
        Ends(x.body, ch) =>
            /\ ch \in H => Reopened(Carried(l), x.seq, ch, l.seq)
            /\ \A y \in Carried(l) :
                  About(y.body, ch) /\ x.seq < y.seq => Reopened(Carried(l), x.seq, ch, y.seq)

\* What a connection holds and will be told of.
Holds(c) == IF Open(c) THEN held[c] ELSE {}
SilenceInv == \A c \in Conns : Silence(link[c], Holds(c))

\* Frames that are taken or lost, and channels that are left, leave a silence.
LEMMA SilenceKept ==
    ASSUME NEW l, NEW H, Silence(l, H), NEW k, NEW J, J \subseteq H,
           k.seq = l.seq, Carried(k) \subseteq Carried(l)
    PROVE  Silence(k, J)
<1>1. ASSUME NEW from, NEW ch, NEW top, Reopened(Carried(l), from, ch, top)
      PROVE  Reopened(Carried(k), from, ch, top)
  BY <1>1 DEF Reopened
<1> QED BY <1>1 DEF Silence

\* What may be queued: on a channel, only what follows a subscription that still
\* stands or that the first of the bodies acknowledges; and the end of a channel
\* comes with nothing else.
LEMMA SilenceGrown ==
    ASSUME NEW l \in Links, Ordered(l), NEW H, Silence(l, H), NEW k \in Links,
           NEW bodies \in Seq(Bodies), Grown(l, k, bodies, Len(bodies)), NEW C, NEW J, J \subseteq H \cup C,
           C # {} => Len(bodies) >= 1 /\ \A ch \in C : Starts(bodies[1], ch),
           \A i \in 1 .. Len(bodies), ch \in Channels : About(bodies[i], ch) => ch \in H \cup C,
           \A i \in 1 .. Len(bodies), ch \in Channels : Ends(bodies[i], ch) =>
                ch \notin J /\ \A j \in 1 .. Len(bodies) : ~About(bodies[j], ch)
    PROVE  Silence(k, J)
<1> DEFINE N == Len(bodies)
<1>1. /\ N \in Nat /\ l.seq \in Nat /\ k.seq \in Nat /\ k.seq >= l.seq + N /\ Ordered(k)
      /\ \A f \in Carried(l) : f.seq \in Nat /\ f.seq <= l.seq
      /\ \A f \in Carried(k) : f.seq \in Nat /\ f.seq <= k.seq
  BY NumbersOnce DEF Grown
<1>2. ASSUME NEW f \in Carried(k)
      PROVE  \/ f \in Carried(l) /\ f.seq <= l.seq
             \/ f.seq > l.seq /\ (f.body = ResyncNotice \/ \E i \in 1 .. N : f.body = bodies[i])
  BY <1>1 DEF Grown
<1>3. \A ch : ~Ends(ResyncNotice, ch) /\ ~About(ResyncNotice, ch)
  BY DEF Ends, About, ResyncNotice
<1> HIDE DEF N
<1>4. ASSUME NEW from \in Nat, from <= l.seq, NEW top \in Nat, NEW ch,
             \/ top >= l.seq /\ Reopened(Carried(l), from, ch, l.seq)
             \/ top <= l.seq /\ Reopened(Carried(l), from, ch, top)
             \/ top > l.seq /\ ch \in C
      PROVE  Reopened(Carried(k), from, ch, top)
  <2>1. ASSUME NEW n \in from + 1 .. top, n <= l.seq, \A f \in Carried(l) : f.seq = n => Starts(f.body, ch)
        PROVE  Reopened(Carried(k), from, ch, top)
    <3>1. \A f \in Carried(k) : f.seq = n => f \in Carried(l)
      BY <1>1, <1>2, <1>4, <2>1
    <3> QED BY <2>1, <3>1 DEF Reopened
  <2>2. CASE top >= l.seq /\ Reopened(Carried(l), from, ch, l.seq)
    <3>1. PICK n \in from + 1 .. l.seq : \A f \in Carried(l) : f.seq = n => Starts(f.body, ch)
      BY <2>2 DEF Reopened
    <3>2. n \in from + 1 .. top /\ n <= l.seq
      BY <1>1, <1>4, <2>2, <3>1
    <3> QED BY <2>1, <3>1, <3>2
  <2>3. CASE top <= l.seq /\ Reopened(Carried(l), from, ch, top)
    <3>1. PICK n \in from + 1 .. top : \A f \in Carried(l) : f.seq = n => Starts(f.body, ch)
      BY <2>3 DEF Reopened
    <3>2. n <= l.seq
      BY <1>1, <1>4, <2>3, <3>1
    <3> QED BY <2>1, <3>1, <3>2
  <2>4. CASE top > l.seq /\ ch \in C
    <3>1. l.seq + 1 \in from + 1 .. top
      BY <1>1, <1>4, <2>4
    <3>2. \A f \in Carried(k) : f.seq = l.seq + 1 => f.body = bodies[1]
      BY DEF Grown
    <3>3. Starts(bodies[1], ch)
      BY <2>4
    <3> QED BY <3>1, <3>2, <3>3 DEF Reopened
  <2> QED BY <1>4, <2>2, <2>3, <2>4
<1> SUFFICES ASSUME NEW x \in Carried(k), NEW ch \in Channels, Ends(x.body, ch)
             PROVE  /\ ch \in J => Reopened(Carried(k), x.seq, ch, k.seq)
                    /\ \A y \in Carried(k) :
                          About(y.body, ch) /\ x.seq < y.seq => Reopened(Carried(k), x.seq, ch, y.seq)
  BY DEF Silence
<1>5. CASE x \in Carried(l) /\ x.seq <= l.seq
  <2>1. /\ x.seq \in Nat
        /\ ch \in H => Reopened(Carried(l), x.seq, ch, l.seq)
        /\ \A y \in Carried(l) :
              About(y.body, ch) /\ x.seq < y.seq => Reopened(Carried(l), x.seq, ch, y.seq)
    BY <1>1, <1>5 DEF Silence
  <2>2. ASSUME ch \in J PROVE Reopened(Carried(k), x.seq, ch, k.seq)
    <3>1. ch \in H \/ (ch \in C /\ k.seq > l.seq)
      BY <1>1, <2>2 DEF N
    <3>2. k.seq >= l.seq
      BY <1>1
    <3> QED BY <1>1, <1>4, <1>5, <2>1, <3>1, <3>2
  <2>3. ASSUME NEW y \in Carried(k), About(y.body, ch), x.seq < y.seq
        PROVE  Reopened(Carried(k), x.seq, ch, y.seq)
    <3>1. CASE y \in Carried(l) /\ y.seq <= l.seq
      BY <1>1, <1>4, <1>5, <2>1, <2>3, <3>1
    <3>2. CASE y.seq > l.seq /\ \E i \in 1 .. N : y.body = bodies[i]
      <4>1. ch \in H \cup C
        BY <2>3, <3>2 DEF N
      <4>2. y.seq \in Nat /\ y.seq >= l.seq
        BY <1>1, <3>2
      <4> QED BY <1>4, <1>5, <2>1, <3>2, <4>1, <4>2
    <3> QED BY <1>2, <1>3, <2>3, <3>1, <3>2
  <2> QED BY <2>2, <2>3
<1>6. CASE x.seq > l.seq /\ \E i \in 1 .. N : x.body = bodies[i]
  <2>1. PICK i \in 1 .. N : x.body = bodies[i]
    BY <1>6
  <2>2. ch \notin J /\ \A j \in 1 .. N : ~About(bodies[j], ch)
    BY <2>1 DEF N
  <2>3. ASSUME NEW y \in Carried(k), About(y.body, ch), x.seq < y.seq PROVE FALSE
    BY <1>1, <1>2, <1>3, <1>6, <2>2, <2>3
  <2> QED BY <2>2, <2>3
<1> QED BY <1>2, <1>3, <1>5, <1>6

\* A step of the hub publishes a record, or is one connection's: to the others
\* nothing happens.
Apart(c) == /\ held'[c] = held[c] /\ denied'[c] = denied[c] /\ job'[c] = job[c] /\ up'[c] = up[c]
            /\ phase'[c] = phase[c] /\ link'[c] = link[c] /\ UNCHANGED slateVars
Own(c) == \/ Restore(c) \/ Register(c) \/ Serve(c) \/ Close(c) \/ Unregister(c) \/ Transmit(c)
          \/ ClassifySubscribe(c) \/ AttachSubscribe(c) \/ Unsubscribe(c) \/ PickResync(c) \/ AttachResync(c)

\* A step is this connection's own, leaves it apart, or publishes a record.
LEMMA HubActs ==
    ASSUME HubInv, OrderInv, HubNext, NEW c \in Conns
    PROVE  Apart(c) \/ Own(c) \/ \E d \in Deliveries : Publish(d)
<1>1. /\ link \in [Conns -> Links] /\ phase \in [Conns -> Phases] /\ up \in [Conns -> Seq(Asked)]
      /\ job \in [Conns -> [op : JobOps, channels : Seq(Channels)]]
      /\ held \in [Conns -> SUBSET Channels] /\ denied \in [Conns -> SUBSET Channels]
  BY DEF HubInv, TypesInv, ConnTypes, Counted
<1>2. ASSUME NEW x \in Conns \ {c}, Own(x) PROVE Apart(c)
  <2>1. UNCHANGED slateVars
    BY <1>2 DEF Own, Restore, Register, Serve, Close, Unregister, Transmit, ClassifySubscribe,
                AttachSubscribe, Unsubscribe, PickResync, AttachResync
  <2>2. held'[c] = held[c] /\ denied'[c] = denied[c]
    BY <1>1, <1>2 DEF Own, Restore, Register, Serve, Close, Unregister, Transmit, ClassifySubscribe,
                AttachSubscribe, Unsubscribe, PickResync, AttachResync, AddRoutes, RemoveRoutes, hubVars
  <2>3. job'[c] = job[c] /\ up'[c] = up[c] /\ phase'[c] = phase[c]
    BY <1>1, <1>2 DEF Own, Restore, Register, Serve, Close, Unregister, Transmit, ClassifySubscribe,
                AttachSubscribe, Unsubscribe, PickResync, AttachResync
  <2>4. link'[c] = link[c]
    <3>1. CASE link' = link
      BY <3>1
    <3>2. CASE Restore(x) \/ Serve(x) \/ Close(x) \/ ClassifySubscribe(x) \/ PickResync(x) \/ (Register(x) /\ Closed)
      BY <3>2 DEF Restore, Serve, Close, ClassifySubscribe, PickResync, Register
    <3>3. CASE Register(x) /\ ~Closed
      BY <1>2, <3>3, RegisterSends
    <3>4. CASE Unregister(x) \/ Transmit(x) \/ Unsubscribe(x) \/ AttachSubscribe(x) \/ AttachResync(x)
      BY <1>2, <3>4, UnregisterDrops, TransmitMoves, UnsubscribeSends, AttachSubscribeSends, AttachResyncSends
    <3> QED BY <1>2, <3>2, <3>3, <3>4 DEF Own
  <2> QED BY <2>1, <2>2, <2>3, <2>4 DEF Apart
<1> QED BY <1>2 DEF HubNext, Handling, Own

\* What a connection's own steps do to it.
LEMMA OwnPhases ==
    ASSUME HubInv, NEW c \in Conns
    PROVE  /\ Restore(c) => /\ phase[c] = "upgraded" /\ phase'[c] \in {"restored", "refused"}
                            /\ held' = held /\ up' = up /\ link' = link /\ UNCHANGED slateVars
                            /\ job'[c] = job[c] \/ job'[c].op = "register"
           /\ Register(c) => /\ phase[c] = "restored" /\ job'[c] = NoJob /\ up' = up /\ UNCHANGED slateVars
                             /\ Closed => phase'[c] = "refused" /\ held' = held /\ link' = link
                             /\ ~Closed => /\ phase'[c] = "registered"
                                           /\ held'[c] = held[c] \cup Sq!ToSet(job[c].channels)
           /\ Serve(c) => /\ phase[c] = "registered" /\ phase'[c] = "serving"
                          /\ UNCHANGED <<held, denied, up, link, job, slateVars>>
           /\ Close(c) => /\ Open(c) /\ phase'[c] = "closing"
                          /\ UNCHANGED <<held, denied, up, link, job, slateVars>>
           /\ Unregister(c) => /\ phase[c] = "closing" /\ phase'[c] = "gone" /\ job' = job /\ job[c] = NoJob
                               /\ up'[c] = <<>> /\ UNCHANGED slateVars
           /\ Transmit(c) => UNCHANGED <<held, denied, up, phase, job, slateVars>>
<1>1. /\ link \in [Conns -> Links] /\ phase \in [Conns -> Phases] /\ up \in [Conns -> Seq(Asked)]
      /\ job \in [Conns -> [op : JobOps, channels : Seq(Channels)]]
      /\ held \in [Conns -> SUBSET Channels] /\ denied \in [Conns -> SUBSET Channels]
  BY DEF HubInv, TypesInv, ConnTypes, Counted
<1>2. ASSUME Restore(c)
      PROVE  /\ phase[c] = "upgraded" /\ phase'[c] \in {"restored", "refused"}
             /\ held' = held /\ up' = up /\ link' = link /\ UNCHANGED slateVars
             /\ job'[c] = job[c] \/ job'[c].op = "register"
  BY <1>1, <1>2 DEF Restore, hubVars
<1>3. ASSUME Register(c)
      PROVE  /\ phase[c] = "restored" /\ job'[c] = NoJob /\ up' = up /\ UNCHANGED slateVars
             /\ Closed => phase'[c] = "refused" /\ held' = held /\ link' = link
             /\ ~Closed => /\ phase'[c] = "registered"
                           /\ held'[c] = held[c] \cup Sq!ToSet(job[c].channels)
  BY <1>1, <1>3 DEF Register, AddRoutes, hubVars
<1>4. ASSUME Serve(c) \/ Close(c)
      PROVE  UNCHANGED <<held, denied, up, link, job, slateVars>>
  BY <1>4 DEF Serve, Close, hubVars
<1>5. /\ Serve(c) => phase[c] = "registered" /\ phase'[c] = "serving"
      /\ Close(c) => Open(c) /\ phase'[c] = "closing"
  BY <1>1 DEF Serve, Close
<1>6. ASSUME Unregister(c)
      PROVE  /\ phase[c] = "closing" /\ phase'[c] = "gone" /\ job' = job /\ job[c] = NoJob
             /\ up'[c] = <<>> /\ UNCHANGED slateVars
  BY <1>1, <1>6 DEF Unregister, Ready
<1>7. ASSUME Transmit(c) PROVE UNCHANGED <<held, denied, up, phase, job, slateVars>>
  BY <1>7 DEF Transmit, hubVars
<1> QED BY <1>2, <1>3, <1>4, <1>5, <1>6, <1>7

\* What a connection's own steps do with its requests.
LEMMA OwnRequests ==
    ASSUME HubInv, NEW c \in Conns
    PROVE  /\ ClassifySubscribe(c) =>
                /\ phase[c] = "serving" /\ job[c] = NoJob /\ up[c] # <<>> /\ Head(up[c]).op = "subscribe"
                /\ job'[c] = [op |-> "subscribe", channels |-> Accepted(c, Head(up[c]).channels)]
                /\ up'[c] = Tail(up[c]) /\ UNCHANGED <<held, link, phase, slateVars>>
           /\ AttachSubscribe(c) =>
                /\ job[c].op = "subscribe" /\ job'[c] = NoJob /\ UNCHANGED <<up, phase, slateVars>>
                /\ held'[c] = held[c] \cup Sq!ToSet(job[c].channels)
           /\ Unsubscribe(c) =>
                /\ phase[c] = "serving" /\ job[c] = NoJob /\ up[c] # <<>> /\ Head(up[c]).op = "unsubscribe"
                /\ up'[c] = Tail(up[c]) /\ UNCHANGED <<phase, job, slateVars>>
                /\ held'[c] = held[c] \ Sq!ToSet(Dropped(c))
           /\ PickResync(c) =>
                /\ phase[c] = "serving" /\ job[c] = NoJob /\ up[c] # <<>> /\ Head(up[c]).op = "resync"
                /\ up'[c] = Tail(up[c]) /\ UNCHANGED <<held, link, phase, slateVars>>
                /\ Head(up[c]).channels = <<>> =>
                     /\ held[c] = {} => job'[c] = NoJob
                     /\ held[c] # {} => /\ job'[c].op = "resync" /\ job'[c].channels # <<>>
                                        /\ Sq!ToSet(job'[c].channels) = held[c]
           /\ AttachResync(c) =>
                job[c].op = "resync" /\ job'[c] = NoJob /\ UNCHANGED <<held, up, phase, slateVars>>
<1>1. /\ link \in [Conns -> Links] /\ phase \in [Conns -> Phases] /\ up \in [Conns -> Seq(Asked)]
      /\ job \in [Conns -> [op : JobOps, channels : Seq(Channels)]]
      /\ held \in [Conns -> SUBSET Channels] /\ denied \in [Conns -> SUBSET Channels]
      /\ IsFiniteSet(held[c])
  BY DEF HubInv, TypesInv, ConnTypes, Counted
<1>2. ASSUME ClassifySubscribe(c)
      PROVE  /\ phase[c] = "serving" /\ job[c] = NoJob /\ up[c] # <<>> /\ Head(up[c]).op = "subscribe"
             /\ job'[c] = [op |-> "subscribe", channels |-> Accepted(c, Head(up[c]).channels)]
             /\ up'[c] = Tail(up[c]) /\ UNCHANGED <<held, link, phase, slateVars>>
  <2> DEFINE j == [op |-> "subscribe", channels |-> Accepted(c, Head(up[c]).channels)]
  <2>1. job' = [job EXCEPT ![c] = j]
    BY <1>2 DEF ClassifySubscribe
  <2> HIDE DEF j
  <2>2. job'[c] = j
    BY <1>1, <2>1
  <2> QED BY <1>1, <1>2, <2>2 DEF ClassifySubscribe, Requested, Ready, j
<1>3. ASSUME AttachSubscribe(c)
      PROVE  /\ job[c].op = "subscribe" /\ job'[c] = NoJob /\ UNCHANGED <<up, phase, slateVars>>
             /\ held'[c] = held[c] \cup Sq!ToSet(job[c].channels)
  BY <1>1, <1>3 DEF AttachSubscribe, AddRoutes
<1>4. ASSUME Unsubscribe(c)
      PROVE  /\ phase[c] = "serving" /\ job[c] = NoJob /\ up[c] # <<>> /\ Head(up[c]).op = "unsubscribe"
             /\ up'[c] = Tail(up[c]) /\ UNCHANGED <<phase, job, slateVars>>
             /\ held'[c] = held[c] \ Sq!ToSet(Dropped(c))
  <2>1. held'[c] = held[c] \ Sq!ToSet(Dropped(c))
    BY <1>1, <1>4 DEF Unsubscribe, RemoveRoutes, Dropped
  <2> QED BY <1>1, <1>4, <2>1 DEF Unsubscribe, Requested, Ready
<1>5. ASSUME PickResync(c)
      PROVE  /\ phase[c] = "serving" /\ job[c] = NoJob /\ up[c] # <<>> /\ Head(up[c]).op = "resync"
             /\ up'[c] = Tail(up[c]) /\ UNCHANGED <<held, link, phase, slateVars>>
             /\ Head(up[c]).channels = <<>> =>
                  /\ held[c] = {} => job'[c] = NoJob
                  /\ held[c] # {} => /\ job'[c].op = "resync" /\ job'[c].channels # <<>>
                                     /\ Sq!ToSet(job'[c].channels) = held[c]
  <2>1. /\ phase[c] = "serving" /\ job[c] = NoJob /\ up[c] # <<>> /\ Head(up[c]).op = "resync"
        /\ up'[c] = Tail(up[c]) /\ UNCHANGED <<held, link, phase, slateVars>>
    BY <1>1, <1>5 DEF PickResync, Requested, Ready, hubVars
  <2>2. ASSUME Head(up[c]).channels = <<>>
        PROVE  /\ held[c] = {} => job'[c] = NoJob
               /\ held[c] # {} => /\ job'[c].op = "resync" /\ job'[c].channels # <<>>
                                  /\ Sq!ToSet(job'[c].channels) = held[c]
    <3> DEFINE s == Sq!SetToSeq(held[c])
               j == IF s = <<>> THEN NoJob ELSE [op |-> "resync", channels |-> s]
    <3>1. job' = [job EXCEPT ![c] = j]
      BY <1>5, <2>2 DEF PickResync
    <3>2. Sq!ToSet(s) = held[c]
      BY <1>1, ListedFacts
    <3> HIDE DEF s
    <3>3. s = <<>> <=> held[c] = {}
      <4>1. Sq!ToSet(<<>>) = {}
        BY DEF Sq!ToSet
      <4>2. s \in Seq(held[c])
        BY <1>1, ListedFacts DEF s
      <4>3. s # <<>> => Head(s) \in held[c]
        BY <4>2
      <4> QED BY <3>2, <4>1, <4>3
    <3>4. job'[c] = j
      <4> HIDE DEF j
      <4> QED BY <1>1, <3>1
    <3> QED BY <3>2, <3>3, <3>4
  <2> QED BY <2>1, <2>2
<1>6. ASSUME AttachResync(c)
      PROVE  job[c].op = "resync" /\ job'[c] = NoJob /\ UNCHANGED <<held, up, phase, slateVars>>
  BY <1>1, <1>6 DEF AttachResync, hubVars
<1> QED BY <1>2, <1>3, <1>4, <1>5, <1>6

\* A resync that is half done is of every channel its connection holds.
JobAll == \A c \in Conns : job[c].op = "resync" => Sq!ToSet(job[c].channels) = held[c]

LEMMA JobAllStep ==
    ASSUME HubInv, BoardTypes, OrderInv, JobAll, [BoardNext]_boardGatewayVars
    PROVE  JobAll'
<1>1. ASSUME HubNext, NEW c \in Conns PROVE job'[c].op = "resync" => Sq!ToSet(job'[c].channels) = held'[c]
  <2>1. NoJob.op # "resync"
    BY DEF NoJob
  <2>2. CASE Apart(c)
    BY <2>2 DEF Apart, JobAll
  <2>3. ASSUME NEW d, Publish(d) PROVE job' = job /\ held' = held
    BY <2>3 DEF Publish, hubVars
  <2>4. CASE Restore(c) \/ Register(c) \/ Serve(c) \/ Close(c) \/ Unregister(c) \/ Transmit(c)
    BY <2>1, <2>4, OwnPhases DEF JobAll
  <2>5. CASE ClassifySubscribe(c) \/ AttachSubscribe(c) \/ Unsubscribe(c) \/ AttachResync(c)
    <3>1. Unsubscribe(c) => job' = job /\ job[c] = NoJob
      BY OwnRequests
    <3>2. ASSUME ClassifySubscribe(c) PROVE job'[c].op = "subscribe"
      <4>1. job'[c] = [op |-> "subscribe", channels |-> Accepted(c, Head(up[c]).channels)]
        BY <3>2, OwnRequests
      <4> QED BY <4>1
    <3>3. AttachSubscribe(c) \/ AttachResync(c) => job'[c] = NoJob
      BY OwnRequests
    <3> QED BY <2>1, <2>5, <3>1, <3>2, <3>3
  <2>6. CASE PickResync(c)
    <3>1. up[c] # <<>> /\ Head(up[c]).op = "resync" /\ up[c] \in Seq(Asked)
      BY <2>6, OwnRequests DEF HubInv, TypesInv, ConnTypes
    <3>2. Head(up[c]) = up[c][1] /\ 1 \in DOMAIN up[c]
      BY <3>1
    <3>3. Head(up[c]).channels = <<>>
      BY <3>1, <3>2 DEF BoardTypes
    <3>4. held' = held
      BY <2>6, OwnRequests
    <3>5. held[c] = {} => job'[c] = NoJob
      BY <2>6, <3>3, OwnRequests
    <3>6. held[c] # {} => Sq!ToSet(job'[c].channels) = held[c]
      BY <2>6, <3>3, OwnRequests
    <3> QED BY <2>1, <3>4, <3>5, <3>6
  <2> QED BY <1>1, <2>2, <2>3, <2>4, <2>5, <2>6, HubActs DEF Own, JobAll
<1>2. CASE UNCHANGED <<held, job>>
  BY <1>2 DEF JobAll
<1>3. Message \/ Closes \/ (\E c \in Conns : Opens(c)) \/ (\E ch \in Restorable : Wants(ch))
        \/ UNCHANGED boardGatewayVars
        => UNCHANGED <<held, job>>
  BY DEF Message, Closes, Opens, Wants, boardGatewayVars, gatewayVars, hubVars, connVars
<1> QED BY <1>1, <1>2, <1>3 DEF BoardNext, JobAll

\* What the bodies are about.
LEMMA BodyFacts ==
    ASSUME NEW ch
    PROVE  /\ \A x : About(SnapshotOf(x), ch) => x = ch
           /\ \A x : ~Ends(SnapshotOf(x), ch)
           /\ \A chs : ~Ends(Hello(chs), ch) /\ ~About(Hello(chs), ch)
           /\ \A op, chs : ~About(AckOf(op, chs), ch)
           /\ \A chs : Ends(AckOf("unsubscribe", chs), ch) => ch \in Sq!ToSet(chs)
           /\ \A chs : ~Ends(AckOf("subscribe", chs), ch)
           /\ \A chs : Starts(AckOf("subscribe", chs), ch) <=> ch \in Sq!ToSet(chs)
BY DEF About, Ends, Starts, SnapshotOf, Hello, AckOf

\* A connection that is sent a list stays silent on the channels that ended.
LEMMA SentSilence ==
    ASSUME HubInv, OrderInv, SilenceInv, NEW c \in Conns, link'[c] \in Links,
           NEW bodies \in Seq(Bodies), Sent(c, bodies),
           NEW C, NEW J, J \subseteq IF Open(c) THEN held[c] \cup C ELSE {},
           C # {} => Len(bodies) >= 1 /\ \A ch \in C : Starts(bodies[1], ch),
           \A i \in 1 .. Len(bodies), ch \in Channels : About(bodies[i], ch) => ch \in held[c] \cup C,
           \A i \in 1 .. Len(bodies), ch \in Channels : Ends(bodies[i], ch) =>
                ch \notin J /\ \A j \in 1 .. Len(bodies) : ~About(bodies[j], ch)
    PROVE  Silence(link'[c], J)
<1>1. link[c] \in Links /\ Ordered(link[c]) /\ Silence(link[c], IF Open(c) THEN held[c] ELSE {})
  BY DEF HubInv, TypesInv, ConnTypes, OrderInv, SilenceInv, Holds
<1>2. CASE Open(c)
  <2>1. Grown(link[c], link'[c], bodies, Len(bodies)) /\ Silence(link[c], held[c])
    BY <1>1, <1>2 DEF Sent
  <2>2. J \subseteq held[c] \cup C
    BY <1>2
  <2> QED BY <1>1, <2>1, <2>2, SilenceGrown
<1>3. CASE ~Open(c)
  <2>1. link'[c] = link[c] /\ J \subseteq {} /\ Silence(link[c], {})
    BY <1>1, <1>3 DEF Sent
  <2> QED BY <2>1, SilenceKept
<1> QED BY <1>2, <1>3

\* The hub ends a channel on a link with nothing of it behind.
LEMMA SilenceHub ==
    ASSUME HubInv, HubInv', OrderInv, EarlyInv, SilenceInv, JobAll, HubNext, NEW c \in Conns
    PROVE  Silence(link'[c], IF Open(c)' THEN held'[c] ELSE {})
<1> DEFINE J == IF Open(c)' THEN held'[c] ELSE {}
<1> SUFFICES Silence(link'[c], J)
  OBVIOUS
<1>1. /\ link'[c] \in Links /\ SlateTypeOK /\ job[c].channels \in Seq(Channels) /\ held[c] \in SUBSET Channels
      /\ Silence(link[c], Holds(c)) /\ SlateInv
  BY DEF HubInv, TypesInv, ConnTypes, SlateInv, SilenceInv, Counted
<1>2. Open(c)' <=> phase'[c] \in {"registered", "serving"}
  BY DEF Open
<1>3. ASSUME J \subseteq Holds(c), link'[c].seq = link[c].seq, Carried(link'[c]) \subseteq Carried(link[c])
      PROVE  Silence(link'[c], J)
  BY <1>1, <1>3, SilenceKept
<1>4. CASE Apart(c)
  <2>1. J = Holds(c) /\ link'[c] = link[c]
    BY <1>2, <1>4 DEF Apart, Holds, Open
  <2> QED BY <1>3, <2>1
<1>5. CASE Restore(c) \/ (Register(c) /\ Closed) \/ ClassifySubscribe(c) \/ PickResync(c) \/ Serve(c) \/ Close(c)
  <2>1. link' = link /\ held' = held
    BY <1>5 DEF Restore, Register, ClassifySubscribe, PickResync, Serve, Close, hubVars
  <2>2. Open(c)' => Open(c)
    BY <1>2, <1>5, OwnPhases, OwnRequests DEF Open
  <2> QED BY <1>3, <2>1, <2>2 DEF Holds
<1>6. CASE Unregister(c)
  <2>1. J = {}
    BY <1>2, <1>6, OwnPhases
  <2> QED BY <1>3, <1>6, <2>1, UnregisterDrops
<1>7. CASE Transmit(c)
  <2>1. J = Holds(c)
    BY <1>2, <1>7, OwnPhases DEF Holds, Open
  <2> QED BY <1>3, <1>7, <2>1, TransmitMoves
<1>8. ASSUME NEW d \in Deliveries, Publish(d) PROVE Silence(link'[c], J)
  <2>1. held' = held /\ phase' = phase /\ J = Holds(c)
    BY <1>2, <1>8 DEF Publish, Holds, Open, hubVars
  <2>2. Fold(d) /\ (Changed(result') => Sent(c, Fanout(c, result'))) /\ (~Changed(result') => link'[c] = link[c])
    BY <1>8, PublishSends
  <2>3. CASE ~Changed(result')
    BY <1>3, <2>1, <2>2, <2>3
  <2>4. CASE Changed(result')
    <3> DEFINE t == Fanout(c, result')
    <3>1. t \in Seq(Bodies) /\ \A i \in 1 .. Len(t) : \E ch \in result'.channels \cap held[c] : t[i] = BodyFor(result', ch)
      BY <2>2, <2>4, FanoutFacts
    <3>2. \A ch, x : ~Ends(BodyFor(result', x), ch) /\ (About(BodyFor(result', x), ch) => x = ch)
      BY DEF BodyFor, Delta, Removal, Ends, About
    <3>3. Sent(c, t)
      BY <2>2, <2>4
    <3> HIDE DEF t
    <3>4. \A i \in 1 .. Len(t), ch \in Channels : ~Ends(t[i], ch) /\ (About(t[i], ch) => ch \in held[c] \cup {})
      BY <3>1, <3>2
    <3>5. J \subseteq IF Open(c) THEN held[c] \cup {} ELSE {}
      BY <2>1 DEF Holds
    <3> HIDE DEF J
    <3> QED BY <1>1, <3>1, <3>3, <3>4, <3>5, SentSilence
  <2> QED BY <2>3, <2>4
<1>9. CASE Register(c) /\ ~Closed
  <2>1. link[c].queue = <<>> /\ link[c].wire = <<>> /\ link[c] \in Links /\ Ordered(link[c])
    BY <1>9, OwnPhases DEF EarlyInv, Early, HubInv, TypesInv, ConnTypes, OrderInv
  <2>2. Carried(link[c]) = {}
    BY <2>1 DEF Carried, Sq!ToSet
  <2> DEFINE chs == job[c].channels
             t == <<Hello(chs)>> \o Snaps(chs)
  <2>3. Grown(link[c], link'[c], t, Len(t))
    BY <1>9, RegisterSends
  <2>4. \A i \in 1 .. Len(t), ch \in Channels : ~Ends(t[i], ch)
    <3>1. Hello(chs) \in Bodies
      BY <1>1 DEF Hello, Bodies
    <3>2. /\ Len(t) = Len(chs) + 1 /\ t[1] = Hello(chs)
          /\ \A i \in 1 .. Len(chs) : Snaps(chs)[i] = SnapshotOf(chs[i])
          /\ \A i \in 2 .. Len(chs) + 1 : t[i] = Snaps(chs)[i - 1] /\ i - 1 \in 1 .. Len(chs)
      BY <1>1, <3>1, SnapsFacts
    <3> HIDE DEF t
    <3>3. \A i \in 1 .. Len(t) : t[i] = Hello(chs) \/ \E x : t[i] = SnapshotOf(x)
      <4> SUFFICES ASSUME NEW i \in 1 .. Len(t) PROVE t[i] = Hello(chs) \/ \E x : t[i] = SnapshotOf(x)
        OBVIOUS
      <4>1. Len(chs) \in Nat
        BY <1>1
      <4>2. i = 1 \/ i \in 2 .. Len(chs) + 1
        BY <3>2, <4>1
      <4> QED BY <3>2, <4>2
    <3> QED BY <3>3, BodyFacts
  <2> HIDE DEF t
  <2>5. \A ch \in Channels : ~Ends(ResyncNotice, ch)
    BY DEF Ends, ResyncNotice
  <2>6. \A f \in Carried(link'[c]), ch \in Channels : ~Ends(f.body, ch)
    BY <2>2, <2>3, <2>4, <2>5 DEF Grown
  <2> QED BY <2>6 DEF Silence
<1>10. CASE AttachSubscribe(c)
  <2> DEFINE chs == job[c].channels
             b == AckOf("subscribe", chs)
             t == <<b>> \o Snaps(chs)
             C == Sq!ToSet(chs)
  <2>1. b \in Bodies
    BY <1>1 DEF AckOf, Bodies
  <2>2. /\ t \in Seq(Bodies) /\ Len(t) = Len(chs) + 1 /\ t[1] = b
        /\ \A i \in 1 .. Len(chs) : Snaps(chs)[i] = SnapshotOf(chs[i]) /\ chs[i] \in C
        /\ \A i \in 2 .. Len(chs) + 1 : t[i] = Snaps(chs)[i - 1] /\ i - 1 \in 1 .. Len(chs)
    BY <1>1, <2>1, SnapsFacts
  <2>3. Sent(c, t)
    BY <1>10, AttachSubscribeSends
  <2>4. J \subseteq IF Open(c) THEN held[c] \cup C ELSE {}
    BY <1>2, <1>10, OwnRequests DEF Open
  <2>5. Len(chs) \in Nat
    BY <1>1
  <2>6. \A ch \in C : Starts(b, ch)
    BY BodyFacts
  <2>7. \A ch : ~Ends(b, ch) /\ ~About(b, ch)
    BY BodyFacts
  <2> HIDE DEF t, b, C
  <2>8. \A i \in 1 .. Len(t) : t[i] = b \/ \E x \in C : t[i] = SnapshotOf(x)
    <3> SUFFICES ASSUME NEW i \in 1 .. Len(t) PROVE t[i] = b \/ \E x \in C : t[i] = SnapshotOf(x)
      OBVIOUS
    <3>1. i = 1 \/ i \in 2 .. Len(chs) + 1
      BY <2>2, <2>5
    <3> QED BY <2>2, <3>1
  <2>9. \A i \in 1 .. Len(t), ch \in Channels : ~Ends(t[i], ch) /\ (About(t[i], ch) => ch \in held[c] \cup C)
    <3>1. \A x, ch : ~Ends(SnapshotOf(x), ch) /\ (About(SnapshotOf(x), ch) => x = ch)
      BY BodyFacts
    <3> QED BY <2>7, <2>8, <3>1
  <2>10. Len(t) >= 1 /\ \A ch \in C : Starts(t[1], ch)
    BY <2>2, <2>5, <2>6
  <2> HIDE DEF J
  <2> QED BY <1>1, <2>2, <2>3, <2>4, <2>9, <2>10, SentSilence
<1>11. CASE AttachResync(c)
  <2> DEFINE chs == job[c].channels
             t == Snaps(chs)
  <2>1. [kind |-> "resync"] \in Bodies
    BY DEF Bodies
  <2>2. /\ t \in Seq(Bodies) /\ Len(t) = Len(chs)
        /\ \A i \in 1 .. Len(chs) : t[i] = SnapshotOf(chs[i]) /\ chs[i] \in Sq!ToSet(chs)
    BY <1>1, <2>1, SnapsFacts
  <2>3. Sent(c, t)
    BY <1>11, AttachResyncSends
  <2>4. J = IF Open(c) THEN held[c] ELSE {}
    BY <1>2, <1>11, OwnRequests DEF Open
  <2>5. Sq!ToSet(chs) = held[c]
    BY <1>11, OwnRequests DEF JobAll
  <2> HIDE DEF t
  <2>6. \A i \in 1 .. Len(t), ch \in Channels : ~Ends(t[i], ch) /\ (About(t[i], ch) => ch \in held[c] \cup {})
    <3>1. \A x, ch : ~Ends(SnapshotOf(x), ch) /\ (About(SnapshotOf(x), ch) => x = ch)
      BY BodyFacts
    <3> QED BY <2>2, <2>5, <3>1
  <2>7. J \subseteq IF Open(c) THEN held[c] \cup {} ELSE {}
    BY <2>4
  <2> HIDE DEF J
  <2> QED BY <1>1, <2>2, <2>3, <2>6, <2>7, SentSilence
<1>12. CASE Unsubscribe(c)
  <2> DEFINE b == AckOf("unsubscribe", Dropped(c))
             t == <<b>>
  <2>1. Sent(c, t) /\ Dropped(c) \in Seq(Channels)
    BY <1>12, UnsubscribeSends
  <2>2. J = IF Open(c) THEN held[c] \ Sq!ToSet(Dropped(c)) ELSE {}
    BY <1>2, <1>12, OwnRequests DEF Open
  <2>3. b \in Bodies
    BY <2>1 DEF AckOf, Bodies
  <2>4. \A ch : ~About(b, ch) /\ (Ends(b, ch) => ch \in Sq!ToSet(Dropped(c)))
    BY BodyFacts
  <2> HIDE DEF b
  <2>5. t \in Seq(Bodies) /\ \A i \in 1 .. Len(t) : t[i] = b
    BY <2>3
  <2> HIDE DEF t
  <2>6. J \subseteq IF Open(c) THEN held[c] \cup {} ELSE {}
    BY <2>2
  <2>7. /\ \A i \in 1 .. Len(t), ch \in Channels : About(t[i], ch) => ch \in held[c] \cup {}
        /\ \A i \in 1 .. Len(t), ch \in Channels : Ends(t[i], ch) =>
              ch \notin J /\ \A j \in 1 .. Len(t) : ~About(t[j], ch)
    BY <2>2, <2>4, <2>5
  <2> HIDE DEF J
  <2> QED BY <1>1, <2>1, <2>5, <2>6, <2>7, SentSilence
<1> QED BY <1>4, <1>5, <1>6, <1>7, <1>8, <1>9, <1>10, <1>11, <1>12, HubActs DEF Own

\* The silence is kept: an end and its routes go in one section.
LEMMA BoardSilenceStep ==
    ASSUME BoardStart, OrderInv, JobAll, SilenceInv, [BoardNext]_boardGatewayVars
    PROVE  SilenceInv'
<1>1. HubInv /\ HubInv' /\ BoardTypes /\ EarlyInv
  BY BoardHub DEF BoardStart
<1>2. \A c \in Conns : link[c] \in Links /\ Ordered(link[c]) /\ Silence(link[c], Holds(c))
  BY <1>1 DEF HubInv, TypesInv, ConnTypes, OrderInv, SilenceInv
<1>3. SUFFICES ASSUME NEW c \in Conns PROVE Silence(link'[c], IF Open(c)' THEN held'[c] ELSE {})
  BY DEF SilenceInv, Holds
<1>4. CASE HubNext
  BY <1>1, <1>4, SilenceHub
<1>5. ASSUME held' = held, Open(c)' => Open(c), link'[c].seq = link[c].seq, Carried(link'[c]) \subseteq Carried(link[c])
      PROVE  Silence(link'[c], IF Open(c)' THEN held'[c] ELSE {})
  <2> DEFINE J == IF Open(c)' THEN held'[c] ELSE {}
  <2>1. J \subseteq Holds(c)
    BY <1>5 DEF Holds
  <2> HIDE DEF J
  <2>2. Silence(link'[c], J)
    BY <1>2, <1>5, <2>1, SilenceKept
  <2> QED BY <2>2 DEF J
<1>6. CASE Message
  <2> DEFINE l == link[socket]
             k == [seq |-> l.seq, queue |-> l.queue, wire |-> Tail(l.wire)]
  <2>1. /\ socket \in Conns /\ l.wire # <<>> /\ link' = [link EXCEPT ![socket] = k] /\ link' \in [Conns -> Links]
        /\ held' = held /\ phase' = phase
    BY <1>1, <1>6, MessageFacts DEF hubVars
  <2>2. link'[socket] = k /\ k \in Links /\ \A x \in Conns \ {socket} : link'[x] = link[x]
    <3> HIDE DEF k
    <3>1. link \in [Conns -> Links]
      BY <1>1 DEF HubInv, TypesInv, ConnTypes
    <3> QED BY <2>1, <3>1
  <2>3. k.seq = l.seq /\ Carried(k) \subseteq Carried(l)
    <3>1. k.seq = l.seq /\ k.wire = Tail(l.wire) /\ k.queue = l.queue /\ l \in Links /\ Ordered(l)
      BY <1>2, <2>1
    <3> HIDE DEF k, l
    <3>2. Carried(l) = Carried(k) \cup {Head(l.wire)}
      BY <2>1, <2>2, <3>1, FirstTaken DEF l
    <3> QED BY <3>1, <3>2
  <2> HIDE DEF k
  <2>4. link'[c].seq = link[c].seq /\ Carried(link'[c]) \subseteq Carried(link[c])
    BY <2>2, <2>3
  <2> QED BY <1>5, <2>1, <2>4 DEF Open
<1>7. CASE Closes
  <2> DEFINE l == link[socket]
             k == [seq |-> l.seq, queue |-> l.queue, wire |-> <<>>]
  <2>1. /\ socket \in Conns /\ link' = [link EXCEPT ![socket] = k] /\ link' \in [Conns -> Links]
        /\ held' = held /\ phase' = phase
    BY <1>1, <1>7, ClosesFacts DEF hubVars
  <2>2. link'[socket] = k /\ k \in Links /\ \A x \in Conns \ {socket} : link'[x] = link[x]
    <3> HIDE DEF k
    <3>1. link \in [Conns -> Links]
      BY <1>1 DEF HubInv, TypesInv, ConnTypes
    <3> QED BY <2>1, <3>1
  <2>3. k.seq = l.seq /\ Carried(k) \subseteq Carried(l)
    <3>1. k.seq = l.seq /\ k.wire = <<>> /\ k.queue = l.queue /\ l \in Links /\ Ordered(l)
      BY <1>2, <2>1
    <3> HIDE DEF k, l
    <3> QED BY <2>2, <3>1, LessCarried
  <2> HIDE DEF k
  <2>4. link'[c].seq = link[c].seq /\ Carried(link'[c]) \subseteq Carried(link[c])
    BY <2>2, <2>3
  <2> QED BY <1>5, <2>1, <2>4 DEF Open
<1>8. ASSUME NEW x \in Conns, Opens(x) PROVE Silence(link'[c], IF Open(c)' THEN held'[c] ELSE {})
  <2>1. /\ phase[x] = "idle" /\ phase' = [phase EXCEPT ![x] = "upgraded"] /\ link' = link /\ held' = held
        /\ phase \in [Conns -> Phases]
    BY <1>1, <1>8, OpensFacts DEF hubVars, HubInv, TypesInv, ConnTypes
  <2> QED BY <1>5, <2>1 DEF Open
<1>9. CASE UNCHANGED <<link, held, phase>>
  BY <1>5, <1>9 DEF Open
<1>10. (\E ch \in Restorable : Wants(ch)) \/ UNCHANGED boardGatewayVars => UNCHANGED <<link, held, phase>>
  BY DEF Wants, boardGatewayVars, gatewayVars, hubVars, connVars
<1> QED BY <1>4, <1>6, <1>7, <1>8, <1>9, <1>10 DEF BoardNext

\* Numbers that follow on one another are those between.
LEMMA Consecutive ==
    ASSUME NEW s \in Seq(Frames), NEW i \in DOMAIN s, NEW j \in DOMAIN s, i < j,
           \A k \in i + 1 .. j : s[k].seq = s[k - 1].seq + 1
    PROVE  \A k \in i .. j : s[k].seq = s[i].seq + (k - i)
<1> DEFINE Bad == {k \in i .. j : s[k].seq # s[i].seq + (k - i)}
<1>1. /\ i \in Nat /\ j \in Nat /\ i >= 1 /\ i .. j \subseteq DOMAIN s
      /\ \A k \in DOMAIN s : s[k].seq \in Nat
  <2>1. DOMAIN s = 1 .. Len(s) /\ Len(s) \in Nat /\ \A k \in DOMAIN s : s[k] \in Frames
    OBVIOUS
  <2>2. \A k \in DOMAIN s : s[k].seq \in Nat
    BY <2>1 DEF Frames, FramesOf
  <2> QED BY <2>1, <2>2
<1>2. ASSUME Bad # {} PROVE FALSE
  <2>1. PICK k \in Bad : \A m \in Bad : k <= m
    <3>1. Bad \subseteq Nat
      BY <1>1
    <3> HIDE DEF Bad
    <3> QED BY <1>2, <3>1, LeastOf
  <2>2. k \in i .. j /\ s[k].seq # s[i].seq + (k - i)
    BY <2>1
  <2>3. k # i
    BY <1>1, <2>2
  <2>4. k \in i + 1 .. j /\ k - 1 \in i .. j /\ k - 1 \notin Bad
    BY <1>1, <2>1, <2>2, <2>3
  <2>5. s[k - 1].seq = s[i].seq + ((k - 1) - i)
    BY <2>4
  <2>6. s[k].seq = s[k - 1].seq + 1
    BY <2>4
  <2>7. s[i].seq \in Nat /\ k \in Nat
    BY <1>1, <2>2
  <2> HIDE DEF Bad
  <2> QED BY <1>1, <2>2, <2>5, <2>6, <2>7
<1> QED BY <1>2

\* Between two consecutive numbers there is no room for a new subscription.
LEMMA SilenceHeard ==
    ASSUME HubInv, OrderInv, SilenceInv
    PROVE  UnsubscribedSilence
<1> SUFFICES ASSUME NEW c \in Conns, NEW i \in DOMAIN Outgoing(c), NEW j \in DOMAIN Outgoing(c), i < j,
                    Outgoing(c)[i].body.kind = "ack", Outgoing(c)[i].body.op = "unsubscribe",
                    Outgoing(c)[j].body.kind \in {"snapshot", "delta", "removal"},
                    Outgoing(c)[j].body.ch \in Sq!ToSet(Outgoing(c)[i].body.channels)
             PROVE  \E k \in i + 1..j :
                       \/ Outgoing(c)[k].seq # Outgoing(c)[k - 1].seq + 1
                       \/ /\ Outgoing(c)[k].body.kind = "ack" /\ Outgoing(c)[k].body.op = "subscribe"
                          /\ Outgoing(c)[j].body.ch \in Sq!ToSet(Outgoing(c)[k].body.channels)
  BY DEF UnsubscribedSilence
<1> DEFINE l == link[c]
           out == l.wire \o l.queue
           ch == out[j].body.ch
<1>1. l \in Links /\ Ordered(l) /\ Silence(l, Holds(c)) /\ Outgoing(c) = out
  BY DEF HubInv, TypesInv, ConnTypes, OrderInv, SilenceInv, Outgoing
<1>2. l.wire \in Seq(Frames) /\ l.queue \in Seq(Frames)
  BY <1>1 DEF Links, LinksOf, Frames
<1> HIDE DEF l
<1>3. out \in Seq(Frames) /\ Sq!ToSet(out) = Carried(l) /\ Ascending(out)
  BY <1>1, <1>2, SetJoined, AscendingJoined DEF Ordered, Carried
<1> HIDE DEF out
<1>4. \A k \in DOMAIN out : out[k] \in Frames /\ out[k].seq \in Nat /\ out[k] \in Carried(l) /\ k \in Nat
  <2>1. \A k \in DOMAIN out : out[k] \in Frames /\ k \in Nat
    BY <1>3
  <2> QED BY <1>3, <2>1 DEF Frames, FramesOf, Sq!ToSet
<1>5. i \in DOMAIN out /\ j \in DOMAIN out /\ i \in Nat /\ j \in Nat /\ out[i].seq < out[j].seq
  BY <1>1, <1>3, <1>4 DEF Ascending
<1>6. Ends(out[i].body, ch) /\ About(out[j].body, ch)
  BY <1>1 DEF Ends, About
<1>7. ch \in Channels
  <2>1. out[j].body \in Bodies
    BY <1>4, <1>5 DEF Frames, FramesOf
  <2> QED BY <1>1, <2>1 DEF Bodies
<1>8. PICK n \in out[i].seq + 1 .. out[j].seq : \A f \in Carried(l) : f.seq = n => Starts(f.body, ch)
  BY <1>1, <1>4, <1>5, <1>6, <1>7 DEF Silence, Reopened
<1>9. ASSUME \A k \in i + 1 .. j : out[k].seq = out[k - 1].seq + 1
      PROVE  \E k \in i + 1 .. j : Starts(out[k].body, ch)
  <2>1. \A k \in i .. j : out[k].seq = out[i].seq + (k - i)
    BY <1>3, <1>5, <1>9, Consecutive
  <2>2. PICK k \in Nat : k = i + (n - out[i].seq) /\ k \in i + 1 .. j
    <3>1. out[j].seq = out[i].seq + (j - i) /\ out[i].seq \in Nat /\ out[j].seq \in Nat
      BY <1>4, <1>5, <2>1
    <3> QED BY <1>5, <1>8, <3>1
  <2>3. out[k].seq = n
    <3>1. k \in i .. j /\ out[i].seq \in Nat
      BY <1>4, <1>5, <2>2
    <3>2. out[k].seq = out[i].seq + (k - i)
      BY <2>1, <3>1
    <3> QED BY <1>5, <1>8, <2>2, <3>1, <3>2
  <2>4. k \in DOMAIN out
    BY <1>3, <1>5, <2>2
  <2> QED BY <1>4, <1>8, <2>2, <2>3, <2>4
<1> QED BY <1>1, <1>9 DEF Starts

-----------------------------------------------------------------------------
(* What the pages hold *)

\* The documents of the store, and a channel lists only markets that have one.
StoreTypes ==
    /\ markets \in [Markets -> Entries \cup {Absent}]
    /\ members \in UNION {[chs -> SUBSET Markets] : chs \in SUBSET Channels}
    /\ \A ch \in DOMAIN members, m \in Markets : m \in members[ch] => markets[m] # Absent

\* A function on some channels.
LEMMA MembersType ==
    ASSUME NEW f, NEW D, D \subseteq Channels, f = [ch \in D |-> f[ch]], \A ch \in D : f[ch] \in SUBSET Markets
    PROVE  f \in UNION {[chs -> SUBSET Markets] : chs \in SUBSET Channels}
<1>1. f \in [D -> SUBSET Markets]
  OBVIOUS
<1> QED BY <1>1

LEMMA MembersShape ==
    ASSUME StoreTypes
    PROVE  /\ DOMAIN members \subseteq Channels /\ \A ch \in DOMAIN members : members[ch] \in SUBSET Markets
           /\ \A ch : Members(ch) \in SUBSET Markets
<1>1. PICK D \in SUBSET Channels : members \in [D -> SUBSET Markets]
  BY DEF StoreTypes
<1> QED BY <1>1 DEF Members

\* The kinds of a frame the store applies.
LEMMA BodyKinds ==
    ASSUME NEW b \in Bodies
    PROVE  /\ b.kind = "snapshot" => /\ b.ch \in Channels /\ DOMAIN b.markets \subseteq Markets
                                     /\ \A m \in DOMAIN b.markets : b.markets[m] \in Entries
           /\ b.kind = "delta" => b.ch \in Channels /\ b.market \in Markets /\ b.entry \in Entries
           /\ b.kind = "removal" => b.ch \in Channels /\ b.market \in Markets
           /\ b.kind \in {"hello", "ack", "snapshot", "delta", "removal", "resync", "error"}
<1>1. ASSUME b \in [kind : {"snapshot"}, ch : Channels, markets : UNION {[ms -> Entries] : ms \in SUBSET Markets}]
      PROVE  /\ b.kind = "snapshot" /\ b.ch \in Channels /\ DOMAIN b.markets \subseteq Markets
             /\ \A m \in DOMAIN b.markets : b.markets[m] \in Entries
  <2>1. b.markets \in UNION {[ms -> Entries] : ms \in SUBSET Markets} /\ b.kind = "snapshot" /\ b.ch \in Channels
    BY <1>1
  <2>2. PICK ms \in SUBSET Markets : b.markets \in [ms -> Entries]
    BY <2>1
  <2> QED BY <2>1, <2>2
<1>2. ASSUME b \in [kind : {"delta"}, ch : Channels, market : Markets, entry : Entries]
      PROVE  b.kind = "delta" /\ b.ch \in Channels /\ b.market \in Markets /\ b.entry \in Entries
  BY <1>2
<1>3. ASSUME b \in [kind : {"removal"}, ch : Channels, market : Markets]
      PROVE  b.kind = "removal" /\ b.ch \in Channels /\ b.market \in Markets
  BY <1>3
<1>4. ASSUME b \notin [kind : {"snapshot"}, ch : Channels, markets : UNION {[ms -> Entries] : ms \in SUBSET Markets}],
             b \notin [kind : {"delta"}, ch : Channels, market : Markets, entry : Entries],
             b \notin [kind : {"removal"}, ch : Channels, market : Markets]
      PROVE  b.kind \in {"hello", "ack", "resync", "error"}
  BY <1>4 DEF Bodies
<1> QED BY <1>1, <1>2, <1>3, <1>4

\* A body keeps the documents and the members of the store in step.
LEMMA StoreApplies ==
    ASSUME StoreTypes, NEW b \in Bodies, Apply(b)
    PROVE  StoreTypes'
<1>1. /\ markets \in [Markets -> Entries \cup {Absent}]
      /\ \A ch \in DOMAIN members, m \in Markets : m \in members[ch] => markets[m] # Absent
      /\ DOMAIN members \subseteq Channels /\ \A ch \in DOMAIN members : members[ch] \in SUBSET Markets
      /\ \A ch : Members(ch) \in SUBSET Markets
  BY MembersShape DEF StoreTypes
<1>2. CASE b.kind = "snapshot"
  <2>1. /\ b.ch \in Channels /\ DOMAIN b.markets \subseteq Markets /\ \A m \in DOMAIN b.markets : b.markets[m] \in Entries
    BY <1>2, BodyKinds
  <2>2. /\ members' = [ch \in DOMAIN members \cup {b.ch} |-> IF ch = b.ch THEN DOMAIN b.markets ELSE members[ch]]
        /\ markets' = [m \in Markets |-> IF m \in DOMAIN b.markets THEN b.markets[m] ELSE markets[m]]
    BY <1>2 DEF Apply, ApplySnapshot
  <2>3. markets' \in [Markets -> Entries \cup {Absent}]
    BY <1>1, <2>1, <2>2
  <2>4. members' \in UNION {[chs -> SUBSET Markets] : chs \in SUBSET Channels}
    <3>1. \A ch \in DOMAIN members \cup {b.ch} : members'[ch] \in SUBSET Markets
      BY <1>1, <2>1, <2>2
    <3>2. members' = [ch \in DOMAIN members \cup {b.ch} |-> members'[ch]]
      BY <2>2
    <3> QED BY <1>1, <2>1, <3>1, <3>2, MembersType
  <2>5. \A ch \in DOMAIN members', m \in Markets : m \in members'[ch] => markets'[m] # Absent
    BY <1>1, <2>1, <2>2, EntryNotAbsent
  <2> QED BY <2>3, <2>4, <2>5 DEF StoreTypes
<1>3. CASE b.kind = "delta"
  <2>1. b.ch \in Channels /\ b.market \in Markets /\ b.entry \in Entries
    BY <1>3, BodyKinds
  <2>2. /\ members' = [ch \in DOMAIN members \cup {b.ch} |->
                         IF ch = b.ch THEN Members(ch) \cup {b.market} ELSE members[ch]]
        /\ markets' = [markets EXCEPT ![b.market] = b.entry]
    BY <1>3 DEF Apply, ApplyDelta
  <2>3. markets' \in [Markets -> Entries \cup {Absent}]
    BY <1>1, <2>1, <2>2
  <2>4. members' \in UNION {[chs -> SUBSET Markets] : chs \in SUBSET Channels}
    <3>1. \A ch \in DOMAIN members \cup {b.ch} : members'[ch] \in SUBSET Markets
      BY <1>1, <2>1, <2>2
    <3>2. members' = [ch \in DOMAIN members \cup {b.ch} |-> members'[ch]]
      BY <2>2
    <3> QED BY <1>1, <2>1, <3>1, <3>2, MembersType
  <2>5. \A ch \in DOMAIN members', m \in Markets : m \in members'[ch] => markets'[m] # Absent
    BY <1>1, <2>1, <2>2, EntryNotAbsent DEF Members
  <2> QED BY <2>3, <2>4, <2>5 DEF StoreTypes
<1>4. CASE b.kind = "removal"
  <2>1. b.market \in Markets
    BY <1>4, BodyKinds
  <2>2. /\ members' = IF markets[b.market] = Absent THEN members
                      ELSE [ch \in DOMAIN members |-> members[ch] \ {b.market}]
        /\ markets' = [markets EXCEPT ![b.market] = Absent]
    BY <1>4 DEF Apply, ApplyRemoval
  <2>3. markets' \in [Markets -> Entries \cup {Absent}]
    BY <1>1, <2>1, <2>2
  <2>4. members' \in UNION {[chs -> SUBSET Markets] : chs \in SUBSET Channels}
    <3>1. CASE members' = members
      BY <3>1 DEF StoreTypes
    <3>2. CASE members' = [ch \in DOMAIN members |-> members[ch] \ {b.market}]
      <4>1. \A ch \in DOMAIN members : members'[ch] \in SUBSET Markets
        BY <1>1, <3>2
      <4>2. members' = [ch \in DOMAIN members |-> members'[ch]]
        BY <3>2
      <4> QED BY <1>1, <4>1, <4>2, MembersType
    <3> QED BY <2>2, <3>1, <3>2
  <2>5. \A ch \in DOMAIN members', m \in Markets : m \in members'[ch] => markets'[m] # Absent
    BY <1>1, <2>1, <2>2
  <2> QED BY <2>3, <2>4, <2>5 DEF StoreTypes
<1>5. CASE b.kind \notin {"snapshot", "delta", "removal"}
  BY <1>5 DEF Apply, StoreTypes
<1> QED BY <1>2, <1>3, <1>4, <1>5

LEMMA StoreStep ==
    ASSUME HubInv, BoardTypes, StoreTypes, [BoardNext]_boardGatewayVars
    PROVE  StoreTypes'
<1>1. CASE UNCHANGED <<markets, members>>
  BY <1>1 DEF StoreTypes
<1>2. CASE Message
  <2>1. First \in Frames /\ Apply(First.body)
    BY <1>2, MessageFacts
  <2>2. First.body \in Bodies
    BY <2>1 DEF Frames, FramesOf
  <2> QED BY <2>1, <2>2, StoreApplies
<1>3. ASSUME NEW c \in Conns, Opens(c) PROVE StoreTypes'
  <2>1. markets' = NoMarkets /\ members' = NoMembers
    BY <1>3 DEF Opens
  <2>2. NoMembers \in UNION {[chs -> SUBSET Markets] : chs \in SUBSET Channels} /\ DOMAIN NoMembers = {}
    <3>1. NoMembers \in [{} -> SUBSET Markets] /\ {} \in SUBSET Channels
      BY DEF NoMembers
    <3> QED BY <3>1 DEF NoMembers
  <2> QED BY <2>1, <2>2 DEF StoreTypes, NoMarkets
<1>4. (HubNext /\ UNCHANGED boardVars) \/ Closes \/ (\E ch \in Restorable : Wants(ch)) \/ UNCHANGED boardGatewayVars
        => UNCHANGED <<markets, members>>
  BY DEF Closes, Wants, boardVars, boardGatewayVars
<1> QED BY <1>1, <1>2, <1>3, <1>4 DEF BoardNext

LEMMA BoardTyped ==
    ASSUME BoardTypes, StoreTypes
    PROVE  BoardTypeOK
BY RestorableAssumption DEF BoardTypes, StoreTypes, BoardTypeOK

-----------------------------------------------------------------------------
(* What a client knows it missed *)

\* Of what was sent to a client that expects e next, it has or will miss every
\* number; and a resync always follows a number that was lost.
Holes(l, e) ==
    /\ \A n \in e .. l.seq : Accounted(Carried(l), n)
    /\ \A f \in Carried(l) : f.seq >= e
    /\ \A r \in Carried(l) : IsResync(r) => r.seq > e /\ \A f \in Carried(l) : f.seq # r.seq - 1
    /\ e <= l.seq + 1

\* Queueing, an overflow included, keeps every number accounted for.
LEMMA HolesGrown ==
    ASSUME NEW l \in Links, Ordered(l), NEW e \in Nat, Holes(l, e), NEW k \in Links,
           NEW bodies \in Seq(Bodies), Grown(l, k, bodies, Len(bodies))
    PROVE  Holes(k, e)
<1>1. /\ l.seq \in Nat /\ k.seq \in Nat /\ k.seq >= l.seq
      /\ \A f \in Carried(l) : f.seq \in Nat /\ f.seq <= l.seq
      /\ \A f \in Carried(k) : f.seq \in Nat /\ f.seq <= k.seq
  <2>1. Len(bodies) \in Nat /\ Ordered(k) /\ k.seq >= l.seq + Len(bodies)
    BY DEF Grown
  <2> QED BY <2>1, NumbersOnce
<1>2. \A f \in Carried(k) : f \in Carried(l) \/ f.seq > l.seq
  BY DEF Grown
<1>3. ASSUME NEW n \in e .. k.seq PROVE Accounted(Carried(k), n)
  <2>1. n \in Nat /\ (n \in e .. l.seq \/ (l.seq < n /\ n <= k.seq))
    BY <1>1
  <2> QED BY <2>1 DEF Holes, Grown
<1>4. ASSUME NEW r \in Carried(k), IsResync(r) PROVE r.seq > e /\ \A f \in Carried(k) : f.seq # r.seq - 1
  <2>1. CASE r \in Carried(l)
    BY <1>1, <1>2, <1>4, <2>1 DEF Holes
  <2>2. CASE r.seq > l.seq
    <3>1. r.seq > l.seq + 1 /\ \A f \in Carried(k) : f.seq # r.seq - 1
      BY <1>4, <2>2 DEF Grown
    <3> QED BY <1>1, <3>1 DEF Holes
  <2> QED BY <1>2, <2>1, <2>2
<1>5. \A f \in Carried(k) : f.seq >= e
  BY <1>1, <1>2 DEF Holes
<1>6. e <= k.seq + 1
  BY <1>1 DEF Holes
<1> QED BY <1>3, <1>4, <1>5, <1>6 DEF Holes

\* A client that takes a frame accounts for those that frame skips.
LEMMA HolesTaken ==
    ASSUME NEW l \in Links, Ordered(l), NEW e \in Nat, Holes(l, e), NEW k \in Links, k.seq = l.seq,
           l.wire # <<>>, k.wire = Tail(l.wire), k.queue = l.queue
    PROVE  /\ Holes(k, Head(l.wire).seq + 1)
           /\ Head(l.wire) \in Carried(l) /\ Head(l.wire).seq >= e
           /\ Head(l.wire).seq > e => \E r \in Carried(l) : IsResync(r) /\ (r \in Carried(k) \/ r = Head(l.wire))
           /\ IsResync(Head(l.wire)) => Head(l.wire).seq > e
<1> DEFINE h == Head(l.wire)
<1>1. /\ l.seq \in Nat /\ \A f \in Carried(l) : f.seq \in Nat /\ f.seq <= l.seq
  BY NumbersOnce
<1>2. Carried(l) = Carried(k) \cup {h} /\ \A f \in Carried(k) : h.seq < f.seq
  BY FirstTaken
<1> HIDE DEF h
<1>3. h \in Carried(l) /\ h.seq \in Nat /\ h.seq >= e /\ h.seq <= l.seq
  BY <1>1, <1>2 DEF Holes
<1>4. ASSUME NEW n \in h.seq + 1 .. l.seq PROVE Accounted(Carried(k), n)
  <2>1. n \in e .. l.seq /\ n > h.seq /\ n \in Nat
    BY <1>1, <1>3
  <2>2. Accounted(Carried(l), n)
    BY <2>1 DEF Holes
  <2>3. \A f \in Carried(l) : f.seq >= n => f \in Carried(k)
    BY <1>1, <1>2, <1>3, <2>1
  <2> QED BY <1>1, <2>1, <2>2, <2>3 DEF Accounted
<1>5. ASSUME NEW r \in Carried(k), IsResync(r) PROVE r.seq > h.seq + 1 /\ \A f \in Carried(k) : f.seq # r.seq - 1
  <2>1. r \in Carried(l) /\ r.seq \in Nat /\ h.seq < r.seq
    BY <1>1, <1>2
  <2>2. \A f \in Carried(l) : f.seq # r.seq - 1
    BY <1>5, <2>1 DEF Holes
  <2>3. h.seq # r.seq - 1
    BY <1>3, <2>2
  <2> QED BY <1>2, <1>3, <2>1, <2>2, <2>3
<1>6. \A f \in Carried(k) : f.seq >= h.seq + 1
  BY <1>1, <1>2, <1>3
<1>7. Holes(k, h.seq + 1)
  BY <1>1, <1>3, <1>4, <1>5, <1>6 DEF Holes
<1>8. ASSUME h.seq > e PROVE \E r \in Carried(l) : IsResync(r)
  <2>1. e \in e .. l.seq
    BY <1>1, <1>3
  <2>2. Accounted(Carried(l), e)
    BY <2>1 DEF Holes
  <2>3. \A f \in Carried(l) : f.seq # e
    BY <1>1, <1>2, <1>3, <1>8
  <2> QED BY <2>2, <2>3 DEF Accounted
<1>9. IsResync(h) => h.seq > e
  BY <1>3 DEF Holes
<1> QED BY <1>2, <1>3, <1>7, <1>8, <1>9 DEF h

\* What a step of the hub does to a link.
LEMMA HubGrows ==
    ASSUME HubInv, HubInv', OrderInv, EarlyInv, HubNext, NEW c \in Conns
    PROVE  /\ link'[c] \in Links
           /\ \/ Unregister(c)
              \/ link'[c].seq = link[c].seq /\ Carried(link'[c]) = Carried(link[c])
              \/ \E bodies \in Seq(Bodies) : Grown(link[c], link'[c], bodies, Len(bodies))
<1>1. /\ link'[c] \in Links /\ SlateTypeOK /\ job[c].channels \in Seq(Channels)
  BY DEF HubInv, TypesInv, ConnTypes, SlateInv
<1>2. ASSUME NEW bodies \in Seq(Bodies), Sent(c, bodies)
      PROVE  \/ link'[c] = link[c]
             \/ \E t \in Seq(Bodies) : Grown(link[c], link'[c], t, Len(t))
  BY <1>2 DEF Sent
<1>3. CASE Apart(c) \/ Restore(c) \/ (Register(c) /\ Closed) \/ ClassifySubscribe(c) \/ PickResync(c)
             \/ Serve(c) \/ Close(c)
  <2>1. link'[c] = link[c]
    BY <1>3 DEF Apart, Restore, Register, ClassifySubscribe, PickResync, Serve, Close
  <2> QED BY <1>1, <2>1
<1>4. CASE Transmit(c)
  BY <1>1, <1>4, TransmitMoves
<1>5. ASSUME NEW d \in Deliveries, Publish(d)
      PROVE  \/ link'[c] = link[c]
             \/ \E t \in Seq(Bodies) : Grown(link[c], link'[c], t, Len(t))
  <2>1. Fold(d) /\ (Changed(result') => Sent(c, Fanout(c, result'))) /\ (~Changed(result') => link'[c] = link[c])
    BY <1>5, PublishSends
  <2>2. Changed(result') => Fanout(c, result') \in Seq(Bodies)
    BY <2>1, FanoutFacts
  <2> QED BY <1>2, <2>1, <2>2
<1>6. CASE Register(c) /\ ~Closed
  <2>1. Hello(job[c].channels) \in Bodies
    BY <1>1 DEF Hello, Bodies
  <2>2. <<Hello(job[c].channels)>> \o Snaps(job[c].channels) \in Seq(Bodies)
    BY <1>1, <2>1, SnapsFacts
  <2> QED BY <1>1, <1>6, <2>2, RegisterSends
<1>7. CASE AttachSubscribe(c)
  <2>1. AckOf("subscribe", job[c].channels) \in Bodies
    BY <1>1 DEF AckOf, Bodies
  <2>2. <<AckOf("subscribe", job[c].channels)>> \o Snaps(job[c].channels) \in Seq(Bodies)
    BY <1>1, <2>1, SnapsFacts
  <2>3. link'[c] = link[c] \/ \E t \in Seq(Bodies) : Grown(link[c], link'[c], t, Len(t))
    BY <1>2, <1>7, <2>2, AttachSubscribeSends
  <2> QED BY <1>1, <2>3
<1>8. CASE AttachResync(c)
  <2>1. Snaps(job[c].channels) \in Seq(Bodies)
    BY <1>1, LinkBodies, SnapsFacts
  <2>2. link'[c] = link[c] \/ \E t \in Seq(Bodies) : Grown(link[c], link'[c], t, Len(t))
    BY <1>2, <1>8, <2>1, AttachResyncSends
  <2> QED BY <1>1, <2>2
<1>9. CASE Unsubscribe(c)
  <2>1. Sent(c, <<AckOf("unsubscribe", Dropped(c))>>) /\ Dropped(c) \in Seq(Channels)
    BY <1>9, UnsubscribeSends
  <2>2. AckOf("unsubscribe", Dropped(c)) \in Bodies
    BY <2>1 DEF AckOf, Bodies
  <2>3. <<AckOf("unsubscribe", Dropped(c))>> \in Seq(Bodies)
    BY <2>2
  <2>4. link'[c] = link[c] \/ \E t \in Seq(Bodies) : Grown(link[c], link'[c], t, Len(t))
    BY <1>2, <2>1, <2>3
  <2> QED BY <1>1, <2>4
<1> QED BY <1>1, <1>3, <1>4, <1>5, <1>6, <1>7, <1>8, <1>9, HubActs DEF Own

\* Until its connection ends, a client learns of every number it does not get.
HoleInv ==
    socket # None /\ phase[socket] \in Early \cup {"registered", "serving"} => Holes(link[socket], expected)

\* What a client does not get, it learns of.
LEMMA HoleStep ==
    ASSUME BoardStart, BoardStart', OrderInv, HoleInv, [BoardNext]_boardGatewayVars
    PROVE  HoleInv'
<1>1. HubInv /\ HubInv' /\ BoardTypes /\ BoardTypes' /\ EarlyInv /\ ConnTypes /\ ConnTypes'
  BY DEF BoardStart, HubInv, TypesInv
<1>2. \A c \in Conns : link[c] \in Links /\ Ordered(link[c])
  BY <1>1 DEF ConnTypes, OrderInv
<1> SUFFICES ASSUME socket' # None, phase'[socket'] \in Early \cup {"registered", "serving"}
             PROVE  Holes(link'[socket'], expected')
  BY DEF HoleInv
<1>3. CASE HubNext /\ UNCHANGED boardVars
  <2>1. socket' = socket /\ expected' = expected /\ socket \in Conns /\ expected \in Nat /\ socket # None
    BY <1>1, <1>3 DEF boardVars, BoardTypes
  <2>2. phase[socket] \in Early \cup {"registered", "serving"}
    BY <1>1, <1>3, <2>1, HubAdvances DEF Open
  <2>3. PICK c \in Conns : c = socket
    BY <2>1
  <2>4. Holes(link[c], expected)
    BY <2>1, <2>2, <2>3 DEF HoleInv
  <2>5. ~Unregister(c)
    <3>1. Unregister(c) => phase'[c] = "gone"
      BY <1>1, OwnPhases
    <3> QED BY <2>1, <2>3, <3>1 DEF Early
  <2>6. /\ link'[c] \in Links
        /\ \/ link'[c].seq = link[c].seq /\ Carried(link'[c]) = Carried(link[c])
           \/ \E bodies \in Seq(Bodies) : Grown(link[c], link'[c], bodies, Len(bodies))
    BY <1>1, <1>3, <2>5, HubGrows
  <2>7. Holes(link'[c], expected)
    <3>1. CASE link'[c].seq = link[c].seq /\ Carried(link'[c]) = Carried(link[c])
      BY <2>4, <3>1 DEF Holes
    <3>2. CASE \E bodies \in Seq(Bodies) : Grown(link[c], link'[c], bodies, Len(bodies))
      BY <1>2, <2>1, <2>4, <2>6, <3>2, HolesGrown
    <3> QED BY <2>6, <3>1, <3>2
  <2> QED BY <2>1, <2>3, <2>7
<1>4. CASE Message
  <2>1. /\ socket \in Conns /\ link[socket].wire # <<>> /\ expected' = First.seq + 1 /\ expected \in Nat
        /\ link' = [link EXCEPT ![socket] = [seq |-> link[socket].seq, queue |-> link[socket].queue,
                                             wire |-> Tail(link[socket].wire)]]
        /\ link' \in [Conns -> Links] /\ socket' = socket /\ phase' = phase
    BY <1>1, <1>4, MessageFacts DEF BoardTypes
  <2>2. PICK c \in Conns, l \in Links : c = socket /\ l = link[c] /\ Ordered(l)
    BY <1>2, <2>1
  <2>3. PICK k \in Links : k = link'[c]
    BY <2>1
  <2>4. k.seq = l.seq /\ k.wire = Tail(l.wire) /\ k.queue = l.queue /\ l.wire # <<>>
    <3> DEFINE x == [seq |-> l.seq, queue |-> l.queue, wire |-> Tail(l.wire)]
    <3>1. x.seq = l.seq /\ x.queue = l.queue /\ x.wire = Tail(l.wire)
      OBVIOUS
    <3>2. link' = [link EXCEPT ![c] = x] /\ link \in [Conns -> Links]
      BY <1>1, <2>1, <2>2 DEF ConnTypes
    <3> HIDE DEF x
    <3>3. link'[c] = x
      BY <3>2
    <3> QED BY <2>1, <2>2, <2>3, <3>1, <3>3
  <2>5. Holes(l, expected)
    BY <2>1, <2>2 DEF HoleInv
  <2>6. Holes(k, Head(l.wire).seq + 1)
    BY <2>1, <2>2, <2>4, <2>5, HolesTaken
  <2> QED BY <2>1, <2>2, <2>3, <2>6 DEF First
<1>5. ASSUME NEW c \in Conns, Opens(c) PROVE Holes(link'[socket'], expected')
  <2>1. phase[c] = "idle" /\ socket' = c /\ expected' = 1 /\ link' = link
    BY <1>1, <1>5, OpensFacts
  <2>2. link[c].seq = 0 /\ link[c].queue = <<>> /\ link[c].wire = <<>>
    BY <1>1, <2>1 DEF EarlyInv, Early
  <2>3. Carried(link[c]) = {}
    BY <2>2 DEF Carried, Sq!ToSet
  <2>4. Holes(link[c], 1)
    BY <2>2, <2>3 DEF Holes
  <2> QED BY <2>1, <2>4
<1>6. CASE UNCHANGED <<socket, phase, link, expected>>
  BY <1>6 DEF HoleInv
<1>7. (\E ch \in Restorable : Wants(ch)) \/ UNCHANGED boardGatewayVars => UNCHANGED <<socket, phase, link, expected>>
  BY DEF Wants, boardGatewayVars, boardVars, gatewayVars, connVars
<1>8. ~Closes
  BY DEF Closes
<1> QED BY <1>3, <1>4, <1>5, <1>6, <1>7, <1>8 DEF BoardNext

-----------------------------------------------------------------------------
(* A client that says it is resyncing is being answered *)

\* A resync is asked for, and right behind it some channels again.
Restarts(s) == \E i \in 1 .. Len(s) - 1 :
    s[i].op = "resync" /\ s[i + 1].op = "subscribe" /\ s[i + 1].channels # <<>>
Renews(s) == s # <<>> /\ Head(s).op = "subscribe" /\ Head(s).channels # <<>>

LEMMA RestartsFacts ==
    ASSUME NEW s \in Seq(Asked), NEW q \in Asked, NEW r \in Asked
    PROVE  /\ Restarts(s) => Restarts(Append(s, q))
           /\ Renews(s) => Renews(Append(s, q))
           /\ q.op = "resync" /\ r.op = "subscribe" /\ r.channels # <<>> => Restarts(Append(Append(s, q), r))
           /\ s # <<>> /\ Restarts(s) => \/ Restarts(Tail(s))
                                         \/ Head(s).op = "resync" /\ Renews(Tail(s))
<1> DEFINE N == Len(s)
<1>1. /\ N \in Nat /\ Append(s, q) \in Seq(Asked) /\ Len(Append(s, q)) = N + 1
      /\ \A i \in 1 .. N : Append(s, q)[i] = s[i]
  OBVIOUS
<1>2. Restarts(s) => Restarts(Append(s, q))
  BY <1>1 DEF Restarts
<1>3. Renews(s) => Renews(Append(s, q))
  <2>1. s # <<>> => N >= 1 /\ Head(s) = s[1] /\ Head(Append(s, q)) = Append(s, q)[1]
    OBVIOUS
  <2> QED BY <1>1, <2>1 DEF Renews
<1>4. ASSUME q.op = "resync", r.op = "subscribe", r.channels # <<>> PROVE Restarts(Append(Append(s, q), r))
  <2> DEFINE t == Append(Append(s, q), r)
  <2>1. Len(t) = N + 2 /\ t[N + 1] = q /\ t[N + 2] = r
    OBVIOUS
  <2>2. N + 1 \in 1 .. Len(t) - 1 /\ (N + 1) + 1 = N + 2
    BY <1>1, <2>1
  <2> HIDE DEF t, N
  <2> QED BY <1>4, <2>1, <2>2 DEF Restarts, t
<1>5. ASSUME s # <<>>, Restarts(s)
      PROVE  Restarts(Tail(s)) \/ (Head(s).op = "resync" /\ Renews(Tail(s)))
  <2>1. /\ Tail(s) \in Seq(Asked) /\ Len(Tail(s)) = N - 1 /\ Head(s) = s[1] /\ N >= 1
        /\ \A i \in 1 .. N - 1 : Tail(s)[i] = s[i + 1]
    BY <1>5
  <2>2. PICK i \in 1 .. N - 1 : s[i].op = "resync" /\ s[i + 1].op = "subscribe" /\ s[i + 1].channels # <<>>
    BY <1>5 DEF Restarts
  <2>3. CASE i = 1
    <3>1. Len(Tail(s)) >= 1 /\ Tail(s)[1] = s[2]
      <4>1. 1 \in 1 .. N - 1 /\ 1 + 1 = 2
        BY <1>1, <2>2
      <4> QED BY <1>1, <2>1, <4>1
    <3>2. Tail(s) # <<>> /\ Head(Tail(s)) = Tail(s)[1]
      <4>1. PICK t \in Seq(Asked) : t = Tail(s)
        BY <2>1
      <4>2. Len(t) >= 1
        BY <3>1, <4>1
      <4>3. t # <<>> /\ Head(t) = t[1]
        BY <4>2
      <4> QED BY <4>1, <4>3
    <3> QED BY <2>1, <2>2, <2>3, <3>1, <3>2 DEF Renews
  <2>4. CASE i # 1
    <3>1. i - 1 \in 1 .. Len(Tail(s)) - 1 /\ i - 1 \in 1 .. N - 1 /\ i \in 1 .. N - 1 /\ (i - 1) + 1 = i
      BY <1>1, <2>1, <2>2, <2>4
    <3>2. Tail(s)[i - 1] = s[i] /\ Tail(s)[i] = s[i + 1]
      BY <2>1, <3>1
    <3> QED BY <2>2, <3>1, <3>2 DEF Restarts
  <2> QED BY <2>3, <2>4
<1> QED BY <1>2, <1>3, <1>4, <1>5

\* The answer is on its way, its request is half done, or on its way itself.
Mending(c) ==
    \/ \E r \in Carried(link[c]) : r.body.kind \in {"resync", "snapshot"}
    \/ job[c].op \in {"resync", "subscribe"} /\ job[c].channels # <<>>
    \/ Restarts(up[c])
    \/ job[c] = NoJob /\ held[c] = {} /\ Renews(up[c])

\* A connection that holds nothing is granted something.
LEMMA SomeAccepted ==
    ASSUME NEW c \in Conns, held[c] = {}, NEW chs \in Seq(Channels), chs # <<>>
    PROVE  Accepted(c, chs) # <<>>
<1> DEFINE room == MaxChannels - Cardinality(held[c])
           before(i) == {j \in Fresh(c, chs) : j < i}
           keep == {i \in Fresh(c, chs) : Cardinality(before(i)) < room}
<1>1. Accepted(c, chs) = Taken(chs, keep)
  BY DEF Accepted
<1>2. 1 \in DOMAIN chs
  OBVIOUS
<1>3. 1 \in Fresh(c, chs) /\ Fresh(c, chs) \subseteq DOMAIN chs
  BY <1>2 DEF Fresh
<1>4. Cardinality(before(1)) = 0
  <2>1. before(1) = {}
    BY DEF Fresh
  <2> QED BY <2>1, FS_EmptySet
<1>5. room = MaxChannels /\ MaxChannels > 0
  BY FS_EmptySet, CapacitiesAssumption
<1>6. 1 \in keep /\ keep \subseteq DOMAIN chs
  BY <1>3, <1>4, <1>5
<1> HIDE DEF keep
<1>7. Sq!ToSet(Taken(chs, keep)) = {chs[i] : i \in keep}
  BY <1>6, TakenType
<1>8. Sq!ToSet(<<>>) = {}
  BY DEF Sq!ToSet
<1> QED BY <1>1, <1>6, <1>7, <1>8

\* The frames that end a client's waiting.
Mends(l) == \E r \in Carried(l) : r.body.kind \in {"resync", "snapshot"}

LEMMA MendsGrown ==
    ASSUME NEW l, NEW k, NEW bodies, NEW n \in Nat, Grown(l, k, bodies, n),
           Mends(l) \/ \E i \in 1 .. n : bodies[i].kind = "snapshot"
    PROVE  Mends(k)
<1>1. CASE \E r \in Carried(k) : IsResync(r)
  BY <1>1 DEF Mends, IsResync
<1>2. CASE Carried(k) = Carried(l) \cup Numbered(l, bodies, n)
  <2>1. ASSUME NEW i \in 1 .. n, bodies[i].kind = "snapshot" PROVE Mends(k)
    <3> DEFINE f == [seq |-> l.seq + i, body |-> bodies[i]]
    <3>1. f \in Carried(k) /\ f.body = bodies[i]
      BY <1>2 DEF Numbered
    <3> HIDE DEF f
    <3> QED BY <2>1, <3>1 DEF Mends
  <2>2. CASE Mends(l)
    BY <1>2, <2>2 DEF Mends
  <2> QED BY <2>1, <2>2
<1> QED BY <1>1, <1>2 DEF Grown

\* A request that is half done and names a channel is answered with its snapshot.
LEMMA AttachMends ==
    ASSUME HubInv, OrderInv, NEW c \in Conns, AttachSubscribe(c) \/ AttachResync(c), Open(c), job[c].channels # <<>>
    PROVE  Mends(link'[c])
<1> DEFINE chs == job[c].channels
<1>1. chs \in Seq(Channels) /\ SlateTypeOK /\ chs # <<>>
  BY DEF HubInv, TypesInv, ConnTypes, SlateInv
<1>2. AckOf("subscribe", chs) \in Bodies
  BY <1>1 DEF AckOf, Bodies
<1>3. Len(chs) \in Nat /\ Len(chs) >= 1
  BY <1>1
<1>4. \A ch : SnapshotOf(ch).kind = "snapshot"
  BY DEF SnapshotOf
<1>5. CASE AttachSubscribe(c)
  <2> DEFINE t == <<AckOf("subscribe", chs)>> \o Snaps(chs)
  <2>1. /\ t \in Seq(Bodies) /\ Len(t) = Len(chs) + 1
        /\ \A i \in 1 .. Len(chs) : t[i + 1] = Snaps(chs)[i] /\ Snaps(chs)[i] = SnapshotOf(chs[i])
    BY <1>1, <1>2, SnapsFacts
  <2>2. Grown(link[c], link'[c], t, Len(t))
    BY <1>5, AttachSubscribeSends DEF Sent
  <2>3. 2 \in 1 .. Len(t) /\ t[2].kind = "snapshot" /\ Len(t) \in Nat
    <3>1. 1 \in 1 .. Len(chs) /\ 1 + 1 = 2
      BY <1>3
    <3> HIDE DEF t, chs
    <3>2. t[2] = SnapshotOf(chs[1])
      BY <2>1, <3>1
    <3> QED BY <1>3, <1>4, <2>1, <3>2
  <2> HIDE DEF t
  <2> QED BY <2>2, <2>3, MendsGrown
<1>6. CASE AttachResync(c)
  <2> DEFINE t == Snaps(chs)
  <2>1. /\ t \in Seq(Bodies) /\ Len(t) = Len(chs)
        /\ \A i \in 1 .. Len(chs) : t[i] = SnapshotOf(chs[i])
    BY <1>1, <1>2, SnapsFacts
  <2>2. Grown(link[c], link'[c], t, Len(t))
    BY <1>6, AttachResyncSends DEF Sent
  <2> HIDE DEF t, chs
  <2>3. 1 \in 1 .. Len(t) /\ t[1].kind = "snapshot" /\ Len(t) \in Nat
    BY <1>3, <1>4, <2>1
  <2> QED BY <2>2, <2>3, MendsGrown
<1> QED BY <1>5, <1>6

\* The hub answers a resync, or still has it to answer.
LEMMA MendingHub ==
    ASSUME HubInv, HubInv', BoardTypes, OrderInv, EarlyInv, HubNext, NEW c \in Conns,
           phase[c] \notin Early, Open(c)', Mending(c)
    PROVE  Mending(c)'
<1> SUFFICES \/ Mends(link'[c])
             \/ job'[c].op \in {"resync", "subscribe"} /\ job'[c].channels # <<>>
             \/ Restarts(up'[c])
             \/ job'[c] = NoJob /\ held'[c] = {} /\ Renews(up'[c])
  BY DEF Mending, Mends
<1>1. /\ up[c] \in Seq(Asked) /\ job[c].channels \in Seq(Channels)
      /\ phase'[c] \in {"registered", "serving"}
      /\ NoJob.op = "none"
  BY DEF HubInv, TypesInv, ConnTypes, Open, NoJob
<1>2. CASE Mends(link[c])
  <2>1. ~Unregister(c)
    BY <1>1, OwnPhases
  <2>2. \/ Carried(link'[c]) = Carried(link[c])
        \/ \E bodies \in Seq(Bodies) : Grown(link[c], link'[c], bodies, Len(bodies))
    BY <2>1, HubGrows
  <2>3. Carried(link'[c]) = Carried(link[c]) => Mends(link'[c])
    BY <1>2 DEF Mends
  <2>4. ASSUME NEW bodies \in Seq(Bodies), Grown(link[c], link'[c], bodies, Len(bodies)) PROVE Mends(link'[c])
    <3>1. Len(bodies) \in Nat
      OBVIOUS
    <3> QED BY <1>2, <2>4, <3>1, MendsGrown
  <2> QED BY <2>2, <2>3, <2>4
<1>3. CASE UNCHANGED <<job, held, up>> \/ Apart(c)
  <2>1. job'[c] = job[c] /\ held'[c] = held[c] /\ up'[c] = up[c]
    BY <1>3 DEF Apart
  <2> QED BY <1>2, <2>1 DEF Mending, Mends
<1>4. ~Restore(c) /\ ~Register(c) /\ ~Close(c) /\ ~Unregister(c)
  BY <1>1, OwnPhases DEF Early
<1>5. ASSUME NEW d, Publish(d) PROVE UNCHANGED <<job, held, up>>
  BY <1>5 DEF Publish, hubVars
<1>6. ASSUME Serve(c) \/ Transmit(c) PROVE UNCHANGED <<job, held, up>>
  BY <1>6, OwnPhases
<1>7. CASE AttachSubscribe(c) \/ AttachResync(c)
  <2>1. up' = up /\ phase' = phase /\ job[c] # NoJob
    <3>1. AttachSubscribe(c) => up' = up /\ phase' = phase /\ job[c].op = "subscribe"
      BY OwnRequests
    <3>2. AttachResync(c) => up' = up /\ phase' = phase /\ job[c].op = "resync"
      BY OwnRequests
    <3> QED BY <1>1, <1>7, <3>1, <3>2
  <2>2. Open(c)
    BY <1>1, <2>1 DEF Open
  <2>3. job[c].channels # <<>> => Mends(link'[c])
    BY <1>7, <2>2, AttachMends
  <2> QED BY <1>2, <2>1, <2>3 DEF Mending, Mends
<1>8. CASE ClassifySubscribe(c)
  <2>1. /\ up'[c] = Tail(up[c]) /\ up[c] # <<>> /\ Head(up[c]).op = "subscribe" /\ job[c] = NoJob
        /\ job'[c] = [op |-> "subscribe", channels |-> Accepted(c, Head(up[c]).channels)]
    BY <1>8, OwnRequests
  <2>2. Restarts(up[c]) => Restarts(up'[c])
    <3>1. Restarts(up[c]) => Restarts(Tail(up[c])) \/ Head(up[c]).op = "resync"
      BY <1>1, <2>1, RestartsFacts
    <3> QED BY <2>1, <3>1
  <2>3. held[c] = {} /\ Renews(up[c]) => job'[c].op = "subscribe" /\ job'[c].channels # <<>>
    <3>1. Head(up[c]) \in Asked
      BY <1>1, <2>1
    <3>2. Head(up[c]).channels \in Seq(Channels)
      BY <3>1 DEF Asked
    <3> QED BY <2>1, <3>2, SomeAccepted DEF Renews
  <2> QED BY <1>1, <1>2, <2>1, <2>2, <2>3 DEF Mending, Mends
<1>9. CASE Unsubscribe(c)
  <2>1. up'[c] = Tail(up[c]) /\ up[c] # <<>> /\ Head(up[c]).op = "unsubscribe" /\ job[c] = NoJob
    BY <1>9, OwnRequests
  <2>2. Restarts(up[c]) => Restarts(up'[c])
    <3>1. Restarts(up[c]) => Restarts(Tail(up[c])) \/ Head(up[c]).op = "resync"
      BY <1>1, <2>1, RestartsFacts
    <3> QED BY <2>1, <3>1
  <2> QED BY <1>1, <1>2, <2>1, <2>2 DEF Mending, Mends, Renews
<1>10. CASE PickResync(c)
  <2>1. /\ up'[c] = Tail(up[c]) /\ up[c] # <<>> /\ Head(up[c]).op = "resync" /\ job[c] = NoJob /\ held' = held
    BY <1>10, OwnRequests
  <2>2. Head(up[c]).channels = <<>>
    <3>1. Head(up[c]) = up[c][1] /\ 1 \in DOMAIN up[c]
      BY <1>1, <2>1
    <3> QED BY <2>1, <3>1 DEF BoardTypes
  <2>3. /\ held[c] = {} => job'[c] = NoJob
        /\ held[c] # {} => job'[c].op = "resync" /\ job'[c].channels # <<>>
    BY <1>10, <2>2, OwnRequests
  <2>4. Restarts(up[c]) => Restarts(Tail(up[c])) \/ Renews(Tail(up[c]))
    BY <1>1, <2>1, RestartsFacts
  <2> QED BY <1>1, <1>2, <2>1, <2>3, <2>4 DEF Mending, Mends, Renews
<1> QED BY <1>3, <1>4, <1>5, <1>6, <1>7, <1>8, <1>9, <1>10, HubActs DEF Own

\* A client that says it is resyncing has the means of its cure on the way.
StatusInv ==
    \A c \in Conns : socket = c /\ status = "resyncing" =>
        phase[c] \notin Early /\ (Open(c) => Mending(c))

\* A frame makes a client resync, or leaves it resyncing, only with an answer to come.
LEMMA MessageMends ==
    ASSUME BoardStart, OrderInv, HoleInv, StatusInv, Message, status' = "resyncing"
    PROVE  phase[socket] \notin Early /\ (Open(socket) => \A c \in Conns : c = socket => Mending(c)')
<1>1. HubInv /\ BoardTypes /\ EarlyInv /\ ConnTypes
  BY DEF BoardStart, HubInv, TypesInv
<1>2. /\ socket \in Conns /\ link[socket].wire # <<>> /\ expected \in Nat /\ socket # None
      /\ link' = [link EXCEPT ![socket] = [seq |-> link[socket].seq, queue |-> link[socket].queue,
                                           wire |-> Tail(link[socket].wire)]]
      /\ link' \in [Conns -> Links] /\ socket' = socket /\ phase' = phase /\ job' = job /\ held' = held
      /\ Answered(up'[socket]) /\ up[socket] \in Seq(Asked) /\ status' = StatusAfter(First)
  BY <1>1, MessageFacts DEF BoardTypes, Message, hubVars
<1>3. phase[socket] \notin Early
  <2>1. phase[socket] \in Early => link[socket].wire = <<>>
    BY <1>1, <1>2 DEF EarlyInv
  <2> QED BY <1>2, <2>1
<1> SUFFICES ASSUME Open(socket), NEW c \in Conns, c = socket PROVE Mending(c)'
  BY <1>3
<1>4. c = socket
  OBVIOUS
<1>5. PICK l \in Links, k \in Links : l = link[c] /\ k = link'[c]
  BY <1>1, <1>2, <1>4 DEF ConnTypes
<1>6. k.seq = l.seq /\ k.wire = Tail(l.wire) /\ k.queue = l.queue /\ l.wire # <<>> /\ First = Head(l.wire)
  <2> DEFINE x == [seq |-> l.seq, queue |-> l.queue, wire |-> Tail(l.wire)]
  <2>1. x.seq = l.seq /\ x.queue = l.queue /\ x.wire = Tail(l.wire)
    OBVIOUS
  <2>2. link' = [link EXCEPT ![c] = x] /\ link \in [Conns -> Links]
    BY <1>1, <1>2, <1>4, <1>5 DEF ConnTypes
  <2> HIDE DEF x
  <2>3. link'[c] = x
    BY <2>2
  <2> QED BY <1>2, <1>4, <1>5, <2>1, <2>3 DEF First
<1>7. Ordered(l) /\ Holes(l, expected)
  BY <1>2, <1>4, <1>5 DEF OrderInv, HoleInv, Open
<1>8. /\ First.seq >= expected
      /\ First.seq > expected => \E r \in Carried(l) : IsResync(r) /\ (r \in Carried(k) \/ r = First)
      /\ IsResync(First) => First.seq > expected
  BY <1>2, <1>6, <1>7, HolesTaken
<1>9. Carried(l) = Carried(k) \cup {First}
  BY <1>6, <1>7, FirstTaken
<1>10. /\ Resync \in Asked /\ Again \in Asked /\ Resync.op = "resync" /\ Again.op = "subscribe"
       /\ wanted # {} => Again.channels # <<>>
  BY <1>1, AsksAsked DEF BoardTypes
<1> SUFFICES \/ Mends(k)
             \/ job[c].op \in {"resync", "subscribe"} /\ job[c].channels # <<>>
             \/ Restarts(up'[c])
             \/ job[c] = NoJob /\ held[c] = {} /\ Renews(up'[c])
  BY <1>2, <1>4, <1>5 DEF Mending, Mends
<1>11. CASE First.body.kind = "resync"
  <2>1. wanted # {}
    BY <1>2, <1>11 DEF StatusAfter
  <2>2. Gapped(First)
    BY <1>8, <1>11, <1>2 DEF Gapped, IsResync
  <2>3. up'[socket] = Append(Append(up[socket], Resync), Again)
    BY <1>2, <1>11, <2>1, <2>2 DEF Answered
  <2> QED BY <1>2, <1>4, <1>10, <2>1, <2>3, RestartsFacts
<1>12. CASE First.body.kind # "resync"
  <2>1. First.body.kind # "snapshot"
    BY <1>2, <1>12 DEF StatusAfter
  <2>2. CASE status = "resyncing"
    <3>1. Mending(c)
      BY <1>2, <1>4, <2>2 DEF StatusInv
    <3>2. up'[c] = up[c] \/ up'[c] = Append(up[c], Resync)
      BY <1>2, <1>4, <1>12 DEF Answered
    <3>3. Mends(l) => Mends(k)
      BY <1>9, <1>12, <2>1 DEF Mends
    <3>4. (Restarts(up[c]) => Restarts(up'[c])) /\ (Renews(up[c]) => Renews(up'[c]))
      BY <1>2, <1>4, <1>10, <3>2, RestartsFacts
    <3> QED BY <1>5, <3>1, <3>3, <3>4 DEF Mending, Mends
  <2>3. CASE status # "resyncing"
    <3>1. Gapped(First)
      BY <1>2, <1>12, <2>3 DEF StatusAfter
    <3>2. PICK r \in Carried(l) : IsResync(r) /\ (r \in Carried(k) \/ r = First)
      <4>1. First \in Frames
        BY <1>1, MessageFacts
      <4>2. First.seq > expected
        BY <1>2, <1>8, <3>1, <4>1 DEF Gapped, Frames, FramesOf
      <4> QED BY <1>8, <4>2
    <3> QED BY <1>12, <3>2 DEF Mends, IsResync
  <2> QED BY <2>2, <2>3
<1> QED BY <1>11, <1>12

\* A client that resyncs is about to be cured.
LEMMA StatusStep ==
    ASSUME BoardStart, BoardStart', OrderInv, HoleInv, StatusInv, [BoardNext]_boardGatewayVars
    PROVE  StatusInv'
<1>1. HubInv /\ HubInv' /\ BoardTypes /\ EarlyInv /\ ConnTypes
  BY DEF BoardStart, HubInv, TypesInv
<1> SUFFICES ASSUME NEW c \in Conns, socket' = c, status' = "resyncing"
             PROVE  phase'[c] \notin Early /\ (Open(c)' => Mending(c)')
  BY DEF StatusInv
<1>2. CASE HubNext /\ UNCHANGED boardVars
  <2>1. socket' = socket /\ status' = status
    BY <1>2 DEF boardVars
  <2>2. c = socket
    BY <2>1
  <2>3. phase[c] \notin Early /\ (Open(c) => Mending(c))
    BY <2>1, <2>2 DEF StatusInv
  <2>4. phase'[c] \notin Early /\ (Open(c)' => Open(c))
    BY <1>1, <1>2, <2>3, HubAdvances
  <2>5. Open(c)' => Mending(c)'
    BY <1>1, <1>2, <2>3, <2>4, MendingHub
  <2> QED BY <2>1, <2>2, <2>4, <2>5
<1>3. CASE Message
  <2>1. socket' = socket /\ phase' = phase
    BY <1>1, <1>3, MessageFacts
  <2>2. phase[c] \notin Early /\ (Open(c) => Mending(c)')
    BY <1>3, <2>1, MessageMends
  <2> QED BY <2>1, <2>2 DEF Open
<1>4. ASSUME NEW x \in Conns, Opens(x) PROVE FALSE
  BY <1>1, <1>4, OpensFacts
<1>5. ~Closes
  BY DEF Closes
<1>6. ASSUME NEW ch \in Restorable, Wants(ch)
      PROVE  phase'[c] \notin Early /\ (Open(c)' => Mending(c)')
  <2>1. socket' = socket /\ status' = status /\ UNCHANGED <<link, phase, job, held>>
    BY <1>1, <1>6, WantsFacts DEF hubVars
  <2>2. c = socket /\ socket # None
    BY <2>1, NoneAssumption
  <2>3. phase[c] \notin Early /\ (Open(c) => Mending(c))
    BY <2>1, <2>2 DEF StatusInv
  <2>4. PICK q \in Asked : up'[c] = Append(up[c], q)
    <3>1. Ask("subscribe", <<ch>>) \in Asked /\ Ask("unsubscribe", <<ch>>) \in Asked
      BY <1>1, AsksAsked DEF BoardTypes
    <3> QED BY <1>1, <1>6, <2>1, <2>2, <3>1, WantsFacts
  <2>5. up[c] \in Seq(Asked)
    BY <1>1 DEF ConnTypes
  <2>6. (Restarts(up[c]) => Restarts(up'[c])) /\ (Renews(up[c]) => Renews(up'[c]))
    BY <2>4, <2>5, RestartsFacts
  <2>7. Mending(c) => Mending(c)'
    BY <2>1, <2>6 DEF Mending
  <2>8. Open(c)' => Open(c)
    BY <2>1 DEF Open
  <2> QED BY <2>1, <2>2, <2>3, <2>7, <2>8
<1>7. CASE UNCHANGED boardGatewayVars
  <2>1. UNCHANGED <<socket, status, link, phase, job, held, up>>
    BY <1>7 DEF boardGatewayVars, boardVars, gatewayVars, hubVars, connVars
  <2> QED BY <2>1 DEF StatusInv, Mending, Open
<1> QED BY <1>2, <1>3, <1>4, <1>5, <1>6, <1>7 DEF BoardNext

\* With nothing on its way there is no cure to wait for.
LEMMA StatusSettled ==
    ASSUME BoardTypes, StatusInv
    PROVE  StatusHonest
<1> SUFFICES ASSUME Settled, status = "resyncing" PROVE FALSE
  BY DEF StatusHonest
<1>1. /\ socket # None /\ Open(socket) /\ job[socket] = NoJob /\ up[socket] = <<>>
      /\ link[socket].queue = <<>> /\ link[socket].wire = <<>>
  BY DEF Settled, Open, Ready
<1>2. Mending(socket)
  BY <1>1 DEF StatusInv, BoardTypes
<1>3. Carried(link[socket]) = {} /\ NoJob.op = "none" /\ ~Restarts(<<>>) /\ ~Renews(<<>>)
  <2>1. Carried(link[socket]) = {}
    BY <1>1 DEF Carried, Sq!ToSet
  <2>2. ~Restarts(<<>>)
    BY DEF Restarts
  <2> QED BY <2>1, <2>2 DEF NoJob, Renews
<1> QED BY <1>1, <1>2, <1>3 DEF Mending

-----------------------------------------------------------------------------
(* The board shows the slate *)

\* The channels a market may be published on.
Scope(m) == UNION {ChannelsFor(m, r) : r \in Routes[m]}

\* A market stays with its event and its league.
RoutesFixed == \A m \in Markets : \E r : Routes[m] \subseteq {r}

\* The bodies that set a market's document, and to what.
Tells(b, m) == \/ b.kind = "snapshot" /\ m \in DOMAIN b.markets
               \/ b.kind \in {"delta", "removal"} /\ b.market = m
Says(b, m) == IF b.kind = "snapshot" THEN b.markets[m] ELSE IF b.kind = "delta" THEN b.entry ELSE Absent

\* The bodies that say whether it is on a channel, and what they say.
Places(b, ch, m) == \/ b.kind = "snapshot" /\ b.ch = ch
                    \/ b.kind = "delta" /\ b.market = m /\ b.ch = ch
                    \/ b.kind = "removal" /\ b.market = m
Placed(b, m) == IF b.kind = "snapshot" THEN m \in DOMAIN b.markets ELSE b.kind = "delta"

\* The last of F about a market gives it the document e; without one, the client has it.
Document(F, m, doc, e) ==
    e # Absent =>
        /\ (\A f \in F : ~Tells(f.body, m)) => doc = e
        /\ \A f \in F : Tells(f.body, m) /\ (\A g \in F : Tells(g.body, m) => g.seq <= f.seq)
                          => Says(f.body, m) = e

\* The last of F that places it on a channel is right; without one, the client is.
Membership(F, ch, m, M, e) ==
    /\ (\A f \in F : ~Places(f.body, ch, m)) => (m \in M <=> e # Absent)
    /\ \A f \in F : Places(f.body, ch, m) /\ (\A g \in F : Places(g.body, ch, m) => g.seq <= f.seq)
                      => (Placed(f.body, m) <=> e # Absent)

\* The documents and the members of all channels of H.
Coherent(F, H) ==
    \A m \in Markets : \A ch \in H \cap Scope(m) :
        Document(F, m, markets[m], slate[m]) /\ Membership(F, ch, m, Members(ch), slate[m])

\* Every body reached the link behind what was there.
Whole(l, k, bodies) ==
    /\ Carried(l) \subseteq Carried(k) /\ l.seq \in Nat
    /\ \A f \in Carried(l) : f.seq \in Nat /\ f.seq <= l.seq
    /\ \A f \in Carried(k) : f.seq \in Nat
    /\ \A f \in Carried(k) : f \in Carried(l) \/ (f.seq > l.seq /\ \E i \in 1 .. Len(bodies) : f.body = bodies[i])
    /\ \A i \in 1 .. Len(bodies) : \E f \in Carried(k) : f.seq > l.seq /\ f.body = bodies[i]

\* A list that is queued without an overflow reaches the link whole.
LEMMA GrownWhole ==
    ASSUME NEW l \in Links, Ordered(l), NEW k \in Links, NEW bodies \in Seq(Bodies), Grown(l, k, bodies, Len(bodies)),
           \A r \in Carried(k) : ~IsResync(r)
    PROVE  Whole(l, k, bodies)
<1> DEFINE N == Len(bodies)
<1>1. /\ N \in Nat /\ l.seq \in Nat /\ \A f \in Carried(l) : f.seq \in Nat /\ f.seq <= l.seq
      /\ \A f \in Carried(k) : f.seq \in Nat
  BY NumbersOnce DEF Grown
<1>2. Carried(k) = Carried(l) \cup Numbered(l, bodies, N)
  BY DEF Grown
<1> HIDE DEF N
<1>3. \A f \in Numbered(l, bodies, N) : f.seq > l.seq /\ \E i \in 1 .. N : f.body = bodies[i]
  BY <1>1 DEF Numbered
<1>4. ASSUME NEW i \in 1 .. N PROVE \E f \in Numbered(l, bodies, N) : f.seq > l.seq /\ f.body = bodies[i]
  <2> DEFINE f == [seq |-> l.seq + i, body |-> bodies[i]]
  <2>1. f \in Numbered(l, bodies, N) /\ f.seq = l.seq + i /\ f.body = bodies[i]
    BY DEF Numbered
  <2> HIDE DEF f
  <2> QED BY <1>1, <2>1
<1> QED BY <1>1, <1>2, <1>3, <1>4 DEF Whole, N

\* Bodies that tell the truth about a market, behind what was carried.
LEMMA DocumentGrown ==
    ASSUME NEW l, NEW k, NEW bodies, Whole(l, k, bodies), NEW m, NEW doc, NEW e,
           \A i \in 1 .. Len(bodies) : Tells(bodies[i], m) => Says(bodies[i], m) = e,
           (\E i \in 1 .. Len(bodies) : Tells(bodies[i], m)) \/ Document(Carried(l), m, doc, e)
    PROVE  Document(Carried(k), m, doc, e)
<1>1. CASE \E i \in 1 .. Len(bodies) : Tells(bodies[i], m)
  <2>1. PICK x \in Carried(k) : x.seq > l.seq /\ Tells(x.body, m)
    BY <1>1 DEF Whole
  <2>2. ASSUME NEW f \in Carried(k), Tells(f.body, m), \A g \in Carried(k) : Tells(g.body, m) => g.seq <= f.seq
        PROVE  Says(f.body, m) = e
    <3>1. f.seq > l.seq
      BY <2>1, <2>2 DEF Whole
    <3>2. f \notin Carried(l)
      BY <3>1 DEF Whole
    <3> QED BY <2>2, <3>2 DEF Whole
  <2> QED BY <2>1, <2>2 DEF Document
<1>2. CASE ~\E i \in 1 .. Len(bodies) : Tells(bodies[i], m)
  <2>1. \A f \in Carried(k) : Tells(f.body, m) => f \in Carried(l)
    BY <1>2 DEF Whole
  <2>2. Carried(l) \subseteq Carried(k)
    BY DEF Whole
  <2> QED BY <1>2, <2>1, <2>2 DEF Document
<1> QED BY <1>1, <1>2

\* The same of its membership of a channel.
LEMMA MembershipGrown ==
    ASSUME NEW l, NEW k, NEW bodies, Whole(l, k, bodies), NEW ch, NEW m, NEW M, NEW e,
           \A i \in 1 .. Len(bodies) : Places(bodies[i], ch, m) => (Placed(bodies[i], m) <=> e # Absent),
           (\E i \in 1 .. Len(bodies) : Places(bodies[i], ch, m)) \/ Membership(Carried(l), ch, m, M, e)
    PROVE  Membership(Carried(k), ch, m, M, e)
<1>1. CASE \E i \in 1 .. Len(bodies) : Places(bodies[i], ch, m)
  <2>1. PICK x \in Carried(k) : x.seq > l.seq /\ Places(x.body, ch, m)
    BY <1>1 DEF Whole
  <2>2. ASSUME NEW f \in Carried(k), Places(f.body, ch, m),
               \A g \in Carried(k) : Places(g.body, ch, m) => g.seq <= f.seq
        PROVE  Placed(f.body, m) <=> e # Absent
    <3>1. f.seq > l.seq
      BY <2>1, <2>2 DEF Whole
    <3>2. f \notin Carried(l)
      BY <3>1 DEF Whole
    <3> QED BY <2>2, <3>2 DEF Whole
  <2> QED BY <2>1, <2>2 DEF Membership
<1>2. CASE ~\E i \in 1 .. Len(bodies) : Places(bodies[i], ch, m)
  <2>1. \A f \in Carried(k) : Places(f.body, ch, m) => f \in Carried(l)
    BY <1>2 DEF Whole
  <2>2. Carried(l) \subseteq Carried(k)
    BY DEF Whole
  <2> QED BY <1>2, <2>1, <2>2 DEF Membership
<1> QED BY <1>1, <1>2

\* What a body names is in the scope of its channel.
Scoped(b) ==
    /\ b.kind = "snapshot" => \A m \in DOMAIN b.markets : b.ch \in Scope(m)
    /\ b.kind = "delta" => b.ch \in Scope(b.market)

\* A market of the slate is routed as some record of it may be.
RoutesHeld == \A m \in Markets :
    slate[m] # Absent => \E r \in Routes[m] : r.event = slate[m].event /\ r.league = slate[m].league

\* A channel lists, and what is carried names, only markets that may be published on it.
ScopeInv ==
    /\ RoutesHeld
    /\ \A ch \in DOMAIN members : \A m \in members[ch] : ch \in Scope(m)
    /\ \A c \in Conns : \A f \in Carried(link[c]) : Scoped(f.body)

\* An entry's channels are in the scope of its market, and no others if its routes are fixed.
LEMMA ScopeFacts ==
    ASSUME NEW m \in Markets, NEW entry, NEW r \in Routes[m], r.event = entry.event, r.league = entry.league
    PROVE  /\ ChannelsFor(m, entry) \subseteq Scope(m)
           /\ RoutesFixed => ChannelsFor(m, entry) = Scope(m)
<1>1. ChannelsFor(m, entry) = ChannelsFor(m, r)
  BY DEF ChannelsFor
<1>2. RoutesFixed => Routes[m] = {r}
  BY DEF RoutesFixed
<1> HIDE DEF ChannelsFor
<1> QED BY <1>1, <1>2 DEF Scope

\* What a snapshot says is what the slate holds.
LEMMA SnapshotTells ==
    ASSUME SlateInv, RoutesHeld, NEW ch \in Channels, NEW m \in Markets
    PROVE  /\ Tells(SnapshotOf(ch), m) <=> m \in SnapshotMarkets(ch)
           /\ m \in SnapshotMarkets(ch) => slate[m] # Absent /\ ch \in Scope(m) /\ Says(SnapshotOf(ch), m) = slate[m]
           /\ \A x : Places(SnapshotOf(ch), x, m) <=> x = ch
           /\ Placed(SnapshotOf(ch), m) <=> m \in SnapshotMarkets(ch)
           /\ RoutesFixed /\ ch \in Scope(m) => (m \in SnapshotMarkets(ch) <=> slate[m] # Absent)
<1>1. /\ SnapshotOf(ch).kind = "snapshot" /\ SnapshotOf(ch).ch = ch
      /\ DOMAIN SnapshotOf(ch).markets = SnapshotMarkets(ch)
      /\ \A x \in SnapshotMarkets(ch) : SnapshotOf(ch).markets[x] = slate[x]
  BY DEF SnapshotOf, Snapshot
<1>2. SnapshotMarkets(ch) = {x \in Held : ch \in ChannelsFor(x, slate[x])}
  BY ExactSnapshots DEF SnapshotIsWhatIsPublished
<1> HIDE DEF SnapshotOf, SnapshotMarkets
<1>3. m \in SnapshotMarkets(ch) => slate[m] # Absent /\ ch \in ChannelsFor(m, slate[m])
  BY <1>2 DEF Held
<1>4. slate[m] # Absent => /\ ChannelsFor(m, slate[m]) \subseteq Scope(m)
                           /\ RoutesFixed => ChannelsFor(m, slate[m]) = Scope(m)
  BY ScopeFacts DEF RoutesHeld
<1>5. slate[m] # Absent /\ ch \in ChannelsFor(m, slate[m]) => m \in SnapshotMarkets(ch)
  BY <1>2 DEF Held
<1> HIDE DEF ChannelsFor, Scope
<1>6. m \in SnapshotMarkets(ch) => slate[m] # Absent /\ ch \in Scope(m) /\ Says(SnapshotOf(ch), m) = slate[m]
  BY <1>1, <1>3, <1>4 DEF Says
<1>7. RoutesFixed /\ ch \in Scope(m) => (m \in SnapshotMarkets(ch) <=> slate[m] # Absent)
  BY <1>3, <1>4, <1>5
<1> QED BY <1>1, <1>6, <1>7 DEF Tells, Places, Placed

\* Bodies that tell a client nothing.
Neutral(b) == b.kind \notin {"snapshot", "delta", "removal"}

\* Snapshots of some channels make a board coherent on these, and keep it so on others.
LEMMA CoherentSnaps ==
    ASSUME SlateInv, RoutesHeld, RoutesFixed, NEW l, NEW k, NEW bodies, Whole(l, k, bodies),
           NEW H, Coherent(Carried(l), H), NEW C \in SUBSET Channels,
           \A i \in 1 .. Len(bodies) : Neutral(bodies[i]) \/ \E x \in C : bodies[i] = SnapshotOf(x),
           \A x \in C : \E i \in 1 .. Len(bodies) : bodies[i] = SnapshotOf(x),
           NEW J, J \subseteq H \cup C
    PROVE  Coherent(Carried(k), J)
<1> SUFFICES ASSUME NEW m \in Markets, NEW ch \in J, ch \in Scope(m)
             PROVE  /\ Document(Carried(k), m, markets[m], slate[m])
                    /\ Membership(Carried(k), ch, m, Members(ch), slate[m])
  BY DEF Coherent
<1> DEFINE e == slate[m]
<1>1. \A i \in 1 .. Len(bodies) : Neutral(bodies[i]) => ~Tells(bodies[i], m) /\ ~Places(bodies[i], ch, m)
  BY DEF Neutral, Tells, Places
<1>2. ASSUME NEW x \in C
      PROVE  /\ Tells(SnapshotOf(x), m) => Says(SnapshotOf(x), m) = e
             /\ x \in Scope(m) => (Tells(SnapshotOf(x), m) <=> e # Absent)
             /\ Places(SnapshotOf(x), ch, m) <=> x = ch
             /\ x \in Scope(m) => (Placed(SnapshotOf(x), m) <=> e # Absent)
  BY <1>2, SnapshotTells
<1> HIDE DEF e, Scope
<1>3. \A i \in 1 .. Len(bodies) : Tells(bodies[i], m) => Says(bodies[i], m) = e
  BY <1>1, <1>2
<1>4. \A i \in 1 .. Len(bodies) : Places(bodies[i], ch, m) => (Placed(bodies[i], m) <=> e # Absent)
  BY <1>1, <1>2
<1>5. CASE ch \in C
  <2>1. PICK i \in 1 .. Len(bodies) : bodies[i] = SnapshotOf(ch)
    BY <1>5
  <2>2. Places(bodies[i], ch, m) /\ (e # Absent => Tells(bodies[i], m))
    BY <1>2, <1>5, <2>1
  <2>3. Membership(Carried(k), ch, m, Members(ch), e)
    BY <1>4, <2>2, MembershipGrown
  <2>4. e # Absent => Document(Carried(k), m, markets[m], e)
    BY <1>3, <2>2, DocumentGrown
  <2>5. e = Absent => Document(Carried(k), m, markets[m], e)
    BY DEF Document
  <2> QED BY <2>3, <2>4, <2>5 DEF e
<1>6. CASE ch \notin C
  <2>1. Document(Carried(l), m, markets[m], e) /\ Membership(Carried(l), ch, m, Members(ch), e)
    BY <1>6 DEF Coherent, e
  <2> QED BY <1>3, <1>4, <2>1, DocumentGrown, MembershipGrown DEF e
<1> QED BY <1>5, <1>6

\* So does a record that is published.
LEMMA CoherentPublish ==
    ASSUME RoutesFixed, NEW l, NEW k, NEW bodies, Whole(l, k, bodies), NEW H \in SUBSET Channels,
           Coherent(Carried(l), H), slate' \in [Markets -> Entries \cup {Absent}],
           NEW m \in Markets, NEW entry, NEW r \in Routes[m], r.event = entry.event, r.league = entry.league,
           entry # Absent, UNCHANGED <<markets, members>>,
           Stored(m, entry) \/ Removed(m, entry), result'.market = m,
           slate \in [Markets -> Entries \cup {Absent}],
           \A i \in 1 .. Len(bodies) : \E ch \in ChannelsFor(m, entry) \cap H : bodies[i] = BodyFor(result', ch),
           \A ch \in ChannelsFor(m, entry) \cap H : \E i \in 1 .. Len(bodies) : bodies[i] = BodyFor(result', ch),
           NEW n \in Markets, NEW ch \in H, ch \in Scope(n)
    PROVE  /\ Document(Carried(k), n, markets[n], slate'[n])
           /\ Membership(Carried(k), ch, n, Members(ch), slate'[n])
<1>1. ChannelsFor(m, entry) = Scope(m)
  BY ScopeFacts
<1> HIDE DEF ChannelsFor, Scope
<1>2. \A x \in Markets : x # m => slate'[x] = slate[x]
  BY DEF Stored, Removed
<1>3. Document(Carried(l), n, markets[n], slate[n]) /\ Membership(Carried(l), ch, n, Members(ch), slate[n])
  BY DEF Coherent
<1>4. CASE Stored(m, entry)
  <2>1. slate'[m] = entry /\ \A x : BodyFor(result', x) = [kind |-> "delta", ch |-> x, market |-> m, entry |-> entry]
    BY <1>4 DEF Stored, BodyFor, Delta
  <2>2. \A x, y : /\ Tells(BodyFor(result', x), y) <=> y = m
                  /\ Says(BodyFor(result', x), m) = entry
                  /\ Placed(BodyFor(result', x), y)
                  /\ Places(BodyFor(result', x), ch, y) <=> y = m /\ x = ch
    BY <2>1 DEF Tells, Says, Places, Placed
  <2> QED
    <3>1. CASE n # m
      <4>1. \A i \in 1 .. Len(bodies) : ~Tells(bodies[i], n) /\ ~Places(bodies[i], ch, n)
        BY <2>2, <3>1
      <4>2. slate'[n] = slate[n]
        BY <1>2, <3>1
      <4> QED BY <1>3, <4>1, <4>2, DocumentGrown, MembershipGrown
    <3>2. CASE n = m
      <4>1. PICK i \in 1 .. Len(bodies) : bodies[i] = BodyFor(result', ch)
        BY <1>1, <3>2
      <4>2. Tells(bodies[i], n) /\ Places(bodies[i], ch, n)
        BY <2>2, <3>2, <4>1
      <4>3. \A j \in 1 .. Len(bodies) : /\ Tells(bodies[j], n) => Says(bodies[j], n) = slate'[n]
                                        /\ Places(bodies[j], ch, n) => (Placed(bodies[j], n) <=> slate'[n] # Absent)
        BY <2>1, <2>2, <3>2
      <4>4. Document(Carried(k), n, markets[n], slate'[n])
        BY <4>2, <4>3, DocumentGrown
      <4>5. Membership(Carried(k), ch, n, Members(ch), slate'[n])
        BY <4>2, <4>3, MembershipGrown
      <4> QED BY <4>4, <4>5
    <3> QED BY <3>1, <3>2
<1>5. CASE Removed(m, entry)
  <2>1. slate'[m] = Absent /\ \A x : BodyFor(result', x) = [kind |-> "removal", ch |-> x, market |-> m]
    BY <1>5 DEF Removed, BodyFor, Removal
  <2>2. \A x, y : /\ Tells(BodyFor(result', x), y) <=> y = m
                  /\ ~Placed(BodyFor(result', x), y)
                  /\ Places(BodyFor(result', x), ch, y) <=> y = m
    BY <2>1 DEF Tells, Says, Places, Placed
  <2> QED
    <3>1. CASE n # m
      <4>1. \A i \in 1 .. Len(bodies) : ~Tells(bodies[i], n) /\ ~Places(bodies[i], ch, n)
        BY <2>2, <3>1
      <4>2. slate'[n] = slate[n]
        BY <1>2, <3>1
      <4> QED BY <1>3, <4>1, <4>2, DocumentGrown, MembershipGrown
    <3>2. CASE n = m
      <4>1. PICK i \in 1 .. Len(bodies) : bodies[i] = BodyFor(result', ch)
        BY <1>1, <3>2
      <4>2. Places(bodies[i], ch, n)
        BY <2>2, <3>2, <4>1
      <4>3. \A j \in 1 .. Len(bodies) : Places(bodies[j], ch, n) => (Placed(bodies[j], n) <=> slate'[n] # Absent)
        BY <2>1, <2>2, <3>2
      <4>4. Membership(Carried(k), ch, n, Members(ch), slate'[n])
        BY <4>2, <4>3, MembershipGrown
      <4> QED BY <2>1, <3>2, <4>4 DEF Document
    <3> QED BY <3>1, <3>2
<1> QED BY <1>4, <1>5

-----------------------------------------------------------------------------
(* What a step of the hub sends, and who is asked to be answered again *)

\* What was lost is to be made good: the notice, the request or its job is under way.
Curing(c) ==
    \/ \E r \in Carried(link[c]) : IsResync(r)
    \/ \E i \in DOMAIN up[c] : up[c][i].op = "resync"
    \/ job[c].op = "resync"

\* The connection is sent the snapshots of the channels C, and bodies that say nothing.
Feeds(c, bodies, C) ==
    /\ Grown(link[c], link'[c], bodies, Len(bodies))
    /\ \A i \in 1 .. Len(bodies) : Neutral(bodies[i]) \/ \E x \in C : bodies[i] = SnapshotOf(x)
    /\ \A x \in C : \E i \in 1 .. Len(bodies) : bodies[i] = SnapshotOf(x)

\* It is sent nothing; a resync is dropped only where nothing is held.
Rests(c) ==
    /\ Carried(link'[c]) \subseteq Carried(link[c])
    /\ Open(c)' => /\ Open(c) /\ held'[c] = held[c] /\ Carried(link'[c]) = Carried(link[c])
                   /\ Curing(c) => Curing(c)' \/ held[c] = {}

\* The snapshots of a list of channels, with what goes ahead of them.
LEMMA SnapsFeed ==
    ASSUME SlateTypeOK, NEW chs \in Seq(Channels), NEW b \in Bodies, Neutral(b)
    PROVE  /\ \A i \in 1 .. Len(<<b>> \o Snaps(chs)) :
                 \/ Neutral((<<b>> \o Snaps(chs))[i])
                 \/ \E x \in Sq!ToSet(chs) : (<<b>> \o Snaps(chs))[i] = SnapshotOf(x)
           /\ \A x \in Sq!ToSet(chs) : \E i \in 1 .. Len(<<b>> \o Snaps(chs)) :
                 (<<b>> \o Snaps(chs))[i] = SnapshotOf(x)
           /\ \A i \in 1 .. Len(Snaps(chs)) : \E x \in Sq!ToSet(chs) : Snaps(chs)[i] = SnapshotOf(x)
           /\ \A x \in Sq!ToSet(chs) : \E i \in 1 .. Len(Snaps(chs)) : Snaps(chs)[i] = SnapshotOf(x)
           /\ <<b>> \o Snaps(chs) \in Seq(Bodies) /\ Snaps(chs) \in Seq(Bodies)
           /\ Sq!ToSet(chs) \in SUBSET Channels
<1> DEFINE s == Snaps(chs)
           t == <<b>> \o s
           N == Len(chs)
           C == Sq!ToSet(chs)
<1>1. /\ s \in Seq(Bodies) /\ Len(s) = N
      /\ \A i \in 1 .. N : s[i] = SnapshotOf(chs[i]) /\ chs[i] \in C
      /\ \A x \in C : \E i \in 1 .. N : s[i] = SnapshotOf(x)
      /\ t \in Seq(Bodies) /\ Len(t) = N + 1 /\ t[1] = b
      /\ \A i \in 1 .. N : t[i + 1] = s[i]
      /\ \A i \in 2 .. N + 1 : t[i] = s[i - 1] /\ i - 1 \in 1 .. N
  BY SnapsFacts
<1>2. N \in Nat
  OBVIOUS
<1>3. C \in SUBSET Channels
  BY DEF Sq!ToSet
<1> HIDE DEF s, t, C, N
<1>4. \A i \in 1 .. N : \E x \in C : s[i] = SnapshotOf(x)
  BY <1>1
<1>5. ASSUME NEW i \in 1 .. N + 1 PROVE Neutral(t[i]) \/ \E x \in C : t[i] = SnapshotOf(x)
  <2>1. i = 1 \/ i \in 2 .. N + 1
    BY <1>2
  <2> QED BY <1>1, <1>4, <2>1
<1>6. ASSUME NEW x \in C PROVE \E i \in 1 .. N + 1 : t[i] = SnapshotOf(x)
  <2>1. PICK i \in 1 .. N : s[i] = SnapshotOf(x)
    BY <1>1
  <2>2. i + 1 \in 1 .. N + 1 /\ t[i + 1] = SnapshotOf(x)
    BY <1>1, <1>2, <2>1
  <2> QED BY <2>2
<1> QED BY <1>1, <1>3, <1>4, <1>5, <1>6 DEF s, t, C

\* A step of the hub that folds nothing sends snapshots, or nothing that matters.
LEMMA HubFeeds ==
    ASSUME HubInv, HubInv', BoardTypes, OrderInv, JobAll, HubNext, NEW c \in Conns
    PROVE  \/ \E d \in Deliveries : Publish(d)
           \/ /\ UNCHANGED slateVars
              /\ \/ Rests(c)
                 \/ \E bodies \in Seq(Bodies), C \in SUBSET Channels :
                       /\ Feeds(c, bodies, C)
                       /\ \/ held'[c] \subseteq C
                          \/ Open(c) /\ held'[c] \subseteq held[c] \cup C /\ (Curing(c) => Curing(c)')
<1>1. /\ link[c] \in Links /\ link'[c] \in Links /\ SlateTypeOK /\ job[c].channels \in Seq(Channels)
      /\ up[c] \in Seq(Asked) /\ held[c] \in SUBSET Channels /\ NoJob.op = "none"
      /\ Open(c) <=> phase[c] \in {"registered", "serving"}
      /\ Open(c)' <=> phase'[c] \in {"registered", "serving"}
  BY DEF HubInv, TypesInv, ConnTypes, SlateInv, Counted, Open, NoJob
<1>2. CASE Apart(c)
  <2>1. UNCHANGED slateVars /\ Rests(c)
    BY <1>1, <1>2 DEF Apart, Rests, Curing
  <2> QED BY <2>1
<1>3. CASE Restore(c) \/ (Register(c) /\ Closed) \/ Close(c) \/ Unregister(c)
  <2>1. UNCHANGED slateVars /\ phase'[c] \notin {"registered", "serving"}
    BY <1>3, OwnPhases
  <2>2. Carried(link'[c]) \subseteq Carried(link[c])
    <3>1. Restore(c) \/ (Register(c) /\ Closed) \/ Close(c) => link' = link
      BY OwnPhases
    <3>2. Unregister(c) => Carried(link'[c]) \subseteq Carried(link[c])
      BY UnregisterDrops
    <3> QED BY <1>3, <3>1, <3>2
  <2> QED BY <1>1, <2>1, <2>2 DEF Rests
<1>4. CASE Serve(c) \/ Transmit(c)
  <2>1. UNCHANGED <<held, up, job, slateVars>> /\ (Open(c)' => Open(c))
    <3>1. Serve(c) => UNCHANGED <<held, up, job, slateVars>> /\ phase[c] = "registered"
      BY OwnPhases
    <3>2. Transmit(c) => UNCHANGED <<held, up, job, slateVars>> /\ phase' = phase
      BY OwnPhases
    <3> QED BY <1>1, <1>4, <3>1, <3>2
  <2>2. Carried(link'[c]) = Carried(link[c])
    <3>1. Serve(c) => link' = link
      BY OwnPhases
    <3> QED BY <1>4, <3>1, TransmitMoves
  <2> QED BY <2>1, <2>2 DEF Rests, Curing
<1>5. CASE ClassifySubscribe(c) \/ PickResync(c)
  <2>1. /\ up'[c] = Tail(up[c]) /\ up[c] # <<>> /\ job[c] = NoJob
        /\ UNCHANGED <<held, link, phase, slateVars>>
    <3>1. ClassifySubscribe(c) => /\ up'[c] = Tail(up[c]) /\ up[c] # <<>> /\ job[c] = NoJob
                                  /\ UNCHANGED <<held, link, phase, slateVars>>
      BY OwnRequests
    <3>2. PickResync(c) => /\ up'[c] = Tail(up[c]) /\ up[c] # <<>> /\ job[c] = NoJob
                           /\ UNCHANGED <<held, link, phase, slateVars>>
      BY OwnRequests
    <3> QED BY <1>5, <3>1, <3>2
  <2>2. ClassifySubscribe(c) => Head(up[c]).op = "subscribe"
    BY OwnRequests
  <2>3. PickResync(c) => held[c] = {} \/ job'[c].op = "resync"
    <3>1. ASSUME PickResync(c) PROVE Head(up[c]).channels = <<>>
      <4>1. Head(up[c]) = up[c][1] /\ 1 \in DOMAIN up[c]
        BY <1>1, <2>1
      <4>2. Head(up[c]).op = "resync"
        BY <3>1, OwnRequests
      <4> QED BY <4>1, <4>2 DEF BoardTypes
    <3> QED BY <3>1, OwnRequests
  <2>4. ASSUME ClassifySubscribe(c), Curing(c) PROVE Curing(c)'
    <3>1. ASSUME NEW i \in DOMAIN up[c], up[c][i].op = "resync" PROVE Curing(c)'
      <4>1. PICK s \in Seq(Asked) : s = up[c]
        BY <1>1
      <4>2. Head(s) = s[1] /\ s # <<>> /\ i \in DOMAIN s /\ s[i].op = "resync" /\ Head(s).op = "subscribe"
        BY <2>1, <2>2, <2>4, <3>1, <4>1
      <4>3. i - 1 \in DOMAIN Tail(s) /\ Tail(s)[i - 1] = s[i]
        BY <4>2
      <4> QED BY <2>1, <4>1, <4>2, <4>3 DEF Curing
    <3>2. job[c].op # "resync"
      BY <1>1, <2>1
    <3> QED BY <2>1, <2>4, <3>1, <3>2 DEF Curing
  <2>5. Curing(c) => Curing(c)' \/ held[c] = {}
    BY <1>5, <2>3, <2>4 DEF Curing
  <2>6. Open(c)' => Open(c)
    BY <1>1, <2>1
  <2> QED BY <2>1, <2>5, <2>6 DEF Rests
<1>6. ASSUME NEW bodies \in Seq(Bodies), Sent(c, bodies), NEW C \in SUBSET Channels,
             \A i \in 1 .. Len(bodies) : Neutral(bodies[i]) \/ \E x \in C : bodies[i] = SnapshotOf(x),
             \A x \in C : \E i \in 1 .. Len(bodies) : bodies[i] = SnapshotOf(x),
             phase' = phase,
             \/ held'[c] \subseteq C
             \/ held'[c] \subseteq held[c] \cup C /\ (Curing(c) /\ Open(c) => Curing(c)')
      PROVE  \/ Rests(c)
             \/ \E t \in Seq(Bodies), D \in SUBSET Channels :
                       /\ Feeds(c, t, D)
                       /\ \/ held'[c] \subseteq D
                          \/ Open(c) /\ held'[c] \subseteq held[c] \cup D /\ (Curing(c) => Curing(c)')
  <2>1. CASE Open(c)
    <3>1. Feeds(c, bodies, C)
      BY <1>6, <2>1 DEF Feeds, Sent
    <3>2. \/ held'[c] \subseteq C
          \/ Open(c) /\ held'[c] \subseteq held[c] \cup C /\ (Curing(c) => Curing(c)')
      BY <1>6, <2>1
    <3> QED BY <3>1, <3>2
  <2>2. CASE ~Open(c)
    <3>1. link'[c] = link[c] /\ ~Open(c)'
      BY <1>1, <1>6, <2>2 DEF Sent
    <3> QED BY <3>1 DEF Rests
  <2> QED BY <2>1, <2>2
<1>7. ASSUME NEW bodies, Sent(c, bodies), Open(c), ~(job[c].op = "resync"),
             up'[c] = up[c] \/ (up'[c] = Tail(up[c]) /\ up[c] # <<>> /\ Head(up[c]).op # "resync")
      PROVE  Curing(c) => Curing(c)'
  <2>1. Grown(link[c], link'[c], bodies, Len(bodies))
    BY <1>7 DEF Sent
  <2>2. (\E r \in Carried(link[c]) : IsResync(r)) => \E r \in Carried(link'[c]) : IsResync(r)
    BY <2>1 DEF Grown
  <2>3. ASSUME NEW i \in DOMAIN up[c], up[c][i].op = "resync" PROVE Curing(c)'
    <3>1. PICK s \in Seq(Asked) : s = up[c]
      BY <1>1
    <3>2. CASE up'[c] = up[c]
      BY <2>3, <3>2 DEF Curing
    <3>3. CASE up'[c] = Tail(up[c]) /\ up[c] # <<>> /\ Head(up[c]).op # "resync"
      <4>1. s # <<>> /\ i \in DOMAIN s /\ s[i].op = "resync" /\ Head(s).op # "resync"
        BY <2>3, <3>1, <3>3
      <4>2. i # 1
        BY <4>1
      <4>3. i - 1 \in DOMAIN Tail(s) /\ Tail(s)[i - 1] = s[i]
        BY <4>1, <4>2
      <4> QED BY <3>1, <3>3, <4>1, <4>3 DEF Curing
    <3> QED BY <1>7, <3>2, <3>3
  <2> QED BY <1>7, <2>2, <2>3 DEF Curing
<1>8. CASE Register(c) /\ ~Closed
  <2> DEFINE chs == job[c].channels
             t == <<Hello(chs)>> \o Snaps(chs)
             C == Sq!ToSet(chs)
  <2>1. Grown(link[c], link'[c], t, Len(t))
    BY <1>8, RegisterSends
  <2>2. Hello(chs) \in Bodies /\ Neutral(Hello(chs))
    <3> HIDE DEF chs
    <3> QED BY <1>1 DEF Hello, Bodies, Neutral, chs
  <2>3. held'[c] = held[c] \cup C /\ UNCHANGED slateVars /\ phase[c] = "restored"
    BY <1>8, OwnPhases
  <2>4. held[c] = {}
    BY <2>3 DEF HubInv, RoutingInv, HeldLive, LiveExact, LivePhases
  <2>5. /\ \A i \in 1 .. Len(t) : Neutral(t[i]) \/ \E x \in C : t[i] = SnapshotOf(x)
        /\ \A x \in C : \E i \in 1 .. Len(t) : t[i] = SnapshotOf(x)
        /\ t \in Seq(Bodies) /\ C \in SUBSET Channels
    BY <1>1, <2>2, SnapsFeed
  <2> HIDE DEF t, C, chs
  <2>6. Feeds(c, t, C) /\ held'[c] \subseteq C
    BY <2>1, <2>3, <2>4, <2>5 DEF Feeds
  <2> QED BY <2>3, <2>5, <2>6
<1>9. CASE AttachSubscribe(c)
  <2> DEFINE chs == job[c].channels
             b == AckOf("subscribe", chs)
             t == <<b>> \o Snaps(chs)
             C == Sq!ToSet(chs)
  <2>1. Sent(c, t)
    BY <1>9, AttachSubscribeSends
  <2>2. b \in Bodies /\ Neutral(b)
    BY <1>1 DEF AckOf, Bodies, Neutral
  <2>3. held'[c] = held[c] \cup C /\ UNCHANGED <<up, phase, slateVars>> /\ job[c].op = "subscribe"
    BY <1>9, OwnRequests
  <2>4. /\ \A i \in 1 .. Len(t) : Neutral(t[i]) \/ \E x \in C : t[i] = SnapshotOf(x)
        /\ \A x \in C : \E i \in 1 .. Len(t) : t[i] = SnapshotOf(x)
        /\ t \in Seq(Bodies) /\ C \in SUBSET Channels
    BY <1>1, <2>2, SnapsFeed
  <2> HIDE DEF t, C, b, chs
  <2>5. Curing(c) /\ Open(c) => Curing(c)'
    <3>1. up'[c] = up[c] /\ ~(job[c].op = "resync")
      BY <2>3
    <3> QED BY <1>7, <2>1, <3>1
  <2> QED BY <1>6, <2>1, <2>3, <2>4, <2>5
<1>10. CASE AttachResync(c)
  <2> DEFINE chs == job[c].channels
             t == Snaps(chs)
             C == Sq!ToSet(chs)
  <2>1. Sent(c, t)
    BY <1>10, AttachResyncSends
  <2>2. GoingAway \in Bodies /\ Neutral(GoingAway)
    BY DEF GoingAway, Bodies, Neutral
  <2>3. held' = held /\ UNCHANGED <<phase, slateVars>> /\ job[c].op = "resync"
    BY <1>10, OwnRequests
  <2>4. /\ \A i \in 1 .. Len(t) : \E x \in C : t[i] = SnapshotOf(x)
        /\ \A x \in C : \E i \in 1 .. Len(t) : t[i] = SnapshotOf(x)
        /\ t \in Seq(Bodies) /\ C \in SUBSET Channels
    BY <1>1, <2>2, SnapsFeed
  <2>5. held'[c] = C
    BY <2>3 DEF JobAll
  <2> HIDE DEF t, C, chs
  <2> QED BY <1>6, <2>1, <2>3, <2>4, <2>5
<1>11. CASE Unsubscribe(c)
  <2> DEFINE b == AckOf("unsubscribe", Dropped(c))
             t == <<b>>
  <2>1. Sent(c, t) /\ Dropped(c) \in Seq(Channels) /\ held'[c] \subseteq held[c]
    <3>1. held \in [Conns -> SUBSET Channels]
      BY DEF HubInv, TypesInv, Counted
    <3> QED BY <1>11, <3>1, UnsubscribeSends
  <2>2. b \in Bodies /\ Neutral(b)
    BY <2>1 DEF AckOf, Bodies, Neutral
  <2>3. /\ up'[c] = Tail(up[c]) /\ up[c] # <<>> /\ Head(up[c]).op = "unsubscribe" /\ job[c] = NoJob
        /\ UNCHANGED <<phase, slateVars>>
    BY <1>11, OwnRequests
  <2> HIDE DEF b
  <2>4. t \in Seq(Bodies) /\ Len(t) = 1 /\ \A i \in 1 .. Len(t) : t[i] = b
    BY <2>2
  <2> HIDE DEF t
  <2>5. Curing(c) /\ Open(c) => Curing(c)'
    BY <1>1, <1>7, <2>1, <2>3
  <2>6. {} \in SUBSET Channels /\ \A i \in 1 .. Len(t) : Neutral(t[i])
    BY <2>2, <2>4
  <2> QED BY <1>6, <2>1, <2>3, <2>4, <2>5, <2>6
<1> QED BY <1>2, <1>3, <1>4, <1>5, <1>8, <1>9, <1>10, <1>11, HubActs DEF Own

\* A fold that is not published leaves the slate as it is.
LEMMA Unpublished ==
    ASSUME SlateInv, NEW d \in Deliveries, Fold(d), ~Changed(result')
    PROVE  slate' = slate
<1>1. slate \in [Markets -> Entries \cup {Absent}]
  BY DEF SlateInv, SlateTypeOK
<1>2. CASE Reject(d) \/ RefuseType(d) \/ Skip(d)
  BY <1>2 DEF Reject, RefuseType, Skip, Keep
<1>3. ~Put(d)
  BY DEF Put, Outcome, Changed
<1>4. CASE Remove(d)
  <2>1. /\ slate' = [slate EXCEPT ![d.market] = Absent] /\ result'.outcome = "removed"
        /\ result'.channels = IF slate[d.market] = Absent THEN {} ELSE ChannelsFor(d.market, slate[d.market])
    BY <1>4 DEF Remove, Outcome
  <2>2. slate[d.market] # Absent => result'.channels # {}
    BY <2>1 DEF ChannelsFor
  <2>3. slate[d.market] = Absent
    BY <2>1, <2>2 DEF Changed
  <2> QED BY <1>1, <2>1, <2>3
<1> QED BY <1>2, <1>3, <1>4 DEF Fold

\* What a record that is published is about: a route its market may have.
LEMMA PublishedRoute ==
    ASSUME SlateInv, RoutesHeld, NEW d \in Deliveries, Fold(d), Changed(result')
    PROVE  \E m \in Markets, entry \in Entries : \E r \in Routes[m] :
              /\ r.event = entry.event /\ r.league = entry.league
              /\ result'.market = m /\ result'.channels = ChannelsFor(m, entry)
              /\ Stored(m, entry) \/ Removed(m, entry)
<1>1. PICK m \in Markets, entry \in Entries :
              /\ result'.market = m /\ result'.channels = ChannelsFor(m, entry)
              /\ \/ Stored(m, entry) /\ d \in Documents /\ d.market = m /\ entry = EntryOf(d)
                 \/ Removed(m, entry)
  BY Published
<1>2. CASE Stored(m, entry) /\ d \in Documents /\ d.market = m /\ entry = EntryOf(d)
  <2>1. d.route \in Routes[m] /\ d.route.event = entry.event /\ d.route.league = entry.league
    BY <1>2 DEF Documents, EntryOf
  <2> QED BY <1>1, <1>2, <2>1
<1>3. CASE Removed(m, entry)
  <2>1. entry # Absent
    BY EntryNotAbsent
  <2>2. slate[m] = entry
    BY <1>3 DEF Removed
  <2> QED BY <1>1, <1>3, <2>1, <2>2 DEF RoutesHeld
<1> QED BY <1>1, <1>2, <1>3

LEMMA RoutesStep ==
    ASSUME SlateInv, RoutesHeld, NEW d \in Deliveries, Fold(d)
    PROVE  RoutesHeld'
<1>1. slate \in [Markets -> Entries \cup {Absent}]
  BY DEF SlateInv, SlateTypeOK
<1>2. CASE ~Changed(result')
  BY <1>2, Unpublished DEF RoutesHeld
<1>3. CASE Changed(result')
  <2>1. PICK m \in Markets, entry \in Entries : \E r \in Routes[m] :
              /\ r.event = entry.event /\ r.league = entry.league
              /\ Stored(m, entry) \/ Removed(m, entry)
    BY <1>3, PublishedRoute
  <2>2. slate'[m] \in {entry, Absent} /\ \A n \in Markets : n # m => slate'[n] = slate[n]
    BY <1>1, <2>1 DEF Stored, Removed
  <2> QED BY <2>1, <2>2 DEF RoutesHeld
<1> QED BY <1>2, <1>3

\* What a step of the hub sends is in scope.
LEMMA ScopeHub ==
    ASSUME HubInv, HubInv', BoardTypes, OrderInv, JobAll, ScopeInv, HubNext, NEW c \in Conns
    PROVE  RoutesHeld' /\ \A f \in Carried(link'[c]) : Scoped(f.body)
<1>1. /\ SlateInv /\ RoutesHeld /\ \A f \in Carried(link[c]) : Scoped(f.body)
      /\ SlateTypeOK
  BY DEF HubInv, ScopeInv, SlateInv
<1>2. \A b : Neutral(b) => Scoped(b)
  BY DEF Neutral, Scoped
<1>3. Scoped(ResyncNotice)
  BY DEF ResyncNotice, Scoped
<1>4. ASSUME NEW bodies, Grown(link[c], link'[c], bodies, Len(bodies)), \A i \in 1 .. Len(bodies) : Scoped(bodies[i])
      PROVE  \A f \in Carried(link'[c]) : Scoped(f.body)
  BY <1>1, <1>3, <1>4 DEF Grown
<1>5. \A ch \in Channels : Scoped(SnapshotOf(ch))
  <2> SUFFICES ASSUME NEW ch \in Channels PROVE Scoped(SnapshotOf(ch))
    OBVIOUS
  <2>1. /\ SnapshotOf(ch).kind = "snapshot" /\ SnapshotOf(ch).ch = ch
        /\ DOMAIN SnapshotOf(ch).markets = SnapshotMarkets(ch)
    BY DEF SnapshotOf, Snapshot
  <2>2. SnapshotMarkets(ch) \subseteq Markets
    BY DEF SnapshotMarkets, Held
  <2>3. \A m \in SnapshotMarkets(ch) : ch \in Scope(m)
    BY <1>1, <2>2, SnapshotTells
  <2> QED BY <2>1, <2>3 DEF Scoped
<1>6. ASSUME NEW d \in Deliveries, Publish(d)
      PROVE  RoutesHeld' /\ \A f \in Carried(link'[c]) : Scoped(f.body)
  <2>1. Fold(d) /\ (Changed(result') => Sent(c, Fanout(c, result'))) /\ (~Changed(result') => link'[c] = link[c])
    BY <1>6, PublishSends
  <2>2. RoutesHeld'
    BY <1>1, <2>1, RoutesStep
  <2>3. CASE ~Changed(result')
    BY <1>1, <2>1, <2>2, <2>3
  <2>4. CASE Changed(result')
    <3>1. PICK m \in Markets, entry \in Entries : \E r \in Routes[m] :
                /\ r.event = entry.event /\ r.league = entry.league
                /\ result'.market = m /\ result'.channels = ChannelsFor(m, entry)
                /\ Stored(m, entry) \/ Removed(m, entry)
      BY <1>1, <2>1, <2>4, PublishedRoute
    <3>2. result'.channels \subseteq Scope(m) /\ result'.market = m
      BY <3>1, ScopeFacts
    <3>3. \A ch \in Scope(m) : Scoped(BodyFor(result', ch))
      BY <3>2 DEF BodyFor, Delta, Removal, Scoped
    <3> DEFINE t == Fanout(c, result')
    <3>4. \A i \in 1 .. Len(t) : \E ch \in result'.channels \cap held[c] : t[i] = BodyFor(result', ch)
      BY <2>1, <2>4, FanoutFacts
    <3>5. Sent(c, t)
      BY <2>1, <2>4
    <3> HIDE DEF t
    <3>6. \A i \in 1 .. Len(t) : Scoped(t[i])
      BY <3>2, <3>3, <3>4
    <3>7. \A f \in Carried(link'[c]) : Scoped(f.body)
      <4>1. CASE Open(c)
        BY <1>4, <3>5, <3>6, <4>1 DEF Sent
      <4>2. CASE ~Open(c)
        BY <1>1, <3>5, <4>2 DEF Sent
      <4> QED BY <4>1, <4>2
    <3> QED BY <2>2, <3>7
  <2> QED BY <2>3, <2>4
<1>7. CASE UNCHANGED slateVars /\ Rests(c)
  <2>1. RoutesHeld'
    BY <1>1, <1>7 DEF RoutesHeld, slateVars
  <2> QED BY <1>1, <1>7, <2>1 DEF Rests
<1>8. ASSUME UNCHANGED slateVars, NEW bodies \in Seq(Bodies), NEW C \in SUBSET Channels, Feeds(c, bodies, C)
      PROVE  RoutesHeld' /\ \A f \in Carried(link'[c]) : Scoped(f.body)
  <2>1. RoutesHeld'
    BY <1>1, <1>8 DEF RoutesHeld, slateVars
  <2>2. \A i \in 1 .. Len(bodies) : Scoped(bodies[i])
    BY <1>2, <1>5, <1>8 DEF Feeds
  <2> QED BY <1>4, <1>8, <2>1, <2>2 DEF Feeds
<1> QED BY <1>6, <1>7, <1>8, HubFeeds

\* What the store applies is in scope, if the frame is.
LEMMA ScopeApplies ==
    ASSUME NEW b \in Bodies, Scoped(b), Apply(b), \A ch \in DOMAIN members : \A m \in members[ch] : ch \in Scope(m)
    PROVE  \A ch \in DOMAIN members' : \A m \in members'[ch] : ch \in Scope(m)
<1>1. CASE b.kind = "snapshot"
  <2>1. members' = [ch \in DOMAIN members \cup {b.ch} |-> IF ch = b.ch THEN DOMAIN b.markets ELSE members[ch]]
    BY <1>1 DEF Apply, ApplySnapshot
  <2>2. \A m \in DOMAIN b.markets : b.ch \in Scope(m)
    BY <1>1 DEF Scoped
  <2> HIDE DEF Scope
  <2> QED BY <2>1, <2>2
<1>2. CASE b.kind = "delta"
  <2>1. members' = [ch \in DOMAIN members \cup {b.ch} |->
                         IF ch = b.ch THEN Members(ch) \cup {b.market} ELSE members[ch]]
    BY <1>2 DEF Apply, ApplyDelta
  <2>2. b.ch \in Scope(b.market)
    BY <1>2 DEF Scoped
  <2> HIDE DEF Scope
  <2> QED BY <2>1, <2>2 DEF Members
<1>3. CASE b.kind = "removal"
  <2>1. members' = IF markets[b.market] = Absent THEN members
                   ELSE [ch \in DOMAIN members |-> members[ch] \ {b.market}]
    BY <1>3 DEF Apply, ApplyRemoval
  <2> HIDE DEF Scope
  <2> QED BY <2>1
<1>4. CASE b.kind \notin {"snapshot", "delta", "removal"}
  <2>1. members' = members
    BY <1>4 DEF Apply
  <2> QED BY <2>1
<1> QED BY <1>1, <1>2, <1>3, <1>4

\* Channels list only what may be published on them.
LEMMA ScopeStep ==
    ASSUME BoardStart, BoardStart', OrderInv, JobAll, ScopeInv, [BoardNext]_boardGatewayVars
    PROVE  ScopeInv'
<1>1. HubInv /\ HubInv' /\ BoardTypes /\ ConnTypes
  BY DEF BoardStart, HubInv, TypesInv
<1>2. /\ \A ch \in DOMAIN members : \A m \in members[ch] : ch \in Scope(m)
      /\ \A c \in Conns : link[c] \in Links /\ Ordered(link[c]) /\ \A f \in Carried(link[c]) : Scoped(f.body)
  BY <1>1 DEF ScopeInv, ConnTypes, OrderInv
<1> SUFFICES /\ RoutesHeld'
             /\ \A ch \in DOMAIN members' : \A m \in members'[ch] : ch \in Scope(m)
             /\ \A c \in Conns : \A f \in Carried(link'[c]) : Scoped(f.body)
  BY DEF ScopeInv
<1>3. CASE HubNext /\ UNCHANGED boardVars
  <2>1. RoutesHeld'
    <3>1. CASE Conns = {}
      <4>1. PICK d \in Deliveries : Publish(d)
        BY <1>3, <3>1 DEF HubNext
      <4>2. Fold(d) /\ SlateInv /\ RoutesHeld
        BY <1>1, <4>1 DEF Publish, HubInv, ScopeInv
      <4> QED BY <4>2, RoutesStep
    <3>2. CASE Conns # {}
      BY <1>1, <1>3, <3>2, ScopeHub
    <3> QED BY <3>1, <3>2
  <2>2. \A c \in Conns : \A f \in Carried(link'[c]) : Scoped(f.body)
    BY <1>1, <1>3, ScopeHub
  <2> QED BY <1>2, <1>3, <2>1, <2>2 DEF boardVars
<1>4. CASE UNCHANGED slateVars /\ \A c \in Conns : Carried(link'[c]) \subseteq Carried(link[c])
  <2>1. RoutesHeld'
    BY <1>4 DEF RoutesHeld, ScopeInv, slateVars
  <2>2. \A c \in Conns : \A f \in Carried(link'[c]) : Scoped(f.body)
    BY <1>2, <1>4
  <2>3. CASE Message
    <3>1. /\ socket \in Conns /\ Apply(First.body) /\ First \in Frames /\ link[socket].wire # <<>>
      BY <1>1, <2>3, MessageFacts
    <3>2. PICK c \in Conns, l \in Links : c = socket /\ l = link[c]
      BY <1>2, <3>1
    <3>3. First \in Sq!ToSet(l.wire)
      <4>1. l.wire \in Seq(Frames) /\ l.wire # <<>> /\ First = Head(l.wire)
        BY <3>1, <3>2 DEF Links, LinksOf, Frames, First
      <4>2. Head(l.wire) = l.wire[1] /\ 1 \in DOMAIN l.wire
        BY <4>1
      <4> QED BY <4>1, <4>2 DEF Sq!ToSet
    <3>4. Scoped(First.body) /\ First.body \in Bodies
      BY <1>2, <3>1, <3>2, <3>3 DEF Carried, Frames, FramesOf
    <3>5. \A ch \in DOMAIN members' : \A m \in members'[ch] : ch \in Scope(m)
      BY <1>2, <3>1, <3>4, ScopeApplies
    <3> QED BY <2>1, <2>2, <3>5
  <2>4. CASE members' = members
    BY <1>2, <2>1, <2>2, <2>4
  <2>5. CASE members' = NoMembers
    BY <2>1, <2>2, <2>5 DEF NoMembers
  <2>6. Message \/ members' = members \/ members' = NoMembers
    BY DEF BoardNext, boardVars, Opens, Closes, Wants, boardGatewayVars
  <2> QED BY <2>3, <2>4, <2>5, <2>6
<1>5. CASE Message
  <2>1. /\ socket \in Conns /\ link[socket].wire # <<>> /\ UNCHANGED slateVars
        /\ link' = [link EXCEPT ![socket] = [seq |-> link[socket].seq, queue |-> link[socket].queue,
                                             wire |-> Tail(link[socket].wire)]]
        /\ link' \in [Conns -> Links] /\ link \in [Conns -> Links]
    BY <1>1, <1>5, MessageFacts DEF ConnTypes
  <2>2. ASSUME NEW c \in Conns PROVE Carried(link'[c]) \subseteq Carried(link[c])
    <3>1. CASE c # socket
      BY <2>1, <3>1
    <3>2. CASE c = socket
      <4>1. PICK l \in Links, k \in Links : l = link[c] /\ k = link'[c] /\ Ordered(l)
        BY <1>2, <2>1
      <4>2. k.seq = l.seq /\ k.wire = Tail(l.wire) /\ k.queue = l.queue /\ l.wire # <<>>
        <5> DEFINE x == [seq |-> l.seq, queue |-> l.queue, wire |-> Tail(l.wire)]
        <5>1. x.seq = l.seq /\ x.queue = l.queue /\ x.wire = Tail(l.wire)
          OBVIOUS
        <5>2. link' = [link EXCEPT ![c] = x]
          BY <2>1, <3>2, <4>1
        <5> HIDE DEF x
        <5>3. link'[c] = x
          BY <2>1, <5>2
        <5> QED BY <2>1, <3>2, <4>1, <5>1, <5>3
      <4>3. Carried(l) = Carried(k) \cup {Head(l.wire)}
        BY <4>1, <4>2, FirstTaken
      <4> QED BY <4>1, <4>3
    <3> QED BY <3>1, <3>2
  <2> QED BY <1>4, <2>1, <2>2
<1>6. CASE Closes
  <2>1. /\ socket \in Conns /\ UNCHANGED slateVars /\ link \in [Conns -> Links]
        /\ link' = [link EXCEPT ![socket] = [seq |-> link[socket].seq, queue |-> link[socket].queue, wire |-> <<>>]]
    BY <1>1, <1>6, ClosesFacts DEF ConnTypes
  <2>2. ASSUME NEW c \in Conns PROVE Carried(link'[c]) \subseteq Carried(link[c])
    <3> DEFINE x == [seq |-> link[socket].seq, queue |-> link[socket].queue, wire |-> <<>>]
    <3>1. x.queue = link[socket].queue /\ x.wire = <<>>
      OBVIOUS
    <3>2. link' = [link EXCEPT ![socket] = x]
      BY <2>1
    <3> HIDE DEF x
    <3>3. link'[c] = IF c = socket THEN x ELSE link[c]
      BY <2>1, <3>2
    <3>4. Sq!ToSet(<<>>) = {}
      BY DEF Sq!ToSet
    <3> QED BY <3>1, <3>3, <3>4 DEF Carried
  <2> QED BY <1>4, <2>1, <2>2
<1>7. CASE UNCHANGED <<slateVars, link>>
  BY <1>4, <1>7
<1>8. (\E c \in Conns : Opens(c)) \/ (\E ch \in Restorable : Wants(ch)) \/ UNCHANGED boardGatewayVars
        => UNCHANGED <<slateVars, link>>
  BY DEF Opens, Wants, boardGatewayVars, gatewayVars, connVars
<1> QED BY <1>3, <1>5, <1>6, <1>7, <1>8 DEF BoardNext

\* Unless a resync is due, what the browser has and what is on its way make the slate.
CoherentInv ==
    \A c \in Conns : socket = c /\ Open(c) /\ ~Curing(c) => Coherent(Carried(link[c]), held[c])

LEMMA CoherentKept ==
    ASSUME NEW F, NEW H, NEW G, NEW J, Coherent(F, H), G = F, J \subseteq H, slate' = slate,
           UNCHANGED <<markets, members>>
    PROVE  Coherent(G, J)'
BY DEF Coherent, Members, Document, Membership

\* A fold that is published is told on every channel of the market.
LEMMA CoherentPublished ==
    ASSUME HubInv, HubInv', OrderInv, ScopeInv, RoutesFixed, NEW d \in Deliveries, Publish(d),
           UNCHANGED <<markets, members>>, NEW c \in Conns, Open(c), Coherent(Carried(link[c]), held[c]),
           \A r \in Carried(link'[c]) : ~IsResync(r),
           NEW G, G = Carried(link'[c]), NEW J, J = held'[c]
    PROVE  Coherent(G, J)'
<1>1. /\ link[c] \in Links /\ link'[c] \in Links /\ Ordered(link[c]) /\ SlateInv /\ RoutesHeld
      /\ slate \in [Markets -> Entries \cup {Absent}] /\ slate' \in [Markets -> Entries \cup {Absent}]
      /\ held[c] \in SUBSET Channels /\ J = held[c]
  BY DEF HubInv, TypesInv, ConnTypes, OrderInv, ScopeInv, SlateInv, SlateTypeOK, Counted, Publish, hubVars
<1>2. Fold(d) /\ (Changed(result') => Sent(c, Fanout(c, result'))) /\ (~Changed(result') => link'[c] = link[c])
  BY PublishSends
<1>3. CASE ~Changed(result')
  BY <1>1, <1>2, <1>3, Unpublished, CoherentKept
<1>4. CASE Changed(result')
  <2> DEFINE t == Fanout(c, result')
  <2>1. PICK m \in Markets, entry \in Entries : \E r \in Routes[m] :
              /\ r.event = entry.event /\ r.league = entry.league
              /\ result'.market = m /\ result'.channels = ChannelsFor(m, entry)
              /\ Stored(m, entry) \/ Removed(m, entry)
    BY <1>1, <1>2, <1>4, PublishedRoute
  <2>2. PICK r \in Routes[m] : r.event = entry.event /\ r.league = entry.league
    BY <2>1
  <2>3. /\ t \in Seq(Bodies)
        /\ \A i \in 1 .. Len(t) : \E ch \in result'.channels \cap held[c] : t[i] = BodyFor(result', ch)
        /\ \A ch \in result'.channels \cap held[c] : \E i \in 1 .. Len(t) : t[i] = BodyFor(result', ch)
    BY <1>2, <1>4, FanoutFacts
  <2>4. Grown(link[c], link'[c], t, Len(t))
    BY <1>2, <1>4 DEF Sent
  <2> HIDE DEF t
  <2>5. PICK l \in Links, k \in Links : l = link[c] /\ k = link'[c]
    BY <1>1
  <2>6. Whole(l, k, t) /\ Coherent(Carried(l), J) /\ G = Carried(k)
    BY <1>1, <2>3, <2>4, <2>5, GrownWhole
  <2>7. /\ \A i \in 1 .. Len(t) : \E ch \in ChannelsFor(m, entry) \cap J : t[i] = BodyFor(result', ch)
        /\ \A ch \in ChannelsFor(m, entry) \cap J : \E i \in 1 .. Len(t) : t[i] = BodyFor(result', ch)
    BY <1>1, <2>1, <2>3
  <2>8. entry # Absent
    BY EntryNotAbsent
  <2>9. ASSUME NEW n \in Markets, NEW ch \in J, ch \in Scope(n)
        PROVE  Document(Carried(k), n, markets[n], slate'[n]) /\ Membership(Carried(k), ch, n, Members(ch), slate'[n])
    <3>1. /\ J \in SUBSET Channels /\ Whole(l, k, t) /\ Coherent(Carried(l), J) /\ r \in Routes[m]
          /\ slate' \in [Markets -> Entries \cup {Absent}] /\ slate \in [Markets -> Entries \cup {Absent}]
          /\ r.event = entry.event /\ r.league = entry.league /\ result'.market = m
      BY <1>1, <2>1, <2>2, <2>6
    <3>2. Stored(m, entry) \/ Removed(m, entry)
      BY <2>1
    <3> HIDE DEF Stored, Removed, Scope, ChannelsFor
    <3> QED BY <2>7, <2>8, <2>9, <3>1, <3>2, CoherentPublish
  <2>10. markets' = markets /\ members' = members
    OBVIOUS
  <2> QED BY <2>6, <2>9, <2>10 DEF Coherent, Members, Document, Membership
<1> QED BY <1>3, <1>4

\* The hub keeps the browser and its link together equal to the slate.
LEMMA CoherentHub ==
    ASSUME HubInv, HubInv', BoardTypes, OrderInv, JobAll, ScopeInv, RoutesFixed, HubNext,
           UNCHANGED <<markets, members>>, NEW c \in Conns,
           Open(c) /\ ~Curing(c) => Coherent(Carried(link[c]), held[c]), Open(c)', ~Curing(c)',
           NEW G, G = Carried(link'[c]), NEW J, J = held'[c]
    PROVE  Coherent(G, J)'
<1>1. /\ link[c] \in Links /\ link'[c] \in Links /\ Ordered(link[c]) /\ SlateInv /\ RoutesHeld
      /\ held[c] \in SUBSET Channels /\ \A r \in G : ~IsResync(r)
  BY DEF HubInv, TypesInv, ConnTypes, OrderInv, ScopeInv, Counted, Curing
<1>2. ASSUME NEW d \in Deliveries, Publish(d) PROVE Coherent(G, J)'
  <2>1. phase' = phase /\ up' = up /\ job' = job
    BY <1>2 DEF Publish
  <2>2. Open(c)
    BY <2>1 DEF Open
  <2>3. (Changed(result') => Sent(c, Fanout(c, result'))) /\ (~Changed(result') => link'[c] = link[c])
    BY <1>2, PublishSends
  <2>4. (\E r \in Carried(link[c]) : IsResync(r)) => \E r \in G : IsResync(r)
    BY <2>2, <2>3 DEF Sent, Grown
  <2>5. ~Curing(c)
    BY <1>1, <2>1, <2>4 DEF Curing
  <2> QED BY <1>1, <1>2, <2>2, <2>5, CoherentPublished
<1>3. CASE UNCHANGED slateVars /\ Rests(c)
  <2>1. /\ slate' = slate /\ J = held[c] /\ G = Carried(link[c]) /\ Open(c)
        /\ ~Curing(c) \/ held[c] = {}
    BY <1>3 DEF slateVars, Rests
  <2>2. CASE ~Curing(c)
    BY <2>1, <2>2, CoherentKept
  <2>3. CASE held[c] = {}
    BY <2>1, <2>3 DEF Coherent
  <2> QED BY <2>1, <2>2, <2>3
<1>4. ASSUME UNCHANGED slateVars, NEW bodies \in Seq(Bodies), NEW C \in SUBSET Channels, Feeds(c, bodies, C),
             \/ held'[c] \subseteq C
             \/ Open(c) /\ held'[c] \subseteq held[c] \cup C /\ (Curing(c) => Curing(c)')
      PROVE  Coherent(G, J)'
  <2>1. PICK l \in Links, k \in Links : l = link[c] /\ k = link'[c]
    BY <1>1
  <2>2. Whole(l, k, bodies) /\ G = Carried(k)
    BY <1>1, <1>4, <2>1, GrownWhole DEF Feeds
  <2>3. PICK H : Coherent(Carried(l), H) /\ J \subseteq H \cup C
    <3>1. CASE J \subseteq C
      <4>1. Coherent(Carried(l), {})
        BY DEF Coherent
      <4> QED BY <3>1, <4>1
    <3>2. CASE ~(J \subseteq C)
      BY <1>4, <2>1, <3>2
    <3> QED BY <3>1, <3>2
  <2>4. Coherent(G, J)
    BY <1>1, <1>4, <2>2, <2>3, CoherentSnaps DEF Feeds
  <2>5. slate' = slate
    BY <1>4 DEF slateVars
  <2> QED BY <2>4, <2>5, CoherentKept
<1> QED BY <1>2, <1>3, <1>4, HubFeeds

\* What the store does with a body is what the body says.
LEMMA AppliesTells ==
    ASSUME StoreTypes, NEW b \in Bodies, Apply(b), NEW m \in Markets
    PROVE  markets'[m] = IF Tells(b, m) THEN Says(b, m) ELSE markets[m]
<1>1. markets \in [Markets -> Entries \cup {Absent}]
  BY DEF StoreTypes
<1>2. CASE b.kind = "snapshot"
  BY <1>1, <1>2 DEF Apply, ApplySnapshot, Tells, Says
<1>3. CASE b.kind = "delta"
  BY <1>1, <1>3 DEF Apply, ApplyDelta, Tells, Says
<1>4. CASE b.kind = "removal"
  BY <1>1, <1>4 DEF Apply, ApplyRemoval, Tells, Says
<1>5. CASE b.kind \notin {"snapshot", "delta", "removal"}
  BY <1>5 DEF Apply, Tells
<1> QED BY <1>2, <1>3, <1>4, <1>5

\* What a body does to the members of a channel.
LEMMA AppliesPlaces ==
    ASSUME StoreTypes, NEW b \in Bodies, Apply(b), NEW m \in Markets, NEW ch
    PROVE  m \in Members(ch)' <=> IF Places(b, ch, m) THEN Placed(b, m) ELSE m \in Members(ch)
<1>1. \A x \in DOMAIN members : m \in members[x] => markets[m] # Absent
  BY DEF StoreTypes
<1>2. CASE b.kind = "snapshot"
  BY <1>2 DEF Apply, ApplySnapshot, Places, Placed, Members
<1>3. CASE b.kind = "delta"
  BY <1>3 DEF Apply, ApplyDelta, Places, Placed, Members
<1>4. CASE b.kind = "removal"
  <2>1. members' = IF markets[b.market] = Absent THEN members
                   ELSE [x \in DOMAIN members |-> members[x] \ {b.market}]
    BY <1>4 DEF Apply, ApplyRemoval
  <2>2. CASE markets[b.market] = Absent
    BY <1>1, <1>4, <2>1, <2>2 DEF Places, Placed, Members
  <2>3. CASE markets[b.market] # Absent
    BY <1>4, <2>1, <2>3 DEF Places, Placed, Members
  <2> QED BY <2>2, <2>3
<1>5. CASE b.kind \notin {"snapshot", "delta", "removal"}
  BY <1>5 DEF Apply, Places, Members
<1> QED BY <1>2, <1>3, <1>4, <1>5

\* A frame that is taken leaves the rest of the story.
LEMMA DocumentTaken ==
    ASSUME NEW F, NEW G, NEW h, F = G \cup {h}, h.seq \in Nat, \A g \in G : g.seq \in Nat /\ h.seq < g.seq,
           NEW m, NEW doc, NEW e, Document(F, m, doc, e),
           NEW new, new = IF Tells(h.body, m) THEN Says(h.body, m) ELSE doc
    PROVE  Document(G, m, new, e)
<1> SUFFICES ASSUME e # Absent
             PROVE  /\ (\A f \in G : ~Tells(f.body, m)) => new = e
                    /\ \A f \in G : Tells(f.body, m) /\ (\A g \in G : Tells(g.body, m) => g.seq <= f.seq)
                                      => Says(f.body, m) = e
  BY DEF Document
<1>1. /\ (\A f \in F : ~Tells(f.body, m)) => doc = e
      /\ \A f \in F : Tells(f.body, m) /\ (\A g \in F : Tells(g.body, m) => g.seq <= f.seq) => Says(f.body, m) = e
  BY DEF Document
<1>2. ASSUME \A f \in G : ~Tells(f.body, m) PROVE new = e
  BY <1>1, <1>2
<1>3. ASSUME NEW f \in G, Tells(f.body, m), \A g \in G : Tells(g.body, m) => g.seq <= f.seq
      PROVE  Says(f.body, m) = e
  <2>1. \A g \in F : Tells(g.body, m) => g.seq <= f.seq
    BY <1>3
  <2> QED BY <1>1, <1>3, <2>1
<1> QED BY <1>2, <1>3

\* What the first frame said of the members, they say after it.
LEMMA MembershipTaken ==
    ASSUME NEW F, NEW G, NEW h, F = G \cup {h}, h.seq \in Nat, \A g \in G : g.seq \in Nat /\ h.seq < g.seq,
           NEW ch, NEW m, NEW M, NEW e, Membership(F, ch, m, M, e),
           NEW N, m \in N <=> IF Places(h.body, ch, m) THEN Placed(h.body, m) ELSE m \in M
    PROVE  Membership(G, ch, m, N, e)
<1>1. /\ (\A f \in F : ~Places(f.body, ch, m)) => (m \in M <=> e # Absent)
      /\ \A f \in F : Places(f.body, ch, m) /\ (\A g \in F : Places(g.body, ch, m) => g.seq <= f.seq)
                        => (Placed(f.body, m) <=> e # Absent)
  BY DEF Membership
<1>2. ASSUME \A f \in G : ~Places(f.body, ch, m) PROVE m \in N <=> e # Absent
  BY <1>1, <1>2
<1>3. ASSUME NEW f \in G, Places(f.body, ch, m), \A g \in G : Places(g.body, ch, m) => g.seq <= f.seq
      PROVE  Placed(f.body, m) <=> e # Absent
  <2>1. \A g \in F : Places(g.body, ch, m) => g.seq <= f.seq
    BY <1>3
  <2> QED BY <1>1, <1>3, <2>1
<1> QED BY <1>2, <1>3 DEF Membership

\* The socket's link when the browser takes its first frame.
LEMMA MessageLink ==
    ASSUME HubInv, BoardTypes, OrderInv, Message, NEW c \in Conns, socket = c
    PROVE  /\ First.seq \in Nat /\ First.body \in Bodies /\ link[c].wire # <<>>
           /\ Carried(link[c]) = Carried(link'[c]) \cup {First}
           /\ \A f \in Carried(link'[c]) : f.seq \in Nat /\ First.seq < f.seq
<1>1. /\ link[c].wire # <<>> /\ link[c] \in Links /\ link'[c] \in Links /\ Ordered(link[c])
      /\ link' = [link EXCEPT ![c] = [seq |-> link[c].seq, queue |-> link[c].queue, wire |-> Tail(link[c].wire)]]
      /\ First \in Frames /\ link \in [Conns -> Links]
  BY MessageFacts DEF OrderInv, HubInv, TypesInv, ConnTypes
<1>2. PICK l \in Links, k \in Links : l = link[c] /\ k = link'[c]
  BY <1>1
<1>3. k.seq = l.seq /\ k.wire = Tail(l.wire) /\ k.queue = l.queue /\ l.wire # <<>> /\ First = Head(l.wire)
  <2> DEFINE x == [seq |-> l.seq, queue |-> l.queue, wire |-> Tail(l.wire)]
  <2>1. x.seq = l.seq /\ x.queue = l.queue /\ x.wire = Tail(l.wire)
    OBVIOUS
  <2>2. link' = [link EXCEPT ![c] = x]
    BY <1>1, <1>2
  <2> HIDE DEF x
  <2>3. link'[c] = x
    BY <1>1, <2>2
  <2> QED BY <1>1, <1>2, <2>1, <2>3 DEF First
<1>4. Ordered(k) /\ Carried(l) = Carried(k) \cup {First} /\ \A f \in Carried(k) : First.seq < f.seq
  BY <1>1, <1>2, <1>3, FirstTaken
<1>5. \A f \in Carried(k) : f.seq \in Nat
  BY <1>4, NumbersOnce
<1> QED BY <1>1, <1>2, <1>4, <1>5 DEF Frames, FramesOf

\* Unless a resync is due, the frame the browser takes is the one it expects.
LEMMA NothingMissed ==
    ASSUME BoardStart, OrderInv, HoleInv, Message, NEW c \in Conns, socket = c, Open(c), ~Curing(c)'
    PROVE  ~Gapped(First) /\ ~Curing(c) /\ \A f \in Carried(link[c]) : ~IsResync(f)
<1>1. HubInv /\ BoardTypes
  BY DEF BoardStart
<1>2. /\ First.seq \in Nat /\ Carried(link[c]) = Carried(link'[c]) \cup {First}
      /\ job' = job /\ Answered(up'[c]) /\ up[c] \in Seq(Asked)
      /\ socket # None /\ First \in Carried(link[c])
  BY <1>1, MessageLink, MessageFacts DEF Message
<1>3. /\ \A f \in Carried(link'[c]) : ~IsResync(f)
      /\ \A i \in DOMAIN up'[c] : up'[c][i].op # "resync"
      /\ job[c].op # "resync"
  BY <1>2 DEF Curing
<1>4. /\ Resync \in Asked /\ Again \in Asked /\ Resync.op = "resync"
  BY <1>1, AsksAsked DEF BoardTypes
<1>5. ~Gapped(First)
  <2> SUFFICES ASSUME Gapped(First) PROVE FALSE
    OBVIOUS
  <2>1. up'[c] = Append(up[c], Resync) \/ up'[c] = Append(Append(up[c], Resync), Again)
    BY <1>2 DEF Answered
  <2>2. PICK s \in Seq(Asked) : s = up[c]
    BY <1>2
  <2>3. /\ Len(s) + 1 \in DOMAIN Append(s, Resync) /\ Append(s, Resync)[Len(s) + 1] = Resync
        /\ Len(s) + 1 \in DOMAIN Append(Append(s, Resync), Again)
        /\ Append(Append(s, Resync), Again)[Len(s) + 1] = Resync
    BY <1>4
  <2>4. \E i \in DOMAIN up'[c] : up'[c][i] = Resync
    BY <2>1, <2>2, <2>3
  <2> QED BY <1>3, <1>4, <2>4
<1>6. ~IsResync(First)
  <2>1. Holes(link[c], expected) /\ expected \in Nat
    BY <1>1, <1>2 DEF HoleInv, Open, BoardTypes
  <2>2. IsResync(First) => First.seq > expected
    BY <1>2, <2>1 DEF Holes
  <2> QED BY <1>1, <1>2, <1>5, <2>1, <2>2 DEF Gapped
<1>7. up'[c] = up[c]
  BY <1>2, <1>5, <1>6 DEF Answered, IsResync
<1>8. \A f \in Carried(link[c]) : ~IsResync(f)
  BY <1>2, <1>3, <1>6
<1> QED BY <1>3, <1>5, <1>7, <1>8 DEF Curing

\* So does the browser, by taking a frame.
LEMMA CoherentMessage ==
    ASSUME BoardStart, OrderInv, HoleInv, StoreTypes, CoherentInv, Message, NEW c \in Conns, socket = c,
           Open(c), ~Curing(c)', NEW G, G = Carried(link'[c]), NEW J, J = held'[c]
    PROVE  Coherent(G, J)'
<1>1. HubInv /\ BoardTypes
  BY DEF BoardStart
<1>2. /\ First.seq \in Nat /\ First.body \in Bodies /\ Carried(link[c]) = G \cup {First}
      /\ \A f \in G : f.seq \in Nat /\ First.seq < f.seq
  BY <1>1, MessageLink
<1>3. Apply(First.body) /\ J = held[c] /\ slate' = slate
  BY <1>1, MessageFacts DEF hubVars, slateVars
<1>4. Coherent(Carried(link[c]), held[c])
  BY NothingMissed DEF CoherentInv
<1>5. PICK F, h : F = Carried(link[c]) /\ h = First
  OBVIOUS
<1>6. ASSUME NEW m \in Markets, NEW ch \in J, ch \in Scope(m)
      PROVE  Document(G, m, markets'[m], slate[m]) /\ Membership(G, ch, m, Members(ch)', slate[m])
  <2>1. Document(F, m, markets[m], slate[m]) /\ Membership(F, ch, m, Members(ch), slate[m])
    BY <1>3, <1>4, <1>5, <1>6 DEF Coherent
  <2>2. markets'[m] = IF Tells(h.body, m) THEN Says(h.body, m) ELSE markets[m]
    BY <1>2, <1>3, <1>5, AppliesTells
  <2>3. m \in Members(ch)' <=> IF Places(h.body, ch, m) THEN Placed(h.body, m) ELSE m \in Members(ch)
    BY <1>2, <1>3, <1>5, AppliesPlaces
  <2>4. F = G \cup {h} /\ h.seq \in Nat /\ \A f \in G : f.seq \in Nat /\ h.seq < f.seq
    BY <1>2, <1>5
  <2>5. Document(G, m, markets'[m], slate[m])
    BY <2>1, <2>2, <2>4, DocumentTaken
  <2>6. Membership(G, ch, m, Members(ch)', slate[m])
    BY <2>1, <2>3, <2>4, MembershipTaken
  <2> QED BY <2>5, <2>6
<1> QED BY <1>3, <1>6 DEF Coherent, Document, Membership

\* Unless a resync is due, browser and link make the slate.
LEMMA CoherentStep ==
    ASSUME BoardStart, BoardStart', OrderInv, JobAll, HoleInv, StoreTypes, ScopeInv, RoutesFixed, CoherentInv,
           [BoardNext]_boardGatewayVars
    PROVE  CoherentInv'
<1>1. HubInv /\ HubInv' /\ BoardTypes /\ ConnTypes
  BY DEF BoardStart, HubInv, TypesInv
<1> SUFFICES ASSUME NEW c \in Conns, socket' = c, Open(c)', ~Curing(c)',
                    NEW G, G = Carried(link'[c]), NEW J, J = held'[c]
             PROVE  Coherent(G, J)'
  BY DEF CoherentInv, Coherent
<1>2. CASE HubNext /\ UNCHANGED boardVars
  <2>1. UNCHANGED <<socket, markets, members>> /\ socket = c
    BY <1>2 DEF boardVars
  <2>2. Open(c) /\ ~Curing(c) => Coherent(Carried(link[c]), held[c])
    BY <2>1 DEF CoherentInv
  <2> QED BY <1>1, <1>2, <2>1, <2>2, CoherentHub
<1>3. CASE Message
  <2>1. socket' = socket /\ phase' = phase
    BY <1>1, <1>3, MessageFacts
  <2>2. socket = c /\ Open(c)
    BY <2>1 DEF Open
  <2> QED BY <1>3, <2>2, CoherentMessage
<1>4. ASSUME NEW x \in Conns, Opens(x) PROVE FALSE
  <2>1. socket' = x /\ phase'[x] = "upgraded"
    BY <1>1, <1>4 DEF Opens, ConnTypes
  <2> QED BY <2>1 DEF Open
<1>5. ~Closes
  BY NoneAssumption DEF Closes
<1>6. ASSUME UNCHANGED <<slate, socket, link, phase, job, held, markets, members>>,
             up'[c] = up[c] \/ \E q \in Asked : up'[c] = Append(up[c], q)
      PROVE  Coherent(G, J)'
  <2>1. ASSUME NEW q \in Asked, up'[c] = Append(up[c], q) PROVE ~Curing(c)
    <3>1. PICK s \in Seq(Asked) : s = up[c]
      BY <1>1 DEF ConnTypes
    <3>2. \A i \in DOMAIN s : i \in DOMAIN Append(s, q) /\ Append(s, q)[i] = s[i]
      OBVIOUS
    <3> QED BY <1>6, <2>1, <3>1, <3>2 DEF Curing
  <2>2. ~Curing(c)
    BY <1>6, <2>1 DEF Curing
  <2>3. Coherent(Carried(link[c]), held[c])
    BY <1>6, <2>2 DEF CoherentInv, Open
  <2> QED BY <1>6, <2>3, CoherentKept
<1>7. ASSUME NEW ch \in Restorable, Wants(ch) PROVE Coherent(G, J)'
  <2>1. UNCHANGED <<slate, socket, link, phase, job, held, markets, members>>
    BY <1>1, <1>7, WantsFacts DEF slateVars, hubVars
  <2>2. socket = c /\ socket # None
    BY <2>1, NoneAssumption
  <2>3. Ask("subscribe", <<ch>>) \in Asked /\ Ask("unsubscribe", <<ch>>) \in Asked
    BY <1>1, AsksAsked DEF BoardTypes
  <2>4. \E q \in Asked : up'[c] = Append(up[c], q)
    BY <1>1, <1>7, <2>2, <2>3, WantsFacts
  <2> QED BY <1>6, <2>1, <2>4
<1>8. CASE UNCHANGED boardGatewayVars
  BY <1>6, <1>8 DEF boardGatewayVars, boardVars, gatewayVars, connVars, hubVars, slateVars
<1> QED BY <1>2, <1>3, <1>4, <1>5, <1>7, <1>8 DEF BoardNext

\* With nothing under way, a coherent board is the slate.
LEMMA CoherentShown ==
    ASSUME BoardStart, StoreTypes, ScopeInv, RoutesFixed, CoherentInv
    PROVE  BoardCoherent
<1> SUFFICES ASSUME Settled, NEW ch \in Shown
             PROVE  /\ Members(ch) = SnapshotMarkets(ch)
                    /\ \A m \in Members(ch) : markets[m] = slate[m]
  BY DEF BoardCoherent
<1>1. HubInv /\ BoardTypes /\ SlateInv /\ RoutesHeld /\ held \in [Conns -> SUBSET Channels]
  BY DEF BoardStart, HubInv, TypesInv, Counted, ScopeInv
<1>2. PICK c \in Conns : c = socket
  BY <1>1 DEF BoardTypes, Settled
<1>3. /\ Open(c) /\ job[c] = NoJob /\ up[c] = <<>>
      /\ link[c].queue = <<>> /\ link[c].wire = <<>> /\ ch \in held[c] /\ ch \in Channels
  BY <1>1, <1>2 DEF Settled, Open, Ready, Shown
<1>4. Carried(link[c]) = {} /\ NoJob.op # "resync"
  BY <1>3 DEF Carried, Sq!ToSet, NoJob
<1>5. ~Curing(c)
  BY <1>3, <1>4 DEF Curing
<1>6. Coherent({}, held[c])
  BY <1>2, <1>3, <1>4, <1>5 DEF CoherentInv
<1>7. ASSUME NEW m \in Markets, ch \in Scope(m)
      PROVE  /\ m \in Members(ch) <=> slate[m] # Absent
             /\ slate[m] # Absent => markets[m] = slate[m]
  <2>1. Document({}, m, markets[m], slate[m]) /\ Membership({}, ch, m, Members(ch), slate[m])
    BY <1>3, <1>6, <1>7 DEF Coherent
  <2> QED BY <2>1 DEF Document, Membership
<1>8. Members(ch) \in SUBSET Markets /\ SnapshotMarkets(ch) \subseteq Markets
  BY MembersShape DEF SnapshotMarkets, Held
<1>9. \A m \in Members(ch) : ch \in Scope(m)
  BY DEF ScopeInv, Members
<1>10. ASSUME NEW m \in Markets
       PROVE  /\ m \in SnapshotMarkets(ch) => ch \in Scope(m)
              /\ ch \in Scope(m) => (m \in SnapshotMarkets(ch) <=> slate[m] # Absent)
  BY <1>1, <1>3, SnapshotTells
<1> HIDE DEF Scope, SnapshotMarkets, Members
<1>11. \A m \in Markets : m \in Members(ch) <=> m \in SnapshotMarkets(ch)
  BY <1>7, <1>9, <1>10
<1>12. \A m \in Members(ch) : markets[m] = slate[m]
  BY <1>7, <1>8, <1>9
<1> QED BY <1>8, <1>11, <1>12

-----------------------------------------------------------------------------
(* A market on the page does not go back *)

\* Of two records about a market, the later has the later document.
Increasing ==
    /\ Payloads \subseteq Int
    /\ \A i, j \in 1 .. MaxFolds : i < j =>
          \A a \in Records[i] \cap Documents, b \in Records[j] \cap Documents :
              a.market = b.market => a.payload <= b.payload

\* p is no later than the document e of the market, or than what is still to be
\* folded once n records have been.
Later(m, p, e, n) ==
    /\ e # Absent => p <= e.payload
    /\ \A i \in n + 1 .. MaxFolds : \A d \in Records[i] \cap Documents : d.market = m => p <= d.payload

\* From the page to what is on its way, and from there to the slate.
Talks(b, m) == Tells(b, m) /\ Says(b, m) # Absent
Onward(F, m, doc, e, n) ==
    /\ doc # Absent => Later(m, doc.payload, e, n)
    /\ \A f \in F : Talks(f.body, m) =>
          /\ Later(m, Says(f.body, m).payload, e, n)
          /\ doc # Absent => doc.payload <= Says(f.body, m).payload
          /\ \A g \in F : Talks(g.body, m) /\ f.seq <= g.seq =>
                Says(f.body, m).payload <= Says(g.body, m).payload

\* The page, what is carried, the slate and the records to come are in this order.
ForwardInv ==
    /\ folds \in Nat
    /\ \A m \in Markets : slate[m] # Absent => Later(m, slate[m].payload, slate[m], folds)
    /\ \A c \in Conns : socket = c =>
          \A m \in Markets : Onward(Carried(link[c]), m, markets[m], slate[m], folds)

\* What was no later than the slate and the records to come stays so when one is folded.
LEMMA LaterFolded ==
    ASSUME Increasing, SlateInv, folds \in Nat, NEW d \in Deliveries, Publish(d), NEW m \in Markets
    PROVE  /\ folds' = folds + 1
           /\ \A p : Later(m, p, slate[m], folds) => Later(m, p, slate'[m], folds')
           /\ (slate[m] # Absent => Later(m, slate[m].payload, slate[m], folds))
                => (slate'[m] # Absent => Later(m, slate'[m].payload, slate'[m], folds'))
<1>1. /\ folds' = folds + 1 /\ folds < MaxFolds /\ d \in Records[folds + 1] /\ Fold(d)
      /\ slate \in [Markets -> Entries \cup {Absent}] /\ MaxFolds \in Nat
  BY RecordsAssumption DEF Publish, SlateInv, SlateTypeOK
<1>2. /\ folds + 1 \in folds + 1 .. MaxFolds /\ folds + 1 \in 1 .. MaxFolds
      /\ \A i \in folds' + 1 .. MaxFolds : i \in folds + 1 .. MaxFolds /\ folds + 1 < i /\ i \in 1 .. MaxFolds
  BY <1>1
<1>3. \/ slate'[m] = slate[m]
      \/ slate'[m] = Absent
      \/ d \in Documents /\ d.market = m /\ slate'[m] = EntryOf(d)
  <2>1. CASE ~Changed(result')
    BY <1>1, <2>1, Unpublished
  <2>2. CASE Changed(result')
    <3>1. PICK x \in Markets, entry \in Entries :
              \/ Stored(x, entry) /\ d \in Documents /\ d.market = x /\ entry = EntryOf(d)
              \/ Removed(x, entry)
      BY <1>1, <2>2, Published
    <3>2. CASE Stored(x, entry) /\ d \in Documents /\ d.market = x /\ entry = EntryOf(d)
      BY <1>1, <3>2 DEF Stored
    <3>3. CASE Removed(x, entry)
      BY <1>1, <3>3 DEF Removed
    <3> QED BY <3>1, <3>2, <3>3
  <2> QED BY <2>1, <2>2
<1>4. EntryOf(d).payload = d.payload
  BY DEF EntryOf
<1>5. ASSUME NEW p, Later(m, p, slate[m], folds) PROVE Later(m, p, slate'[m], folds')
  <2>1. \A i \in folds' + 1 .. MaxFolds : \A x \in Records[i] \cap Documents : x.market = m => p <= x.payload
    BY <1>2, <1>5 DEF Later
  <2>2. d \in Documents /\ d.market = m => p <= d.payload
    BY <1>1, <1>2, <1>5 DEF Later
  <2>3. slate'[m] # Absent => p <= slate'[m].payload
    BY <1>3, <1>4, <1>5, <2>2 DEF Later
  <2> QED BY <2>1, <2>3 DEF Later
<1>6. ASSUME slate[m] # Absent => Later(m, slate[m].payload, slate[m], folds), slate'[m] # Absent
      PROVE  Later(m, slate'[m].payload, slate'[m], folds')
  <2>1. CASE slate'[m] = slate[m]
    BY <1>5, <1>6, <2>1
  <2>2. CASE d \in Documents /\ d.market = m /\ slate'[m] = EntryOf(d)
    <3>1. d.payload \in Int
      BY <2>2 DEF Documents, Increasing
    <3>2. \A i \in folds' + 1 .. MaxFolds : \A x \in Records[i] \cap Documents : x.market = m => d.payload <= x.payload
      BY <1>1, <1>2, <2>2 DEF Increasing
    <3> QED BY <1>4, <2>2, <3>1, <3>2 DEF Later
  <2> QED BY <1>3, <1>6, <2>1, <2>2
<1> QED BY <1>1, <1>5, <1>6

\* Bodies that say what the slate says end the chain.
LEMMA OnwardGrown ==
    ASSUME NEW l \in Links, Ordered(l), NEW k \in Links, NEW bodies, Grown(l, k, bodies, Len(bodies)),
           NEW m, NEW doc, NEW e, NEW n, Onward(Carried(l), m, doc, e, n),
           e # Absent => e.payload \in Int /\ Later(m, e.payload, e, n),
           \A i \in 1 .. Len(bodies) : Talks(bodies[i], m) => e # Absent /\ Says(bodies[i], m) = e
    PROVE  Onward(Carried(k), m, doc, e, n)
<1>1. /\ l.seq \in Nat /\ \A f \in Carried(l) : f.seq \in Nat /\ f.seq <= l.seq
      /\ \A f \in Carried(k) : f.seq \in Nat
  BY NumbersOnce DEF Grown
<1>2. ~Talks(ResyncNotice, m)
  BY DEF ResyncNotice, Talks, Tells
<1>3. \A f \in Carried(k) : Talks(f.body, m) =>
          f \in Carried(l) \/ (f.seq > l.seq /\ e # Absent /\ Says(f.body, m) = e)
  BY <1>2 DEF Grown
<1>4. doc # Absent => Later(m, doc.payload, e, n)
  BY DEF Onward
<1>5. ASSUME NEW f \in Carried(k), Talks(f.body, m)
      PROVE  /\ Later(m, Says(f.body, m).payload, e, n)
             /\ doc # Absent => doc.payload <= Says(f.body, m).payload
  <2>1. CASE f \in Carried(l)
    BY <1>5, <2>1 DEF Onward
  <2>2. CASE e # Absent /\ Says(f.body, m) = e
    BY <1>4, <2>2 DEF Later
  <2> QED BY <1>3, <1>5, <2>1, <2>2
<1>6. ASSUME NEW f \in Carried(k), Talks(f.body, m), NEW g \in Carried(k), Talks(g.body, m), f.seq <= g.seq
      PROVE  Says(f.body, m).payload <= Says(g.body, m).payload
  <2>1. CASE g \in Carried(l)
    <3>1. f \in Carried(l)
      BY <1>1, <1>3, <1>6, <2>1
    <3> QED BY <1>6, <2>1, <3>1 DEF Onward
  <2>2. CASE e # Absent /\ Says(g.body, m) = e
    <3>1. Later(m, Says(f.body, m).payload, e, n)
      BY <1>5, <1>6
    <3> QED BY <2>2, <3>1 DEF Later
  <2> QED BY <1>3, <1>6, <2>1, <2>2
<1> QED BY <1>4, <1>5, <1>6 DEF Onward

\* The page takes the place of the first frame of the chain.
LEMMA OnwardTaken ==
    ASSUME NEW F, NEW G, NEW h, F = G \cup {h}, h.seq \in Nat, \A g \in G : g.seq \in Nat /\ h.seq < g.seq,
           NEW m, NEW doc, NEW e, NEW n, Onward(F, m, doc, e, n),
           NEW new, new = IF Tells(h.body, m) THEN Says(h.body, m) ELSE doc
    PROVE  /\ Onward(G, m, new, e, n)
           /\ (Tells(h.body, m) /\ doc # Absent /\ new # Absent) => doc.payload <= new.payload
<1>1. CASE ~Tells(h.body, m)
  BY <1>1 DEF Onward
<1>2. CASE Tells(h.body, m)
  <2>1. new # Absent => /\ Talks(h.body, m) /\ new = Says(h.body, m)
                        /\ Later(m, new.payload, e, n)
                        /\ doc # Absent => doc.payload <= new.payload
                        /\ \A g \in G : Talks(g.body, m) => new.payload <= Says(g.body, m).payload
    <3> SUFFICES ASSUME new # Absent
                 PROVE  /\ Talks(h.body, m) /\ new = Says(h.body, m)
                        /\ Later(m, new.payload, e, n)
                        /\ doc # Absent => doc.payload <= new.payload
                        /\ \A g \in G : Talks(g.body, m) => new.payload <= Says(g.body, m).payload
      OBVIOUS
    <3>1. Talks(h.body, m) /\ new = Says(h.body, m) /\ h \in F /\ \A g \in G : g \in F /\ h.seq <= g.seq
      BY <1>2 DEF Talks
    <3> QED BY <3>1 DEF Onward
  <2> QED BY <1>2, <2>1 DEF Onward
<1> QED BY <1>1, <1>2

\* The hub keeps the chain from page to slate.
LEMMA ForwardHub ==
    ASSUME Increasing, HubInv, HubInv', BoardTypes, OrderInv, JobAll, ScopeInv, ForwardInv, HubNext,
           NEW c \in Conns, socket = c, NEW m \in Markets
    PROVE  Onward(Carried(link'[c]), m, markets[m], slate'[m], folds')
<1>1. /\ link[c] \in Links /\ link'[c] \in Links /\ Ordered(link[c]) /\ SlateInv /\ RoutesHeld
      /\ slate \in [Markets -> Entries \cup {Absent}] /\ slate' \in [Markets -> Entries \cup {Absent}]
      /\ folds \in Nat
  BY DEF HubInv, TypesInv, ConnTypes, OrderInv, ScopeInv, SlateInv, SlateTypeOK, ForwardInv
<1>2. /\ slate[m] # Absent => Later(m, slate[m].payload, slate[m], folds)
      /\ Onward(Carried(link[c]), m, markets[m], slate[m], folds)
  BY DEF ForwardInv
<1>3. (slate[m] # Absent => slate[m].payload \in Int) /\ (slate'[m] # Absent => slate'[m].payload \in Int)
  BY <1>1 DEF Entries, Increasing
<1>4. PICK l \in Links, k \in Links : l = link[c] /\ k = link'[c]
  BY <1>1
<1>5. ASSUME NEW d \in Deliveries, Publish(d) PROVE Onward(Carried(k), m, markets[m], slate'[m], folds')
  <2>1. /\ \A p : Later(m, p, slate[m], folds) => Later(m, p, slate'[m], folds')
        /\ slate'[m] # Absent => Later(m, slate'[m].payload, slate'[m], folds')
    BY <1>1, <1>2, <1>5, LaterFolded
  <2>2. Onward(Carried(l), m, markets[m], slate'[m], folds')
    BY <1>2, <1>4, <2>1 DEF Onward
  <2>3. Fold(d) /\ (Changed(result') => Sent(c, Fanout(c, result'))) /\ (~Changed(result') => link'[c] = link[c])
    BY <1>5, PublishSends
  <2>4. CASE link'[c] = link[c]
    BY <1>4, <2>2, <2>4
  <2>5. CASE Changed(result') /\ Open(c)
    <3> DEFINE t == Fanout(c, result')
    <3>1. \A i \in 1 .. Len(t) : \E ch : t[i] = BodyFor(result', ch)
      BY <2>3, <2>5, FanoutFacts
    <3>2. Grown(link[c], link'[c], t, Len(t))
      BY <2>3, <2>5 DEF Sent
    <3>3. PICK x \in Markets, entry \in Entries : result'.market = x /\ (Stored(x, entry) \/ Removed(x, entry))
      BY <1>1, <2>3, <2>5, Published
    <3>4. \A ch : Talks(BodyFor(result', ch), m) => slate'[m] # Absent /\ Says(BodyFor(result', ch), m) = slate'[m]
      BY <3>3, EntryNotAbsent DEF BodyFor, Delta, Removal, Talks, Tells, Says
    <3> HIDE DEF t
    <3>5. \A i \in 1 .. Len(t) : Talks(t[i], m) => slate'[m] # Absent /\ Says(t[i], m) = slate'[m]
      BY <3>1, <3>4
    <3> QED BY <1>1, <1>3, <1>4, <2>1, <2>2, <3>2, <3>5, OnwardGrown
  <2> QED BY <2>3, <2>4, <2>5 DEF Sent
<1>6. ASSUME ~\E d \in Deliveries : Publish(d) PROVE folds' = folds
  BY <1>6 DEF HubNext, Handling, Restore, Register, Serve, Close, Unregister, Unsubscribe, ClassifySubscribe,
              AttachSubscribe, PickResync, AttachResync, Transmit
<1>7. ASSUME ~\E d \in Deliveries : Publish(d), UNCHANGED slateVars, Rests(c)
      PROVE  Onward(Carried(k), m, markets[m], slate'[m], folds')
  <2>1. folds' = folds /\ slate' = slate /\ Carried(k) \subseteq Carried(l)
    BY <1>4, <1>6, <1>7 DEF slateVars, Rests
  <2> QED BY <1>2, <1>4, <2>1 DEF Onward
<1>8. ASSUME ~\E d \in Deliveries : Publish(d), UNCHANGED slateVars,
             NEW bodies \in Seq(Bodies), NEW C \in SUBSET Channels, Feeds(c, bodies, C)
      PROVE  Onward(Carried(k), m, markets[m], slate'[m], folds')
  <2>1. folds' = folds /\ slate' = slate
    BY <1>6, <1>8 DEF slateVars
  <2>2. \A i \in 1 .. Len(bodies) : Talks(bodies[i], m) => slate[m] # Absent /\ Says(bodies[i], m) = slate[m]
    <3>1. \A b : Neutral(b) => ~Talks(b, m)
      BY DEF Neutral, Talks, Tells
    <3>2. \A x \in C : Talks(SnapshotOf(x), m) => slate[m] # Absent /\ Says(SnapshotOf(x), m) = slate[m]
      BY <1>1, SnapshotTells DEF Talks
    <3> QED BY <1>8, <3>1, <3>2 DEF Feeds
  <2>3. Grown(l, k, bodies, Len(bodies))
    BY <1>4, <1>8 DEF Feeds
  <2>4. Onward(Carried(k), m, markets[m], slate[m], folds)
    BY <1>1, <1>2, <1>3, <1>4, <2>2, <2>3, OnwardGrown
  <2> QED BY <2>1, <2>4
<1> QED BY <1>4, <1>5, <1>7, <1>8, HubFeeds

\* So does a message, which moves the page forward, or to where it was.
LEMMA ForwardMessage ==
    ASSUME HubInv, BoardTypes, StoreTypes, OrderInv, ForwardInv, Message, NEW c \in Conns, socket = c,
           NEW m \in Markets
    PROVE  /\ Onward(Carried(link'[c]), m, markets'[m], slate[m], folds)
           /\ \/ (markets[m] # Absent /\ markets'[m] # Absent) => markets[m].payload <= markets'[m].payload
              \/ markets'[m] = markets[m]
<1>1. /\ First.seq \in Nat /\ First.body \in Bodies
      /\ Carried(link[c]) = Carried(link'[c]) \cup {First}
      /\ \A f \in Carried(link'[c]) : f.seq \in Nat /\ First.seq < f.seq
  BY MessageLink
<1>2. Apply(First.body)
  BY MessageFacts
<1>3. PICK F, G, h : F = Carried(link[c]) /\ G = Carried(link'[c]) /\ h = First
  OBVIOUS
<1>4. PICK new : new = markets'[m]
  OBVIOUS
<1>5. new = IF Tells(h.body, m) THEN Says(h.body, m) ELSE markets[m]
  BY <1>1, <1>2, <1>3, <1>4, AppliesTells
<1>6. F = G \cup {h} /\ h.seq \in Nat /\ \A f \in G : f.seq \in Nat /\ h.seq < f.seq
  BY <1>1, <1>3
<1>7. Onward(F, m, markets[m], slate[m], folds)
  BY <1>3 DEF ForwardInv
<1>8. PICK doc, e, n : doc = markets[m] /\ e = slate[m] /\ n = folds
  OBVIOUS
<1>9. new = IF Tells(h.body, m) THEN Says(h.body, m) ELSE doc
  BY <1>5, <1>8
<1>10. Onward(F, m, doc, e, n)
  BY <1>7, <1>8
<1>11. Onward(G, m, new, e, n)
  BY <1>6, <1>9, <1>10, OnwardTaken
<1>12. (Tells(h.body, m) /\ doc # Absent /\ new # Absent) => doc.payload <= new.payload
  <2> SUFFICES ASSUME Tells(h.body, m), doc # Absent, new # Absent PROVE doc.payload <= new.payload
    OBVIOUS
  <2>1. h \in F /\ Talks(h.body, m) /\ new = Says(h.body, m)
    BY <1>6, <1>9 DEF Talks
  <2> QED BY <1>10, <2>1 DEF Onward
<1> QED BY <1>3, <1>4, <1>8, <1>9, <1>11, <1>12

\* The chain from the page to the records to come is kept.
LEMMA ForwardStep ==
    ASSUME Increasing, BoardStart, BoardStart', OrderInv, JobAll, StoreTypes, ScopeInv, ForwardInv,
           [BoardNext]_boardGatewayVars
    PROVE  ForwardInv'
<1>1. HubInv /\ HubInv' /\ BoardTypes /\ EarlyInv /\ SlateInv /\ folds \in Nat
  BY DEF BoardStart, HubInv, ForwardInv
<1>2. CASE HubNext /\ UNCHANGED boardVars
  <2>1. /\ folds' \in Nat
        /\ \A m \in Markets : slate'[m] # Absent => Later(m, slate'[m].payload, slate'[m], folds')
    <3>1. ASSUME NEW d \in Deliveries, Publish(d)
          PROVE  /\ folds' \in Nat
                 /\ \A m \in Markets : slate'[m] # Absent => Later(m, slate'[m].payload, slate'[m], folds')
      <4>1. folds' \in Nat
        BY <1>1, <3>1 DEF Publish
      <4>2. ASSUME NEW m \in Markets
            PROVE  slate'[m] # Absent => Later(m, slate'[m].payload, slate'[m], folds')
        BY <1>1, <3>1, LaterFolded DEF ForwardInv
      <4> QED BY <4>1, <4>2
    <3>2. ASSUME ~\E d \in Deliveries : Publish(d) PROVE folds' = folds /\ slate' = slate
      BY <1>2, <3>2 DEF HubNext, Handling, Restore, Register, Serve, Close, Unregister, Unsubscribe,
              ClassifySubscribe, AttachSubscribe, PickResync, AttachResync, Transmit, slateVars
    <3> QED BY <3>1, <3>2 DEF ForwardInv
  <2>2. socket' = socket /\ markets' = markets
    BY <1>2 DEF boardVars
  <2>3. ASSUME NEW c \in Conns, socket = c, NEW m \in Markets
        PROVE  Onward(Carried(link'[c]), m, markets[m], slate'[m], folds')
    BY <1>1, <1>2, <2>3, ForwardHub
  <2> QED BY <2>1, <2>2, <2>3 DEF ForwardInv
<1>3. CASE UNCHANGED <<slate, folds>> /\ Message
  <2>1. socket' = socket /\ slate' = slate /\ folds' = folds
    BY <1>1, <1>3, MessageFacts
  <2>2. ASSUME NEW c \in Conns, socket = c, NEW m \in Markets
        PROVE  Onward(Carried(link'[c]), m, markets'[m], slate[m], folds)
    BY <1>1, <1>3, <2>2, ForwardMessage
  <2> QED BY <2>1, <2>2 DEF ForwardInv
<1>4. ASSUME NEW x \in Conns, Opens(x) PROVE ForwardInv'
  <2>1. phase[x] = "idle" /\ socket' = x /\ link' = link /\ slate' = slate /\ folds' = folds /\ markets' = NoMarkets
    BY <1>1, <1>4, OpensFacts DEF slateVars
  <2>2. link[x].queue = <<>> /\ link[x].wire = <<>>
    BY <1>1, <2>1 DEF EarlyInv, Early
  <2>3. Carried(link[x]) = {}
    BY <2>2 DEF Carried, Sq!ToSet
  <2>4. \A m \in Markets : Onward({}, m, Absent, slate[m], folds)
    BY DEF Onward
  <2>5. \A m \in Markets : markets'[m] = Absent
    BY <2>1 DEF NoMarkets
  <2> QED BY <2>1, <2>3, <2>4, <2>5 DEF ForwardInv
<1>5. CASE Closes
  <2>1. socket' = None /\ slate' = slate /\ folds' = folds
    BY <1>1, <1>5, ClosesFacts DEF slateVars
  <2> QED BY <2>1, NoneAssumption DEF ForwardInv
<1>6. CASE UNCHANGED <<slate, folds, socket, link, markets>>
  BY <1>6 DEF ForwardInv
<1>7. (\E ch \in Restorable : Wants(ch)) \/ UNCHANGED boardGatewayVars
        => UNCHANGED <<slate, folds, socket, link, markets>>
  BY DEF Wants, boardGatewayVars, boardVars, gatewayVars, connVars, slateVars
<1>8. Message => UNCHANGED <<slate, folds>>
  BY <1>1, MessageFacts DEF slateVars
<1> QED BY <1>2, <1>3, <1>4, <1>5, <1>6, <1>7, <1>8 DEF BoardNext

\* A step of the board shows no market an earlier document.
LEMMA ForwardAct ==
    ASSUME Increasing, BoardStart, StoreTypes, OrderInv, ForwardInv, [BoardNext]_boardGatewayVars
    PROVE  [\A m \in Markets :
                (markets[m] # Absent /\ markets'[m] # Absent) =>
                    markets'[m].payload >= markets[m].payload]_boardGatewayVars
<1> SUFFICES ASSUME NEW m \in Markets, markets[m] # Absent, markets'[m] # Absent
             PROVE  markets'[m].payload >= markets[m].payload
  OBVIOUS
<1>1. HubInv /\ BoardTypes /\ markets[m] \in Entries
  BY DEF BoardStart, StoreTypes
<1>2. markets[m].payload \in Int
  BY <1>1 DEF Entries, Increasing
<1>3. CASE markets' = markets
  BY <1>2, <1>3
<1>4. CASE Message
  <2>1. StoreTypes' /\ socket \in Conns
    <3>1. First \in Frames /\ Apply(First.body) /\ socket \in Conns
      BY <1>1, <1>4, MessageFacts
    <3>2. First.body \in Bodies
      BY <3>1 DEF Frames, FramesOf
    <3> QED BY <3>1, <3>2, StoreApplies
  <2>2. markets'[m].payload \in Int
    BY <2>1 DEF StoreTypes, Entries, Increasing
  <2>3. markets[m].payload <= markets'[m].payload
    BY <1>1, <1>2, <1>4, <2>1, ForwardMessage
  <2> QED BY <1>2, <2>2, <2>3
<1>5. ASSUME NEW x \in Conns, Opens(x) PROVE FALSE
  BY <1>5 DEF Opens, NoMarkets
<1>6. (HubNext /\ UNCHANGED boardVars) \/ Closes \/ (\E ch \in Restorable : Wants(ch)) \/ UNCHANGED boardGatewayVars
        => markets' = markets
  BY DEF Closes, Wants, boardVars, boardGatewayVars
<1> QED BY <1>3, <1>4, <1>5, <1>6 DEF BoardNext

-----------------------------------------------------------------------------
(* The board *)

\* What every board keeps.
BoardInv ==
    /\ BoardStart
    /\ OrderInv /\ JobAll /\ SilenceInv
    /\ StoreTypes /\ HoleInv /\ StatusInv
    /\ ScopeInv

LEMMA BoardInvInit == BoardInit => BoardInv
<1> SUFFICES ASSUME BoardInit PROVE BoardInv
  OBVIOUS
<1>1. BoardStart
  BY BoardStartInit
<1>2. /\ socket = None /\ status = "idle" /\ markets = NoMarkets /\ members = NoMembers
      /\ slate = [m \in Markets |-> Absent]
      /\ \A c \in Conns : link[c].queue = <<>> /\ link[c].wire = <<>> /\ job[c] = NoJob
  BY DEF BoardInit, GatewayInit, SlateInit
<1>3. \A c \in Conns : Carried(link[c]) = {}
  BY <1>2 DEF Carried, Sq!ToSet
<1>4. OrderInv
  BY <1>2, <1>3 DEF OrderInv, Ordered, Ascending
<1>5. JobAll
  BY <1>2 DEF JobAll, NoJob
<1>6. SilenceInv
  BY <1>3 DEF SilenceInv, Silence
<1>7. StoreTypes
  <2>1. members \in UNION {[chs -> SUBSET Markets] : chs \in SUBSET Channels}
    <3>1. members = [ch \in {} |-> members[ch]] /\ DOMAIN members = {}
      BY <1>2 DEF NoMembers
    <3> QED BY <3>1, MembersType
  <2>2. DOMAIN members = {}
    BY <1>2 DEF NoMembers
  <2> QED BY <1>2, <2>1, <2>2 DEF StoreTypes, NoMarkets
<1>8. HoleInv /\ StatusInv
  BY <1>2 DEF HoleInv, StatusInv
<1>9. ScopeInv
  <2>1. RoutesHeld
    BY <1>2 DEF RoutesHeld
  <2>2. DOMAIN members = {}
    BY <1>2 DEF NoMembers
  <2> QED BY <1>3, <2>1, <2>2 DEF ScopeInv
<1> QED BY <1>1, <1>4, <1>5, <1>6, <1>7, <1>8, <1>9 DEF BoardInv

LEMMA BoardInvStep == BoardInv /\ [BoardNext]_boardGatewayVars => BoardInv'
<1> SUFFICES ASSUME BoardInv, [BoardNext]_boardGatewayVars PROVE BoardInv'
  OBVIOUS
<1>1. /\ BoardStart /\ OrderInv /\ JobAll /\ SilenceInv
      /\ StoreTypes /\ HoleInv /\ StatusInv /\ ScopeInv
      /\ HubInv /\ BoardTypes
  BY DEF BoardInv, BoardStart
<1>2. BoardStart'
  BY <1>1, BoardStartStep
<1>3. OrderInv'
  BY <1>1, BoardOrderStep
<1>4. JobAll'
  BY <1>1, JobAllStep
<1>5. SilenceInv'
  BY <1>1, BoardSilenceStep
<1>6. StoreTypes'
  BY <1>1, StoreStep
<1>7. HoleInv'
  BY <1>1, <1>2, HoleStep
<1>8. StatusInv'
  BY <1>1, <1>2, StatusStep
<1>9. ScopeInv'
  BY <1>1, <1>2, ScopeStep
<1> QED BY <1>2, <1>3, <1>4, <1>5, <1>6, <1>7, <1>8, <1>9 DEF BoardInv

\* Whatever the records: after an unsubscribe is acknowledged a channel is
\* silent until it is subscribed to again, the store lists only documents it
\* has, and a client with nothing on its way does not say it is resyncing.
LEMMA BoardPromised == BoardInv => UnsubscribedSilence /\ BoardTypeOK /\ StatusHonest
<1> SUFFICES ASSUME BoardInv PROVE UnsubscribedSilence /\ BoardTypeOK /\ StatusHonest
  OBVIOUS
<1>1. HubInv /\ BoardTypes /\ OrderInv /\ SilenceInv /\ StoreTypes /\ StatusInv
  BY DEF BoardInv, BoardStart
<1> QED BY <1>1, SilenceHeard, BoardTyped, StatusSettled

\* Whatever the records say and however markets move: a channel is silent from
\* the acknowledgement of its unsubscribe until that of a subscribe, the store
\* lists only markets it has, and every hole the client noticed is mended by
\* the time nothing is on its way.
THEOREM BoardKept == BoardSpec => [](UnsubscribedSilence /\ BoardTypeOK /\ StatusHonest)
BY BoardInvInit, BoardInvStep, BoardPromised, PTL DEF BoardSpec

CoherentBoard == RoutesFixed /\ BoardInv /\ CoherentInv

LEMMA CoherentBoardStep == CoherentBoard /\ [BoardNext]_boardGatewayVars => CoherentBoard'
<1> SUFFICES ASSUME RoutesFixed, BoardInv, CoherentInv, [BoardNext]_boardGatewayVars
             PROVE  BoardInv' /\ CoherentInv'
  BY DEF CoherentBoard, RoutesFixed
<1>1. BoardInv'
  BY BoardInvStep
<1>2. BoardStart /\ OrderInv /\ JobAll /\ HoleInv /\ StoreTypes /\ ScopeInv /\ BoardStart'
  BY <1>1 DEF BoardInv
<1>3. CoherentInv'
  BY <1>2, CoherentStep
<1> QED BY <1>1, <1>3

\* The board, when no market moves to another event or league: whatever was
\* lost, requested twice or overtaken, a page with nothing on its way shows
\* exactly the slate of every channel it shows, and keeps all of BoardKept.
THEOREM BoardShown == RoutesFixed => (BoardSpec => []BoardCorrect)
<1>1. RoutesFixed /\ BoardInit => CoherentBoard
  <2>1. BoardInit => CoherentInv
    BY NoneAssumption DEF BoardInit, CoherentInv
  <2> QED BY <2>1, BoardInvInit DEF CoherentBoard
<1>2. CoherentBoard => BoardCorrect
  <2> SUFFICES ASSUME CoherentBoard PROVE BoardCorrect
    OBVIOUS
  <2>1. RoutesFixed /\ BoardInv /\ BoardStart /\ StoreTypes /\ ScopeInv /\ CoherentInv
    BY DEF CoherentBoard, BoardInv
  <2>2. BoardCoherent
    BY <2>1, CoherentShown
  <2> QED BY <2>1, <2>2, BoardPromised DEF BoardCorrect
<1> QED BY <1>1, <1>2, CoherentBoardStep, PTL DEF BoardSpec

ForwardBoard == Increasing /\ BoardInv /\ ForwardInv

LEMMA ForwardBoardStep == ForwardBoard /\ [BoardNext]_boardGatewayVars => ForwardBoard'
<1> SUFFICES ASSUME Increasing, BoardInv, ForwardInv, [BoardNext]_boardGatewayVars
             PROVE  BoardInv' /\ ForwardInv'
  BY DEF ForwardBoard, Increasing
<1>1. BoardInv'
  BY BoardInvStep
<1>2. BoardStart /\ BoardStart' /\ OrderInv /\ JobAll /\ StoreTypes /\ ScopeInv
  BY <1>1 DEF BoardInv
<1>3. ForwardInv'
  BY <1>2, ForwardStep
<1> QED BY <1>1, <1>3

\* When the records of a market come in the order of its documents, the page
\* never goes back to an earlier one: snapshots that answer a resync are queued
\* under the lock that queues deltas, and so never overtake them.
THEOREM BoardForward == Increasing => (BoardSpec => NeverBackwards)
<1>1. Increasing /\ BoardInit => ForwardBoard
  <2>1. BoardInit => ForwardInv
    <3>1. BoardInit => folds = 0 /\ slate = [m \in Markets |-> Absent] /\ socket = None
      BY DEF BoardInit, GatewayInit, SlateInit
    <3> QED BY <3>1, NoneAssumption DEF ForwardInv
  <2> QED BY <2>1, BoardInvInit DEF ForwardBoard
<1>2. ForwardBoard /\ [BoardNext]_boardGatewayVars
        => [\A m \in Markets :
               (markets[m] # Absent /\ markets'[m] # Absent) =>
                   markets'[m].payload >= markets[m].payload]_boardGatewayVars
  <2> SUFFICES ASSUME ForwardBoard, [BoardNext]_boardGatewayVars
               PROVE  [\A m \in Markets :
                         (markets[m] # Absent /\ markets'[m] # Absent) =>
                             markets'[m].payload >= markets[m].payload]_boardGatewayVars
    OBVIOUS
  <2>1. Increasing /\ BoardStart /\ StoreTypes /\ OrderInv /\ ForwardInv
    BY DEF ForwardBoard, BoardInv
  <2> QED BY <2>1, ForwardAct
<1> QED BY <1>1, <1>2, ForwardBoardStep, PTL DEF BoardSpec, NeverBackwards
=============================================================================
