---------------------------- MODULE StreamClient ----------------------------
(***************************************************************************)
(* The Go SDK's stream, pkg/client/stream.go, against the hub of            *)
(* Gateway.tla.  Its run goroutine dials, reads and reconnects, while the   *)
(* caller's goroutines amend the subscription, several at once, take events *)
(* and close.  Each critical section of Stream.mu, each frame read, each    *)
(* event queued and each frame written is a step of its own.  Payloads of   *)
(* events are left out: an event is its kind and the sequence numbers it    *)
(* accounts for.                                                            *)
(***************************************************************************)
EXTENDS Gateway

CONSTANTS
    Buffer,      \* StreamOptions.Buffer
    MaxAttempts, \* StreamBackoff.MaxAttempts, never 0 here: unbounded is not explored
    Reconnects,  \* ~StreamOptions.NoReconnect
    Callers,     \* goroutines that call Subscribe and Unsubscribe
    None         \* no socket

ASSUME StreamAssumption ==
    /\ Buffer \in Nat \ {0} /\ MaxAttempts \in Nat \ {0} /\ Reconnects \in BOOLEAN
    /\ None \notin Conns

VARIABLES
    at,        \* where the run goroutine is
    mine,      \* the socket run and connect hold in a local variable
    owed,      \* what run must still emit or send before it goes on, in order
    last,      \* run's `last`: why the latest connection ended or failed
    expect,    \* serve's expect
    pending,   \* serve's resyncPending
    attempt,   \* run's attempt
    born,      \* Client.Stream has returned a stream: run has started
    sock,      \* Stream.sock
    desired,   \* Stream.desired
    err,       \* Stream.err
    cancelled, \* the run context is cancelled
    shut,      \* sockets this client has closed
    events,    \* Stream.events
    call,      \* each caller's Subscribe or Unsubscribe under way
    closer,    \* where Close is
    doubtful   \* channels whose last Subscribe met an Unsubscribe of them under way,
               \* or failed, on the connection that is there (history)

runVars == <<at, mine, owed, last, expect, pending, attempt, born>>
sharedVars == <<sock, desired, err, cancelled, shut, events>>
callVars == <<call, doubtful>>
streamVars == <<runVars, sharedVars, callVars, closer>>
streamGatewayVars == <<gatewayVars, streamVars>>

Ask(op, chs) == [op |-> op, channels |-> chs]
ResyncAll == Ask("resync", <<>>)
NoCall == [at |-> "idle", req |-> ResyncAll, to |-> None]

\* A frame's event, a gap's, and the notice that a connection ended.
FrameEvent(f) == [kind |-> f.body.kind, from |-> f.seq, upTo |-> f.seq, why |-> "none"]
GapEvent(from, upTo) == [kind |-> "gap", from |-> from, upTo |-> upTo, why |-> "none"]
Disconnected(why) == [kind |-> "disconnected", from |-> 0, upTo |-> 0, why |-> why]

Emit(ev) == [do |-> "emit", ev |-> ev]
Write(req) == [do |-> "send", req |-> req]

\* The first failure recorded wins.
Recorded(e) == IF err = "none" THEN e ELSE err

\* A call is under way whose frame, yet to be written on this connection or the next,
\* takes the channel off it.
Dropping(ch) ==
    \E g \in Callers :
        /\ call[g].at = "amended" \/ (call[g].at = "sending" /\ call[g].to = mine)
        /\ call[g].req.op = "unsubscribe"
        /\ ch \in Sq!ToSet(call[g].req.channels)

\* A write to a connection the server still reads reaches it; any other is lost.
Written(c, req) ==
    IF c \notin shut /\ phase[c] \in {"upgraded", "restored", "registered", "serving"}
    THEN up' = [up EXCEPT ![c] = Append(@, req)] ELSE UNCHANGED up

-----------------------------------------------------------------------------
(* run, between connections *)

\* The client closes a connection it is done with.  The server's own teardown of
\* it, which the client cannot see (Close and Unregister), is taken at once.
HangsUp(c) ==
    /\ shut' = shut \cup {c}
    /\ phase' = [phase EXCEPT ![c] = "gone"]
    /\ link' = [link EXCEPT ![c] = [seq |-> 0, queue |-> <<>>, wire |-> <<>>]]
    /\ up' = [up EXCEPT ![c] = <<>>]
    /\ job' = [job EXCEPT ![c] = NoJob]
    /\ live' = live \ {c}
    /\ RemoveRoutes(c, held[c])
    /\ UNCHANGED <<slateVars, folds, shutdown, asked>>

\* run ends: finish.
Finish(e) ==
    /\ at' = "over"
    /\ err' = Recorded(e)
    /\ sock' = None

\* Variant: the budget is compared after one attempt too many.
Again_OffByOne(why, n) ==
    /\ last' = why
    /\ attempt' = n + 1
    /\ at' = IF Reconnects /\ n <= MaxAttempts THEN "waiting" ELSE "ending"
    /\ owed' = <<Emit(Disconnected(why))>>

\* After a connection ended or failed for `why`: another attempt, or the end.
Again(why, n) ==
    /\ last' = why
    /\ attempt' = n + 1
    /\ at' = IF Reconnects /\ n + 1 <= MaxAttempts THEN "waiting" ELSE "ending"
    /\ owed' = <<Emit(Disconnected(why))>>

\* connect failed.  The first one is Client.Stream's own, which returns no stream.
ConnectFails(why) ==
    /\ mine' = None
    /\ \/ ~born /\ at' = "unborn" /\ UNCHANGED <<owed, last, attempt, err, sock>>
       \/ born /\ cancelled /\ Finish("closed") /\ UNCHANGED <<owed, last, attempt>>
       \/ born /\ ~cancelled /\ Again(why, attempt) /\ UNCHANGED <<err, sock>>

Dials(c) ==
    /\ at = "dialing"
    /\ phase[c] = "idle"
    /\ phase' = [phase EXCEPT ![c] = "upgraded"]
    /\ mine' = c
    /\ at' = "greeting"
    /\ UNCHANGED <<slateVars, hubVars, link, job, up, folds, shutdown, asked, owed, last, expect,
                   pending, attempt, born, sharedVars, callVars, closer>>

\* No credential, no handshake, or the wrong subprotocol.
DialFails ==
    /\ at = "dialing"
    /\ ConnectFails("dial")
    /\ UNCHANGED <<gatewayVars, expect, pending, born, desired, cancelled, shut, events, callVars,
                   closer>>

Greeting == link[mine].wire # <<>> /\ Head(link[mine].wire).body.kind = "hello"

\* No hello in time, or something else first.
GreetingFails ==
    /\ at = "greeting"
    /\ link[mine].wire = <<>> \/ ~Greeting
    /\ HangsUp(mine)
    /\ ConnectFails("greeting")
    /\ UNCHANGED <<expect, pending, born, desired, cancelled, events, callVars, closer>>

\* The hello came, but the stream was closed while the dial was in flight.
GreetedTooLate ==
    /\ at = "greeting"
    /\ Greeting
    /\ err # "none"
    /\ HangsUp(mine)
    /\ ConnectFails("closed")
    /\ UNCHANGED <<expect, pending, born, desired, cancelled, events, callVars, closer>>

\* connect has the hello: socket s is installed, and the channels the server
\* did not restore are picked.
Installs(s) ==
    /\ at = "greeting"
    /\ Greeting
    /\ LET hello == Head(link[mine].wire)
           want == desired \ Sq!ToSet(hello.body.channels)
       IN  /\ at' = "applying"
           /\ expect' = hello.seq + 1
           /\ pending' = FALSE
           /\ owed' = IF want = {} THEN <<>> ELSE <<Write(Ask("subscribe", Sq!SetToSeq(want)))>>
    /\ sock' = s
    /\ link' = [link EXCEPT ![mine].wire = Tail(@)]
    /\ doubtful' = {ch \in doubtful : Dropping(ch)}
    /\ UNCHANGED <<slateVars, hubVars, phase, job, up, folds, shutdown, asked, mine, last, attempt,
                   born, desired, err, cancelled, shut, events, call, closer>>

\* Variants: the failure is not looked at; callers get the socket only in Adopts.
Greeted_Unchecked == Installs(mine)
Greeted_InstalledLate == err = "none" /\ Installs(None)

\* Under the mutex, unless the stream was closed.
Greeted == err = "none" /\ Installs(mine)

\* run, with a connection made: adopt, then the hello's event, then serve from n.
ServesFrom(n) ==
    /\ at = "applying"
    /\ owed = <<>>
    /\ at' = "serving"
    /\ expect' = n
    /\ owed' = <<Emit([kind |-> "hello", from |-> expect - 1, upTo |-> expect - 1, why |-> "none"])>>
    /\ sock' = IF err = "none" THEN mine ELSE sock
    /\ born' = TRUE
    /\ UNCHANGED <<gatewayVars, mine, last, pending, attempt, desired, err, cancelled, shut, events,
                   callVars, closer>>

\* Variant: serve starts from "nothing seen yet".
Adopts_ExpectsAnything == ServesFrom(0)

Adopts == ServesFrom(expect)

\* The backoff is over.
Retries ==
    /\ at = "waiting"
    /\ owed = <<>>
    /\ IF cancelled THEN Finish("closed") ELSE at' = "dialing" /\ UNCHANGED <<err, sock>>
    /\ UNCHANGED <<gatewayVars, mine, owed, last, expect, pending, attempt, born, desired, cancelled,
                   shut, events, callVars, closer>>

\* No reconnection, or no more of them, or a server that breaks the protocol.
GivesUp ==
    /\ at = "ending"
    /\ owed = <<>>
    /\ Finish(IF last = "protocol" \/ ~Reconnects THEN last ELSE "exhausted")
    /\ UNCHANGED <<gatewayVars, mine, owed, last, expect, pending, attempt, born, desired, cancelled,
                   shut, events, callVars, closer>>

-----------------------------------------------------------------------------
(* serve *)

\* What a frame makes serve do, in order: tell of the hole before it and ask
\* for a resync unless one is pending, then do the same if it says it follows
\* a hole, then hand it on.
Consequences(f) ==
    LET gap == expect # 0 /\ f.seq > expect
        first == IF gap
                 THEN <<Emit(GapEvent(expect, f.seq - 1))>>
                        \o (IF pending THEN <<>> ELSE <<Write(ResyncAll)>>)
                 ELSE <<>>
        second == IF f.body.kind = "resync" /\ ~pending /\ ~gap THEN <<Write(ResyncAll)>> ELSE <<>>
    IN  first \o second \o <<Emit(FrameEvent(f))>>

Reads ==
    /\ at = "serving"
    /\ owed = <<>>
    /\ link[mine].wire # <<>>
    /\ mine \notin shut
    /\ LET f == Head(link[mine].wire)
       IN  IF f.seq < expect \/ f.body.kind = "hello"
           THEN at' = "ended" /\ last' = "protocol" /\ UNCHANGED <<owed, expect, pending>>
           ELSE /\ owed' = Consequences(f)
                /\ pending' = (f.body.kind # "snapshot"
                                /\ (pending \/ f.body.kind = "resync"
                                      \/ (expect # 0 /\ f.seq > expect)))
                /\ expect' = f.seq + 1
                /\ UNCHANGED <<at, last>>
    /\ link' = [link EXCEPT ![mine].wire = Tail(@)]
    /\ UNCHANGED <<slateVars, born, hubVars, phase, job, up, folds, shutdown, asked, mine, attempt,
                   sharedVars, callVars, closer>>

\* Receive fails: the client's own close or cancellation, the server's close,
\* or a network that may go at any moment.  What the socket carried is lost.
ReceiveFails ==
    /\ at = "serving"
    /\ owed = <<>>
    /\ at' = "ended"
    /\ last' = IF cancelled \/ mine \in shut THEN "own" ELSE "lost"
    /\ UNCHANGED <<gatewayVars, born, mine, owed, expect, pending, attempt, sharedVars, callVars, closer>>

\* serve has returned: the socket goes, and run decides what comes next.  A
\* connection that outlived the longest wait starts the count afresh.
Ended ==
    /\ at = "ended"
    /\ mine' = None
    /\ HangsUp(mine)
    /\ IF cancelled
       THEN Finish("closed") /\ UNCHANGED <<owed, last, attempt>>
       ELSE /\ sock' = None
            /\ UNCHANGED err
            /\ IF last = "protocol"
               THEN /\ at' = "ending" /\ owed' = <<Emit(Disconnected(last))>>
                    /\ UNCHANGED <<last, attempt>>
               ELSE \E n \in {0, attempt} : Again(last, n)
    /\ UNCHANGED <<expect, pending, born, desired, cancelled, events, callVars, closer>>

\* emit, with room in the buffer.
Emits ==
    /\ owed # <<>> /\ Head(owed).do = "emit"
    /\ Len(events) < Buffer
    /\ events' = Append(events, Head(owed).ev)
    /\ owed' = Tail(owed)
    /\ UNCHANGED <<gatewayVars, born, at, mine, last, expect, pending, attempt, sock, desired, err,
                   cancelled, shut, callVars, closer>>

\* Variant: a full buffer is waited for whatever happens to the context.
EmitFails_NeverGivesUp == FALSE /\ UNCHANGED streamGatewayVars

\* emit, with the context cancelled; select may choose this though there is room.
\* Before serve and between connections run finishes; the last emit's result is ignored.
EmitFails ==
    /\ owed # <<>> /\ Head(owed).do = "emit"
    /\ cancelled
    /\ owed' = <<>>
    /\ IF at = "serving" /\ Head(owed).ev.kind # "hello"
       THEN at' = "ended" /\ last' = "own" /\ UNCHANGED <<err, sock>>
       ELSE IF at = "ending" THEN UNCHANGED <<at, last, err, sock>>
       ELSE Finish("closed") /\ UNCHANGED last
    /\ UNCHANGED <<gatewayVars, born, mine, expect, pending, attempt, desired, cancelled, shut,
                   events, callVars, closer>>

\* A frame run could not send: connect or serve returns.
SendFails(why) ==
    /\ owed' = <<>>
    /\ \/ /\ at = "applying"
          /\ HangsUp(mine)
          /\ mine' = None
          /\ sock' = None
          /\ IF born THEN at' = "refused" /\ last' = why ELSE at' = "unborn" /\ UNCHANGED last
       \/ /\ at = "serving"
          /\ at' = "ended"
          /\ last' = why
          /\ UNCHANGED <<gatewayVars, mine, shut, sock>>

\* run's own send: under the mutex the live socket, which is the one run holds,
\* or the stream's failure; the write may fail.
Sends ==
    /\ owed # <<>> /\ Head(owed).do = "send"
    /\ \/ err # "none" /\ SendFails("closed")
       \/ err = "none" /\ SendFails("lost")
       \/ /\ err = "none"
          /\ owed' = Tail(owed)
          /\ Written(mine, Head(owed).req)
          /\ UNCHANGED <<slateVars, hubVars, link, phase, job, folds, shutdown, asked, at, mine,
                         last, shut, sock>>
    /\ UNCHANGED <<expect, pending, attempt, born, desired, err, cancelled, events, callVars, closer>>

\* connect has returned the failure of its send to run, which looks at the context.
Refused ==
    /\ at = "refused"
    /\ IF cancelled THEN Finish("closed") /\ UNCHANGED <<owed, last, attempt>>
       ELSE Again(last, attempt) /\ UNCHANGED <<err, sock>>
    /\ UNCHANGED <<gatewayVars, born, mine, expect, pending, desired, cancelled, shut, events, callVars,
                   closer>>

-----------------------------------------------------------------------------
(* The caller's goroutines *)

\* amend, under the mutex: the desire first.
Amends(g, op, ch) ==
    /\ born
    /\ call[g] = NoCall
    /\ asked < MaxAsked
    /\ err = "none"
    /\ asked' = asked + 1
    /\ desired' = IF op = "subscribe" THEN desired \cup {ch} ELSE desired \ {ch}
    /\ call' = [call EXCEPT ![g] = [at |-> "amended", req |-> Ask(op, <<ch>>), to |-> None]]
    /\ doubtful' = IF op = "subscribe" /\ Dropping(ch) THEN doubtful \cup {ch} ELSE doubtful \ {ch}
    /\ UNCHANGED <<slateVars, hubVars, connVars, folds, shutdown, runVars, sock, err, cancelled,
                   shut, events, closer>>

\* send, under the mutex: the live socket, if the stream has one and has not failed.
PicksSocket(g) ==
    /\ call[g].at = "amended"
    /\ call' = [call EXCEPT ![g] = IF err # "none" \/ sock = None THEN NoCall
                                   ELSE [at |-> "sending", req |-> @.req, to |-> sock]]
    /\ UNCHANGED <<gatewayVars, runVars, sharedVars, doubtful, closer>>

\* sock.Send, outside the mutex: whoever is here writes, in any order.
Writes(g) ==
    /\ call[g].at = "sending"
    /\ Written(call[g].to, call[g].req)
    /\ call' = [call EXCEPT ![g] = NoCall]
    /\ UNCHANGED <<slateVars, hubVars, link, phase, job, folds, shutdown, asked, runVars,
                   sharedVars, doubtful, closer>>

\* The call's own context is over before its frame is written: the caller is told.
WriteFails(g) ==
    /\ call[g].at = "sending"
    /\ call' = [call EXCEPT ![g] = NoCall]
    /\ doubtful' = IF call[g].to = mine THEN doubtful \cup Sq!ToSet(call[g].req.channels) ELSE doubtful
    /\ UNCHANGED <<gatewayVars, runVars, sharedVars, closer>>

\* Next.
Takes ==
    /\ events # <<>>
    /\ events' = Tail(events)
    /\ UNCHANGED <<gatewayVars, runVars, sock, desired, err, cancelled, shut, callVars, closer>>

\* Close, first: the failure is recorded and the socket taken, under the mutex.
Marks ==
    /\ born
    /\ closer.at = "no"
    /\ closer' = [at |-> "marked", holds |-> sock]
    /\ err' = Recorded("closed")
    /\ sock' = None
    /\ UNCHANGED <<gatewayVars, runVars, desired, cancelled, shut, events, callVars>>

\* Variant: the socket goes before the context does.
Cancels_SocketFirst ==
    /\ closer.at = "marked"
    /\ closer' = [closer EXCEPT !.at = "cancelled"]
    /\ shut' = shut \cup (IF closer.holds = None THEN {} ELSE {closer.holds})
    /\ UNCHANGED <<gatewayVars, runVars, sock, desired, err, cancelled, events, callVars>>

\* Close, second.
Cancels ==
    /\ closer.at = "marked"
    /\ closer' = [closer EXCEPT !.at = "cancelled"]
    /\ cancelled' = TRUE
    /\ UNCHANGED <<gatewayVars, runVars, sock, desired, err, shut, events, callVars>>

\* Close, third.
Hangs ==
    /\ closer.at = "cancelled"
    /\ closer' = [closer EXCEPT !.at = "waiting"]
    /\ cancelled' = TRUE
    /\ shut' = shut \cup (IF closer.holds = None THEN {} ELSE {closer.holds})
    /\ UNCHANGED <<gatewayVars, runVars, sock, desired, err, events, callVars>>

\* Close, last: run has ended.
Returns ==
    /\ closer.at = "waiting"
    /\ at = "over"
    /\ closer' = [closer EXCEPT !.at = "returned"]
    /\ UNCHANGED <<gatewayVars, runVars, sharedVars, callVars>>

-----------------------------------------------------------------------------
(* The specification *)

StreamInit ==
    /\ GatewayInit
    /\ at = "dialing"
    /\ mine = None
    /\ owed = <<>>
    /\ last = "none"
    /\ expect = 0
    /\ pending = FALSE
    /\ attempt = 0
    /\ born = FALSE
    /\ sock = None
    /\ desired \in SUBSET Restorable
    /\ err = "none"
    /\ cancelled = FALSE
    /\ shut = {}
    /\ events = <<>>
    /\ call = [g \in Callers |-> NoCall]
    /\ closer = [at |-> "no", holds |-> None]
    /\ doubtful = {}

Running ==
    \/ \E c \in Conns : Dials(c)
    \/ DialFails \/ GreetingFails \/ GreetedTooLate \/ Greeted \/ Adopts \/ Retries \/ GivesUp
    \/ Reads \/ ReceiveFails \/ Ended \/ Emits \/ EmitFails \/ Sends \/ Refused

Closing == Marks \/ Cancels \/ Hangs \/ Returns

StreamNext ==
    \/ HubNext /\ UNCHANGED streamVars
    \/ Running
    \/ \E g \in Callers :
        \/ \E op \in {"subscribe", "unsubscribe"}, ch \in Restorable : Amends(g, op, ch)
        \/ PicksSocket(g) \/ Writes(g) \/ WriteFails(g)
    \/ Takes
    \/ Closing

StreamSpec == StreamInit /\ [][StreamNext]_streamGatewayVars

\* Every step of run is bounded by a timeout, or ends with the context; Close
\* goes on once called.  Nothing is assumed of the server, nor of who calls Next.
StreamFairness ==
    /\ WF_streamGatewayVars(Running)
    /\ WF_streamGatewayVars(Cancels \/ Hangs \/ Returns)

FairStreamSpec == StreamSpec /\ StreamFairness

-----------------------------------------------------------------------------
(* Properties *)

Places == {"dialing", "greeting", "applying", "serving", "ended", "refused", "waiting", "ending",
           "over", "unborn"}
Failures == {"none", "closed", "own", "lost", "dial", "greeting", "protocol", "exhausted"}

\* The type of the stream's state.
StreamTypeOK ==
    /\ at \in Places
    /\ {mine, sock} \subseteq Conns \cup {None}
    /\ at \in {"greeting", "applying", "serving", "ended"} => mine # None
    /\ {last, err} \subseteq Failures
    /\ expect \in Nat
    /\ {pending, born, cancelled} \subseteq BOOLEAN
    /\ attempt \in 0..MaxAttempts + 1
    /\ desired \in SUBSET Restorable
    /\ shut \in SUBSET Conns
    /\ Len(events) <= Buffer

\* Every sequence number of a connection is accounted for to the caller: of two
\* events in a row, the second starts where the first stopped, whatever the
\* server dropped between them; a hello starts afresh.
NumbersAccounted ==
    \A i \in 1..Len(events) - 1 :
        LET a == events[i]
            b == events[i + 1]
        IN  (a.kind # "disconnected" /\ b.kind # "disconnected") => b.from = a.upTo + 1

\* Close leaves no connection open behind it, not even one whose handshake was
\* in flight or that was between connect and run when the socket was taken.
NoSocketLeaked ==
    closer.at = "returned" => \A c \in Conns : phase[c] # "idle" => c \in shut

\* The failure that Close's own closing of the socket causes is never reported
\* as a lost connection.
CloseNotMistaken == \A i \in DOMAIN events : events[i].why # "own"

\* Nothing is under way between the stream and the hub.
StreamSettled ==
    /\ at = "serving"
    /\ owed = <<>> /\ err = "none"
    /\ \A g \in Callers : call[g] = NoCall
    /\ phase[mine] = "serving" /\ Ready(mine)
    /\ up[mine] = <<>> /\ link[mine].queue = <<>> /\ link[mine].wire = <<>>

\* What the callers want is held once nothing is under way, however many of them
\* amended the subscription at once and whenever in a reconnection they did, unless
\* the server answered that its limit was reached when it was last asked.  Not so of
\* a channel whose last Subscribe was made while an Unsubscribe of it was under way,
\* since the two frames may be written in either order, or was answered with an
\* error; until it is asked for once more, or a new connection asks for everything.
DesiredHeld == StreamSettled => desired \ doubtful \subseteq held[mine] \cup denied[mine]

\* What is promised of a stream at any moment.
StreamCorrect ==
    StreamTypeOK /\ NumbersAccounted /\ NoSocketLeaked /\ CloseNotMistaken /\ DesiredHeld

\* Close returns, though the buffer is full and nobody calls Next.
CloseReturns == closer.at = "marked" ~> closer.at = "returned"

\* The SDK serialises its own writes, so what a stream says it wants it comes to hold.
\* Does not hold: amend records the desire in one section and writes its frame after.
WritesInOrder == StreamSettled => desired \subseteq held[mine] \cup denied[mine]

\* A request for a resync is answered: a stream that waits for a snapshot has
\* one coming, or a request for one under way.
ResyncUnderWay == ~(StreamSettled /\ pending /\ held[mine] # {})

\* The last word on a stream the caller closed is not a reconnection notice.
ClosedQuietly == \A i \in DOMAIN events : events[i].why \notin {"own", "closed"}
=============================================================================
