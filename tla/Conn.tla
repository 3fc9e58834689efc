-------------------------------- MODULE Conn --------------------------------
(***************************************************************************)
(* One gateway connection (internal/wsgw/conn.go): the bounded send queue,  *)
(* its overflow, and the goroutines serve runs: the write loop, the ping    *)
(* loop, the closer and the read loop, which is serve itself.  The hub is   *)
(* the goroutine that publishes to the connection and shuts it down.        *)
(*                                                                          *)
(* c.mu is held across enqueue, so an enqueue that fits is one action; an   *)
(* overflow is not, because the write loop keeps receiving from the channel *)
(* while discardLocked empties it.  Frame bodies are abstracted to a kind.  *)
(***************************************************************************)
EXTENDS Naturals, Sequences, FiniteSets

CONSTANTS
    Capacity,   \* Options.SendQueueCapacity
    MaxSeq,     \* bound: frames numbered on one connection
    MaxPings,   \* bound: heartbeat rounds
    None        \* no frame, no overflow in progress, no reason

ASSUME CapacityAssumption == Capacity \in Nat \ {0}
ASSUME MaxSeqAssumption == MaxSeq \in Nat

VARIABLES
    seq,        \* sequence: the highest number assigned
    queue,      \* send: the channel's contents
    overflow,   \* None, or the enqueue that holds c.mu while it discards
    closed,     \* no frame is queued any more
    reason,     \* closeReason
    quit,       \* the quit channel is closed
    asking,     \* asking[t]: the reason thread t passes to requestClose
    ctx,        \* serve's context is live
    hand,       \* the frame the write loop is writing
    writer, pinger, closer, reader, hub,
    pings,      \* heartbeat rounds so far
    wire,       \* the frames the socket has taken, in order
    socket,     \* the socket is open
    closeFrame, \* the reason the closing handshake carried
    registered  \* the hub still routes to the connection

queueVars == <<seq, queue, overflow>>
closeVars == <<closed, reason, quit, asking>>
writerVars == <<hand, writer, wire>>
vars == <<queueVars, closeVars, ctx, writerVars, pinger, closer, reader, hub, pings,
          socket, closeFrame, registered>>

-----------------------------------------------------------------------------
(* Data *)

Kinds == {"data", "error", "resync"}
Reasons == {"read_error", "write_error", "idle_timeout", "protocol_error", "shutdown"}
Askers == {"reader", "writer", "pinger", "hub"}

\* A frame other than a resync has no bracket.
Gaps == [from : Nat, to : Nat, dropped : Nat]
Frames == [seq : Nat, kind : Kinds, from : Nat, to : Nat, dropped : Nat]
Overflowing == [pending : Nat, gap : Gaps]

ASSUME NoneAssumption == None \notin Frames \cup Overflowing \cup Reasons

Frame(n, kind) == [seq |-> n, kind |-> kind, from |-> 0, to |-> 0, dropped |-> 0]
Resync(n, g) == [seq |-> n, kind |-> "resync", from |-> g.from, to |-> g.to, dropped |-> g.dropped]

NoGap == [from |-> 0, to |-> 0, dropped |-> 0]

\* Variant: the count computed from the bracket instead of accumulated.
Extend_FromBracket(g, n) ==
    LET from == IF g.from = 0 \/ n < g.from THEN n ELSE g.from
        to == IF n > g.to THEN n ELSE g.to
    IN  [from |-> from, to |-> to, dropped |-> to - from + 1]

\* gap.extend: the bracket of what was discarded, and how many there were.
Extend(g, n) ==
    [from |-> IF g.from = 0 \/ n < g.from THEN n ELSE g.from,
     to |-> IF n > g.to THEN n ELSE g.to,
     dropped |-> g.dropped + 1]

LockFree == overflow = None
WriterDone == writer \in {"drained", "failed"}

-----------------------------------------------------------------------------
(* enqueue *)

\* Variant: one frame too many.
Fits_OffByOne(kind) ==
    /\ Len(queue) <= Capacity
    /\ seq' = seq + 1
    /\ queue' = Append(queue, Frame(seq + 1, kind))
    /\ UNCHANGED overflow

\* The frame fits: it is numbered and sent to the channel under c.mu.
Fits(kind) ==
    /\ Len(queue) < Capacity
    /\ seq' = seq + 1
    /\ queue' = Append(queue, Frame(seq + 1, kind))
    /\ UNCHANGED overflow

\* Variant: the number is stamped only on a frame that is queued.
Overflows_Unnumbered ==
    /\ Len(queue) >= Capacity
    /\ overflow' = [pending |-> seq + 1, gap |-> NoGap]
    /\ UNCHANGED <<seq, queue>>

\* It does not: it has its number, and the discard begins.
Overflows ==
    /\ Len(queue) >= Capacity
    /\ seq' = seq + 1
    /\ overflow' = [pending |-> seq + 1, gap |-> NoGap]
    /\ UNCHANGED queue

\* sendFrame: refused once the connection is closed.
Send(kind) ==
    /\ LockFree
    /\ \/ closed /\ UNCHANGED queueVars
       \/ ~closed /\ seq + 2 <= MaxSeq /\ (Fits(kind) \/ Overflows)

\* discardLocked: one frame off the channel.
DiscardOne ==
    /\ ~LockFree
    /\ queue # <<>>
    /\ overflow' = [overflow EXCEPT !.gap = Extend(@, Head(queue).seq)]
    /\ queue' = Tail(queue)
    /\ UNCHANGED <<seq, closeVars, ctx, writerVars, pinger, closer, reader, hub, pings,
                   socket, closeFrame, registered>>

\* Variants: the resync takes the first lost number again; no resync is queued.
QueueResync_ReusesNumber ==
    /\ ~LockFree
    /\ queue = <<>>
    /\ LET g == Extend(overflow.gap, overflow.pending) IN queue' = <<Resync(g.from, g)>>
    /\ overflow' = None
    /\ UNCHANGED <<seq, closeVars, ctx, writerVars, pinger, closer, reader, hub, pings,
                   socket, closeFrame, registered>>
QueueResync_Silent ==
    /\ ~LockFree
    /\ queue = <<>>
    /\ overflow' = None
    /\ UNCHANGED <<seq, queue, closeVars, ctx, writerVars, pinger, closer, reader, hub, pings,
                   socket, closeFrame, registered>>

\* The channel is empty: the frame that did not fit joins the gap and the
\* resync takes the next number.
QueueResync ==
    /\ ~LockFree
    /\ queue = <<>>
    /\ seq' = seq + 1
    /\ queue' = <<Resync(seq + 1, Extend(overflow.gap, overflow.pending))>>
    /\ overflow' = None
    /\ UNCHANGED <<closeVars, ctx, writerVars, pinger, closer, reader, hub, pings,
                   socket, closeFrame, registered>>

-----------------------------------------------------------------------------
(* requestClose: the first caller decides, the others wait for it *)

Ask(t, r) == asking' = [asking EXCEPT ![t] = r]

TakeClose(t) ==
    /\ asking[t] # None
    /\ ~closed
    /\ LockFree
    /\ closed' = TRUE
    /\ reason' = asking[t]
    /\ UNCHANGED <<queueVars, quit, asking, ctx, writerVars, pinger, closer, reader, hub,
                   pings, socket, closeFrame, registered>>

SignalQuit ==
    /\ closed
    /\ ~quit
    /\ quit' = TRUE
    /\ UNCHANGED <<queueVars, closed, reason, asking, ctx, writerVars, pinger, closer, reader,
                   hub, pings, socket, closeFrame, registered>>

-----------------------------------------------------------------------------
(* The write loop *)

WriterPop ==
    /\ writer \in {"run", "drain"}
    /\ hand = None
    /\ queue # <<>>
    /\ hand' = Head(queue)
    /\ queue' = Tail(queue)
    /\ UNCHANGED <<seq, overflow, closeVars, ctx, writer, wire, pinger, closer, reader, hub,
                   pings, socket, closeFrame, registered>>

WriteSucceeds ==
    /\ hand # None
    /\ socket
    /\ wire' = Append(wire, hand)
    /\ hand' = None
    /\ UNCHANGED <<queueVars, closeVars, ctx, writer, pinger, closer, reader, hub, pings,
                   socket, closeFrame, registered>>

\* The peer is gone or has stopped reading for WriteTimeout.  A cancelled
\* context ends the loop silently; otherwise the connection is ended.
WriteFails ==
    /\ hand # None
    /\ hand' = None
    /\ \/ ~ctx /\ writer' = "failed" /\ UNCHANGED asking
       \/ ctx /\ writer' = "closing" /\ Ask("writer", "write_error")
    /\ UNCHANGED <<queueVars, closed, reason, quit, ctx, wire, pinger, closer, reader, hub,
                   pings, socket, closeFrame, registered>>

\* Variant: the loop returns on quit without draining the channel.
WriterQuits_Undrained ==
    /\ hand = None
    /\ \/ writer = "run" /\ quit /\ writer' = "drained"
       \/ writer = "run" /\ ~ctx /\ writer' = "failed"
       \/ writer = "closing" /\ quit /\ writer' = "failed"
    /\ UNCHANGED <<queueVars, closeVars, ctx, hand, wire, pinger, closer, reader, hub, pings,
                   socket, closeFrame, registered>>

\* select: quit drains what is queued, a dead context returns at once.
WriterQuits ==
    /\ hand = None
    /\ \/ writer = "run" /\ quit /\ writer' = "drain"
       \/ writer = "run" /\ ~ctx /\ writer' = "failed"
       \/ writer = "drain" /\ queue = <<>> /\ writer' = "drained"
       \/ writer = "closing" /\ quit /\ writer' = "failed"
    /\ UNCHANGED <<queueVars, closeVars, ctx, hand, wire, pinger, closer, reader, hub, pings,
                   socket, closeFrame, registered>>

-----------------------------------------------------------------------------
(* The ping loop *)

PingStarts ==
    /\ pinger = "wait"
    /\ pings < MaxPings
    /\ pings' = pings + 1
    /\ pinger' = "ping"
    /\ UNCHANGED <<queueVars, closeVars, ctx, writerVars, closer, reader, hub, socket,
                   closeFrame, registered>>

\* A pong refreshes the session's lease, which changes nothing here; no pong
\* reaps the connection unless it is already ending.
PingEnds ==
    /\ pinger = "ping"
    /\ \/ socket /\ pinger' = "wait" /\ UNCHANGED asking
       \/ (~ctx \/ quit) /\ pinger' = "done" /\ UNCHANGED asking
       \/ ctx /\ ~quit /\ pinger' = "closing" /\ Ask("pinger", "idle_timeout")
    /\ UNCHANGED <<queueVars, closed, reason, quit, ctx, writerVars, closer, reader, hub,
                   pings, socket, closeFrame, registered>>

PingerQuits ==
    /\ \/ pinger = "wait" /\ (quit \/ ~ctx)
       \/ pinger = "closing" /\ quit
    /\ pinger' = "done"
    /\ UNCHANGED <<queueVars, closeVars, ctx, writerVars, closer, reader, hub, pings, socket,
                   closeFrame, registered>>

-----------------------------------------------------------------------------
(* The closer: the handshake waits for the write loop, never for the reader *)

\* Variant: the handshake waits for the read loop, which waits for the socket.
CloseSocket_AfterReader ==
    /\ closer = "wait"
    /\ WriterDone
    /\ reader = "ended"
    /\ closer' = "done"
    /\ socket' = FALSE
    /\ closeFrame' = reason
    /\ UNCHANGED <<queueVars, closeVars, ctx, writerVars, pinger, reader, hub, pings, registered>>

CloseSocket ==
    /\ closer = "wait"
    /\ WriterDone
    /\ closer' = "done"
    /\ socket' = FALSE
    /\ closeFrame' = reason
    /\ UNCHANGED <<queueVars, closeVars, ctx, writerVars, pinger, reader, hub, pings, registered>>

-----------------------------------------------------------------------------
(* The read loop and the rest of serve *)

\* A client frame whose answer is queued: an ack, a snapshot, a pong.
ReadFrame ==
    /\ reader = "read"
    /\ socket
    /\ Send("data")
    /\ reader' = IF overflow' = None THEN "read" ELSE "answering"
    /\ UNCHANGED <<closeVars, ctx, writerVars, pinger, closer, hub, pings, socket, closeFrame,
                   registered>>

Answered ==
    /\ reader = "answering"
    /\ LockFree
    /\ reader' = "read"
    /\ UNCHANGED <<queueVars, closeVars, ctx, writerVars, pinger, closer, hub, pings, socket,
                   closeFrame, registered>>

\* protocolViolation: the coded error is queued, then the close requested.
ReadViolation ==
    /\ reader = "read"
    /\ socket
    /\ Send("error")
    /\ reader' = "closing"
    /\ Ask("reader", "protocol_error")
    /\ UNCHANGED <<closed, reason, quit, ctx, writerVars, pinger, closer, hub, pings, socket,
                   closeFrame, registered>>

\* readEnded: the socket failed, was closed, or the context was cancelled.
ReadFails ==
    /\ reader = "read"
    /\ \/ quit /\ reader' = "ended" /\ UNCHANGED asking
       \/ ~quit /\ reader' = "closing" /\ Ask("reader", IF ctx THEN "read_error" ELSE "shutdown")
    /\ UNCHANGED <<queueVars, closed, reason, quit, ctx, writerVars, pinger, closer, hub,
                   pings, socket, closeFrame, registered>>

\* serve: the read loop has ended; wait for the writer and cancel ...
ServeCancels ==
    /\ \/ reader = "closing" /\ quit
       \/ reader = "ended"
    /\ WriterDone
    /\ ctx' = FALSE
    /\ reader' = "cancelled"
    /\ UNCHANGED <<queueVars, closeVars, writerVars, pinger, closer, hub, pings, socket,
                   closeFrame, registered>>

\* Variant: serve does not wait for the ping loop.
ServeUnregisters_Early ==
    /\ reader = "cancelled"
    /\ closer = "done"
    /\ registered' = FALSE
    /\ reader' = "done"
    /\ UNCHANGED <<queueVars, closeVars, ctx, writerVars, pinger, closer, hub, pings, socket,
                   closeFrame>>

\* ... then for the other goroutines, and unregister.
ServeUnregisters ==
    /\ reader = "cancelled"
    /\ pinger = "done"
    /\ closer = "done"
    /\ registered' = FALSE
    /\ reader' = "done"
    /\ UNCHANGED <<queueVars, closeVars, ctx, writerVars, pinger, closer, hub, pings, socket,
                   closeFrame>>

\* The handler's context is cancelled by whoever runs it.
ParentCancels ==
    /\ ctx
    /\ ctx' = FALSE
    /\ UNCHANGED <<queueVars, closeVars, writerVars, pinger, closer, reader, hub, pings, socket,
                   closeFrame, registered>>

-----------------------------------------------------------------------------
(* The hub *)

Publish ==
    /\ registered
    /\ Send("data")
    /\ UNCHANGED <<closeVars, ctx, writerVars, pinger, closer, reader, hub, pings, socket,
                   closeFrame, registered>>

\* Shutdown: the going-away frame first ...
SendGoodbye ==
    /\ hub = "up"
    /\ registered
    /\ Send("error")
    /\ hub' = "told"
    /\ UNCHANGED <<closeVars, ctx, writerVars, pinger, closer, reader, pings, socket, closeFrame,
                   registered>>

\* ... then, after a drain that ends when the queue is empty or its budget is
\* spent, the close.
ShutdownCloses ==
    /\ hub = "told"
    /\ LockFree
    /\ hub' = "closing"
    /\ Ask("hub", "shutdown")
    /\ UNCHANGED <<queueVars, closed, reason, quit, ctx, writerVars, pinger, closer, reader,
                   pings, socket, closeFrame, registered>>

-----------------------------------------------------------------------------
(* The specification *)

Init ==
    /\ seq = 0
    /\ queue = <<>>
    /\ overflow = None
    /\ closed = FALSE
    /\ reason = None
    /\ quit = FALSE
    /\ asking = [t \in Askers |-> None]
    /\ ctx = TRUE
    /\ hand = None
    /\ wire = <<>>
    /\ writer = "run"
    /\ pinger = "wait"
    /\ closer = "wait"
    /\ reader = "read"
    /\ hub = "up"
    /\ pings = 0
    /\ socket = TRUE
    /\ closeFrame = None
    /\ registered = TRUE

Closing == SignalQuit \/ \E t \in Askers : TakeClose(t)
Writing == WriterPop \/ WriteSucceeds \/ WriteFails \/ WriterQuits
Pinging == PingStarts \/ PingEnds \/ PingerQuits
Reading == ReadFrame \/ Answered \/ ReadViolation \/ ReadFails
Serving == ServeCancels \/ ServeUnregisters

Next ==
    \/ DiscardOne \/ QueueResync
    \/ Closing
    \/ Writing
    \/ Pinging
    \/ CloseSocket
    \/ Reading
    \/ Serving
    \/ ParentCancels
    \/ Publish \/ SendGoodbye \/ ShutdownCloses

Spec == Init /\ [][Next]_vars

\* Fairness.  Every critical section and every select of a running goroutine
\* completes; a write ends within WriteTimeout and a ping within PongTimeout;
\* a read is promised to return only once the socket or the context is gone.
\* Nothing obliges the peer to read, to answer, or to send anything.
Fairness ==
    /\ WF_vars(DiscardOne) /\ WF_vars(QueueResync)
    /\ WF_vars(SignalQuit) /\ \A t \in Askers : WF_vars(TakeClose(t))
    /\ WF_vars(WriterPop) /\ WF_vars(WriterQuits) /\ WF_vars(WriteSucceeds \/ WriteFails)
    /\ WF_vars(PingEnds) /\ WF_vars(PingerQuits)
    /\ WF_vars(CloseSocket)
    /\ WF_vars(Answered) /\ WF_vars((~socket \/ ~ctx) /\ ReadFails)
    /\ WF_vars(ServeCancels) /\ WF_vars(ServeUnregisters)
    /\ WF_vars(ShutdownCloses)

FairSpec == Spec /\ Fairness

-----------------------------------------------------------------------------
(* Properties *)

TypeOK ==
    /\ seq \in 0..MaxSeq
    /\ queue \in Seq([seq : 1..MaxSeq, kind : Kinds, from : 0..MaxSeq, to : 0..MaxSeq,
                      dropped : 0..MaxSeq])
    /\ Len(queue) <= Capacity
    /\ \/ overflow = None
       \/ overflow \in [pending : 1..MaxSeq,
                        gap : [from : 0..MaxSeq, to : 0..MaxSeq, dropped : 0..MaxSeq]]
    /\ closed \in BOOLEAN /\ quit \in BOOLEAN /\ ctx \in BOOLEAN
    /\ reason \in Reasons \cup {None} /\ closeFrame \in Reasons \cup {None}
    /\ asking \in [Askers -> Reasons \cup {None}]
    /\ writer \in {"run", "drain", "closing", "drained", "failed"}
    /\ pinger \in {"wait", "ping", "closing", "done"}
    /\ closer \in {"wait", "done"}
    /\ reader \in {"read", "answering", "closing", "ended", "cancelled", "done"}
    /\ hub \in {"up", "told", "closing"}
    /\ pings \in 0..MaxPings
    /\ socket \in BOOLEAN /\ registered \in BOOLEAN

InHand == IF hand = None THEN <<>> ELSE <<hand>>

\* Every frame that was not discarded, in the order the client gets them.
Outgoing == wire \o InHand \o queue

\* Frames leave in the order of their numbers, whatever the write loop took
\* off the channel while an enqueue was discarding it.
InNumberOrder ==
    \A i, j \in DOMAIN Outgoing : i < j => Outgoing[i].seq < Outgoing[j].seq

\* No silent hole (D3): each number that is missing from the frames on their
\* way is below a resync frame the client has or will have.
NoSilentHole ==
    LockFree =>
        \A n \in 1..seq :
            \/ \E i \in DOMAIN Outgoing : Outgoing[i].seq = n
            \/ \E i \in DOMAIN Outgoing : Outgoing[i].kind = "resync" /\ Outgoing[i].seq > n
            \/ writer \in {"closing", "failed"}

ReceivedBefore(i) == {wire[j].seq : j \in 1..i - 1}

\* A resync frame counts exactly the numbers of its bracket the client did not
\* receive, and both ends of the bracket are among them: the comment on
\* discardLocked promises to agree with what the client received.
GapCountExact ==
    \A i \in DOMAIN wire : wire[i].kind = "resync" =>
        LET missing == (wire[i].from..wire[i].to) \ ReceivedBefore(i)
        IN  Cardinality(missing) = wire[i].dropped /\ {wire[i].from, wire[i].to} \subseteq missing

\* FromSeq and ToSeq bracket the sequence numbers the client did not receive:
\* no frame the client has is inside the bracket of a resync it has.
GapRangeNotReceived ==
    \A i \in DOMAIN wire : wire[i].kind = "resync" =>
        (wire[i].from..wire[i].to) \cap ReceivedBefore(i) = {}

\* A connection that ends without a failed write closes its socket only after
\* the client has been written the last frame ever queued to it, and tells it
\* the reason the first caller of requestClose gave.
DrainedBeforeClose ==
    (closer = "done" /\ writer = "drained") =>
        /\ queue = <<>> /\ hand = None
        /\ seq > 0 => wire # <<>> /\ wire[Len(wire)].seq = seq
        /\ closeFrame = reason /\ reason # None

\* The hub forgets a connection only when none of its goroutines is left and
\* nothing can be queued to it any more, so unregister cannot race a loop that
\* still uses the connection.
TornDownOnce ==
    ~registered =>
        closed /\ quit /\ ~socket /\ WriterDone /\ pinger = "done" /\ LockFree

\* A loss is announced to a client that keeps reading: each overflow is
\* followed by a resync frame on the wire, unless a write fails.  (A frame that
\* overflows has Capacity frames before it and a resync frame after it.)
LossReachesClient ==
    \A n \in Capacity + 1..MaxSeq - 1 :
        (overflow # None /\ overflow.pending = n) ~>
            \/ \E i \in DOMAIN wire : wire[i].kind = "resync" /\ wire[i].seq > n
            \/ writer \in {"closing", "failed"}

\* serve returns: once any goroutine asks for the close, or the context is
\* cancelled, every goroutine ends and the connection is unregistered.  None
\* of them waits for another that waits for it.
Ends == (~ctx \/ \E t \in Askers : asking[t] # None) ~> reader = "done"

\* The connection as the frame stream it promises its client.
Broken == writer \in {"closing", "failed"}
Numbers(frames) == [i \in DOMAIN frames |-> frames[i].seq]
Stream == INSTANCE FrameStream WITH
    last <- seq,
    pending <- IF Broken THEN <<>> ELSE Numbers(InHand \o queue),
    received <- Numbers(wire),
    owed <- ~Broken /\ ~LockFree,
    phase <- IF Broken THEN "broken" ELSE IF closed THEN "closed" ELSE "open"

\* conn.go implements the promise of FrameStream: each step of a goroutine is
\* a step of the stream or invisible to the client.
ImplementsFrameStream == Stream!Spec
=============================================================================
