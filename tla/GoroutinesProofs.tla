-------------------------- MODULE GoroutinesProofs --------------------------
(***************************************************************************)
(* Proofs about three sets of goroutines that share a lock and nothing with *)
(* each other, for every value of their constants.                          *)
(*                                                                          *)
(* One connection of Conn.tla: it is torn down only after all its           *)
(* goroutines, its frames are received in the order of their numbers, a     *)
(* clean close comes after the last of them, a resync counts what was lost  *)
(* before it, and all of it implements the stream of FrameStream.tla.       *)
(*                                                                          *)
(* The poller of Sweeps.tla: what suppression remembers is on odds.raw, the *)
(* local ledger is never overdrawn and the final flush is last.             *)
(*                                                                          *)
(* One session of Keeper.tla: what the mutex that the SDK holds across the  *)
(* refresh round trip protects.                                             *)
(***************************************************************************)
EXTENDS Conn, Sweeps, Keeper, FiniteSetTheorems, TLAPS

-----------------------------------------------------------------------------
(* One connection of the gateway *)

-----------------------------------------------------------------------------
(* Control: who may still be running when *)

\* What each stage of the teardown implies of the goroutines.  serve waits for
\* the writer, then for the ping loop and the closer, and requestClose takes
\* c.mu, which an overflow holds.
TeardownInv ==
    /\ closed => LockFree
    /\ quit => closed
    /\ reader \in {"ended", "cancelled", "done"} => quit
    /\ reader \in {"cancelled", "done"} => WriterDone /\ ~ctx
    /\ reader = "done" => pinger = "done" /\ closer = "done"
    /\ ~registered => reader = "done"
    /\ closer = "done" => WriterDone /\ ~socket
    /\ WriterDone => hand = None
    /\ writer \in {"drain", "drained"} => quit
    /\ writer = "drained" => queue = <<>>
    /\ asking \in [Askers -> Reasons \cup {None}]
    /\ closed => reason \in Reasons
    /\ closer = "done" /\ writer = "drained" => closeFrame = reason

LEMMA TeardownInit == Init => TeardownInv
BY DEF Init, TeardownInv, LockFree, WriterDone

LEMMA TeardownStep == TeardownInv /\ [Next]_vars => TeardownInv'
<1> SUFFICES ASSUME TeardownInv, [Next]_vars PROVE TeardownInv'
  OBVIOUS
<1> USE DEF TeardownInv, LockFree, WriterDone
<1>1. CASE DiscardOne
  BY <1>1 DEF DiscardOne, closeVars, writerVars
<1>2. CASE QueueResync
  BY <1>2 DEF QueueResync, closeVars, writerVars
<1>3. CASE SignalQuit
  BY <1>3 DEF SignalQuit, queueVars, writerVars
<1>4. ASSUME NEW t \in Askers, TakeClose(t) PROVE TeardownInv'
  BY <1>4 DEF TakeClose, queueVars, writerVars
<1>5. CASE WriterPop
  BY <1>5 DEF WriterPop, closeVars
<1>6. CASE WriteSucceeds
  BY <1>6 DEF WriteSucceeds, queueVars, closeVars
<1>7. CASE WriteFails
  BY <1>7 DEF WriteFails, queueVars, Ask, Reasons
<1>8. CASE WriterQuits
  BY <1>8 DEF WriterQuits, queueVars, closeVars
<1>9. CASE PingStarts
  BY <1>9 DEF PingStarts, queueVars, closeVars, writerVars
<1>10. CASE PingEnds
  BY <1>10 DEF PingEnds, queueVars, writerVars, Ask, Reasons
<1>11. CASE PingerQuits
  BY <1>11 DEF PingerQuits, queueVars, closeVars, writerVars
<1>12. CASE CloseSocket
  BY <1>12 DEF CloseSocket, queueVars, closeVars, writerVars
<1>13. CASE ReadFrame
  BY <1>13 DEF ReadFrame, Send, Fits, Overflows, queueVars, closeVars, writerVars
<1>14. CASE Answered
  BY <1>14 DEF Answered, queueVars, closeVars, writerVars
<1>15. CASE ReadViolation
  BY <1>15 DEF ReadViolation, Send, Fits, Overflows, queueVars, writerVars, Ask, Reasons
<1>16. CASE ReadFails
  BY <1>16 DEF ReadFails, queueVars, writerVars, Ask, Reasons
<1>17. CASE ServeCancels
  BY <1>17 DEF ServeCancels, queueVars, closeVars, writerVars
<1>18. CASE ServeUnregisters
  BY <1>18 DEF ServeUnregisters, queueVars, closeVars, writerVars
<1>19. CASE ParentCancels
  BY <1>19 DEF ParentCancels, queueVars, closeVars, writerVars
<1>20. CASE Publish
  BY <1>20 DEF Publish, Send, Fits, Overflows, queueVars, closeVars, writerVars
<1>21. CASE SendGoodbye
  BY <1>21 DEF SendGoodbye, Send, Fits, Overflows, queueVars, closeVars, writerVars
<1>22. CASE ShutdownCloses
  BY <1>22 DEF ShutdownCloses, queueVars, writerVars, Ask, Reasons
<1>23. CASE UNCHANGED vars
  BY <1>23 DEF vars, queueVars, closeVars, writerVars
<1> QED
  BY <1>1, <1>2, <1>3, <1>4, <1>5, <1>6, <1>7, <1>8, <1>9, <1>10, <1>11, <1>12, <1>13, <1>14,
     <1>15, <1>16, <1>17, <1>18, <1>19, <1>20, <1>21, <1>22, <1>23
     DEF Next, Closing, Writing, Pinging, Reading, Serving

\* The hub forgets a connection only when nothing of it can run any more.
THEOREM TeardownCorrect == Spec => []TornDownOnce
<1>1. TeardownInv => TornDownOnce
  BY DEF TeardownInv, TornDownOnce
<1> QED BY <1>1, TeardownInit, TeardownStep, PTL DEF Spec

-----------------------------------------------------------------------------
(* Frames: what is on the wire, in hand and queued *)

\* The three places a frame can be in, in the order the client gets them; the
\* last number assigned is below none of them.
Sorted(frames) == \A i, j \in DOMAIN frames : i < j => frames[i].seq < frames[j].seq
Below(frames, n) == \A i \in DOMAIN frames : frames[i].seq < n
Above(frames, n) == \A i \in DOMAIN frames : n < frames[i].seq

FramesInv ==
    /\ seq \in Nat
    /\ wire \in Seq(Frames) /\ queue \in Seq(Frames) /\ hand \in Frames \cup {None}
    /\ overflow \in Overflowing \cup {None}
    /\ Sorted(wire) /\ Sorted(queue)
    /\ Below(wire, seq + 1) /\ Below(queue, seq + 1)
    /\ \A i \in DOMAIN queue : Below(wire, queue[i].seq)
    /\ hand # None => Below(wire, hand.seq) /\ Above(queue, hand.seq) /\ hand.seq <= seq

LEMMA FramesHaveNumbers ==
    /\ \A f \in Frames : f.seq \in Nat
    /\ \A frames \in Seq(Frames) : \A i \in DOMAIN frames :
         i \in 1..Len(frames) /\ frames[i] \in Frames /\ frames[i].seq \in Nat
<1>1. \A f \in Frames : f.seq \in Nat
  BY DEF Frames
<1>2. ASSUME NEW frames \in Seq(Frames), NEW i \in DOMAIN frames
      PROVE  i \in 1..Len(frames) /\ frames[i] \in Frames
  OBVIOUS
<1> QED BY <1>1, <1>2

\* The number of a frame that is queued, or of one that is not.
LEMMA NumberOne ==
    ASSUME FramesInv, UNCHANGED <<wire, hand>>,
           \/ \E f \in Frames : f.seq = seq + 1 /\ queue' = Append(queue, f) /\ seq' = seq + 1
           \/ queue' = queue /\ seq' \in {seq, seq + 1},
           overflow' \in Overflowing \cup {None}
    PROVE  FramesInv'
<1> USE DEF FramesInv, Sorted, Below, Above
<1>0. /\ \A i \in DOMAIN queue : i \in 1..Len(queue) /\ queue[i].seq \in Nat
      /\ \A i \in DOMAIN wire : wire[i].seq \in Nat
      /\ hand # None => hand.seq \in Nat
  BY FramesHaveNumbers
<1>1. CASE queue' = queue /\ seq' \in {seq, seq + 1}
  BY <1>0, <1>1
<1>2. ASSUME NEW f \in Frames, f.seq = seq + 1, queue' = Append(queue, f), seq' = seq + 1
      PROVE  FramesInv'
  <2>1. queue' \in Seq(Frames) /\ Len(queue') = Len(queue) + 1
    BY <1>2
  <2>2. \A i \in DOMAIN queue' :
          \/ i \in DOMAIN queue /\ queue'[i] = queue[i]
          \/ i = Len(queue) + 1 /\ queue'[i] = f
    BY <1>2
  <2>5. Sorted(queue')
    BY <1>0, <1>2, <2>1, <2>2
  <2>6. Below(queue', seq' + 1)
    BY <1>0, <1>2, <2>2
  <2>7. Below(wire, seq' + 1) /\ \A i \in DOMAIN queue' : Below(wire, queue'[i].seq)
    BY <1>0, <1>2, <2>2
  <2>8. hand # None => Below(wire, hand.seq) /\ Above(queue', hand.seq) /\ hand.seq <= seq'
    BY <1>0, <1>2, <2>2
  <2> QED BY <1>2, <2>1, <2>5, <2>6, <2>7, <2>8
<1> QED BY <1>1, <1>2

\* Frames leave the head of the queue: to nowhere, or to the hand.
LEMMA TakeHead ==
    ASSUME FramesInv, queue # <<>>, queue' = Tail(queue), UNCHANGED <<wire, seq>>,
           hand' = hand \/ hand' = Head(queue),
           overflow' \in Overflowing \cup {None}
    PROVE  FramesInv'
<1> USE DEF FramesInv, Sorted, Below, Above
<1>1. queue' \in Seq(Frames) /\ Len(queue') = Len(queue) - 1
  BY DEF FramesInv
<1>2. \A i \in DOMAIN queue' : i + 1 \in DOMAIN queue /\ queue'[i] = queue[i + 1]
  OBVIOUS
<1>3. Head(queue) = queue[1] /\ 1 \in DOMAIN queue /\ Head(queue) \in Frames
  OBVIOUS
<1>4. \A i \in DOMAIN queue : queue[i].seq \in Nat
  BY FramesHaveNumbers
<1>5. DOMAIN queue' \subseteq Nat \ {0}
  BY <1>1
<1>6. Sorted(queue')
  BY <1>2, <1>5
<1>7. Below(queue', seq + 1) /\ \A i \in DOMAIN queue' : Below(wire, queue'[i].seq)
  BY <1>2
<1>8. hand' # None => Below(wire, hand'.seq) /\ Above(queue', hand'.seq) /\ hand'.seq <= seq
  <2>1. CASE hand' = hand
    BY <1>2, <2>1
  <2>2. CASE hand' = Head(queue)
    <3>1. Below(wire, queue[1].seq) /\ queue[1].seq <= seq
      BY <1>3, <1>4
    <3>2. Above(queue', queue[1].seq)
      BY <1>2, <1>3, <1>5
    <3> QED BY <1>3, <2>2, <3>1, <3>2
  <2> QED BY <2>1, <2>2
<1> QED BY <1>1, <1>3, <1>6, <1>7, <1>8

LEMMA WriteHand ==
    ASSUME FramesInv, hand # None, wire' = Append(wire, hand), hand' = None,
           UNCHANGED <<seq, queue, overflow>>
    PROVE  FramesInv'
<1> USE DEF FramesInv, Sorted, Below, Above
<1>0. /\ \A i \in DOMAIN wire : i \in 1..Len(wire) /\ wire[i].seq \in Nat
      /\ \A i \in DOMAIN queue : queue[i].seq \in Nat
      /\ hand.seq \in Nat
  BY FramesHaveNumbers
<1>1. wire' \in Seq(Frames) /\ Len(wire') = Len(wire) + 1
  OBVIOUS
<1>2. \A i \in DOMAIN wire' :
        \/ i \in DOMAIN wire /\ wire'[i] = wire[i]
        \/ i = Len(wire) + 1 /\ wire'[i] = hand
  OBVIOUS
<1>3. Sorted(wire')
  BY <1>0, <1>1, <1>2
<1>4. Below(wire', seq + 1) /\ \A i \in DOMAIN queue : Below(wire', queue[i].seq)
  BY <1>0, <1>2
<1> QED BY <1>1, <1>3, <1>4

\* gap.extend returns a gap, and a resync frame is a frame.
LEMMA ExtendGap == ASSUME NEW g \in Gaps, NEW n \in Nat PROVE Extend(g, n) \in Gaps
BY DEF Extend, Gaps

LEMMA ResyncFrame ==
    ASSUME NEW g \in Gaps, NEW n \in Nat
    PROVE  Resync(n, g) \in Frames /\ Resync(n, g).seq = n
BY DEF Resync, Frames, Gaps, Kinds

LEMMA SendKeepsFrames ==
    ASSUME FramesInv, NEW kind \in Kinds, Send(kind), UNCHANGED <<wire, hand>>
    PROVE  FramesInv'
<1>1. CASE UNCHANGED queueVars
  BY <1>1, NumberOne DEF queueVars, FramesInv
<1>2. CASE Fits(kind)
  <2>1. seq \in Nat /\ overflow \in Overflowing \cup {None}
    BY DEF FramesInv
  <2>2. Frame(seq + 1, kind) \in Frames /\ Frame(seq + 1, kind).seq = seq + 1
    BY <2>1 DEF Frame, Frames
  <2> QED BY <1>2, <2>1, <2>2, NumberOne DEF Fits
<1>3. CASE Overflows
  <2>1. overflow' \in Overflowing
    BY <1>3 DEF Overflows, NoGap, Overflowing, Gaps, FramesInv
  <2> QED BY <1>3, <2>1, NumberOne DEF Overflows
<1> QED BY <1>1, <1>2, <1>3 DEF Send

LEMMA FramesInit == Init => FramesInv
BY DEF Init, FramesInv, Sorted, Below, Above

LEMMA FramesStep == FramesInv /\ [Next]_vars => FramesInv'
<1> SUFFICES ASSUME FramesInv, [Next]_vars PROVE FramesInv'
  OBVIOUS
<1>1. seq \in Nat /\ queue \in Seq(Frames) /\ overflow \in Overflowing \cup {None}
  BY DEF FramesInv
<1>2. CASE UNCHANGED <<seq, queue, overflow, wire, hand>>
  BY <1>1, <1>2, NumberOne
<1>3. CASE DiscardOne
  <2>1. overflow \in Overflowing /\ queue # <<>>
    BY <1>1, <1>3 DEF DiscardOne, LockFree
  <2>2. Head(queue) \in Frames
    BY <1>1, <2>1
  <2>3. Extend(overflow.gap, Head(queue).seq) \in Gaps
    BY <2>1, <2>2, ExtendGap, FramesHaveNumbers DEF Overflowing
  <2>4. overflow' \in Overflowing
    BY <1>3, <2>1, <2>3 DEF DiscardOne, Overflowing
  <2> QED BY <1>3, <2>4, TakeHead DEF DiscardOne, writerVars
<1>4. CASE QueueResync
  <2>1. overflow \in Overflowing /\ queue = <<>>
    BY <1>1, <1>4 DEF QueueResync, LockFree
  <2> DEFINE g == Extend(overflow.gap, overflow.pending)
             f == Resync(seq + 1, g)
  <2>2. g \in Gaps
    BY <2>1, ExtendGap DEF Overflowing
  <2>3. queue' = <<f>> /\ seq' = seq + 1 /\ overflow' = None /\ UNCHANGED <<wire, hand>>
    BY <1>4 DEF QueueResync, writerVars
  <2> HIDE DEF g
  <2>4. f \in Frames /\ f.seq = seq + 1
    BY <1>1, <2>2, ResyncFrame
  <2> HIDE DEF f
  <2>5. queue' = Append(queue, f)
    BY <2>1, <2>3
  <2> QED BY <2>3, <2>4, <2>5, NumberOne
<1>5. CASE WriterPop
  BY <1>1, <1>5, TakeHead DEF WriterPop
<1>6. CASE WriteSucceeds
  BY <1>6, WriteHand DEF WriteSucceeds, queueVars
<1>7. CASE WriteFails
  <2>1. hand' = None /\ UNCHANGED <<seq, queue, overflow, wire>>
    BY <1>7 DEF WriteFails, queueVars
  <2> QED BY <2>1 DEF FramesInv
<1>8. CASE ReadFrame \/ ReadViolation \/ Publish \/ SendGoodbye
  <2>1. UNCHANGED <<wire, hand>> /\ \E kind \in Kinds : Send(kind)
    BY <1>8 DEF ReadFrame, ReadViolation, Publish, SendGoodbye, writerVars, Kinds
  <2> QED BY <2>1, SendKeepsFrames
<1>9. CASE \/ Closing \/ WriterQuits \/ Pinging \/ CloseSocket \/ Answered \/ ReadFails
           \/ Serving \/ ParentCancels \/ ShutdownCloses
  BY <1>2, <1>9 DEF Closing, SignalQuit, TakeClose, WriterQuits, Pinging, PingStarts, PingEnds,
       PingerQuits, CloseSocket, Answered, ReadFails, Serving, ServeCancels, ServeUnregisters,
       ParentCancels, ShutdownCloses, queueVars, writerVars
<1>10. CASE UNCHANGED vars
  BY <1>2, <1>10 DEF vars, queueVars, writerVars
<1> QED
  BY <1>3, <1>4, <1>5, <1>6, <1>7, <1>8, <1>9, <1>10 DEF Next, Writing, Reading

\* Two sorted runs of frames, all of the first below all of the second.
LEMMA SortedConcat ==
    ASSUME NEW s \in Seq(Frames), NEW t \in Seq(Frames), Sorted(s), Sorted(t),
           \A i \in DOMAIN t : Below(s, t[i].seq)
    PROVE  s \o t \in Seq(Frames) /\ Sorted(s \o t)
<1> USE DEF Sorted, Below
<1>1. s \o t \in Seq(Frames) /\ Len(s \o t) = Len(s) + Len(t)
  OBVIOUS
<1>2. \A i \in DOMAIN (s \o t) :
        \/ i \in DOMAIN s /\ (s \o t)[i] = s[i]
        \/ i > Len(s) /\ i - Len(s) \in DOMAIN t /\ (s \o t)[i] = t[i - Len(s)]
  OBVIOUS
<1>3. /\ \A i \in DOMAIN s : i \in 1..Len(s)
      /\ \A i \in DOMAIN t : i \in 1..Len(t)
      /\ \A i \in DOMAIN (s \o t) : i \in Nat
  BY <1>1
<1>4. Sorted(s \o t)
  <2> SUFFICES ASSUME NEW i \in DOMAIN (s \o t), NEW j \in DOMAIN (s \o t), i < j
               PROVE  (s \o t)[i].seq < (s \o t)[j].seq
    OBVIOUS
  <2>1. CASE i \in DOMAIN s /\ j \in DOMAIN s /\ (s \o t)[i] = s[i] /\ (s \o t)[j] = s[j]
    BY <2>1
  <2>2. CASE /\ i \in DOMAIN s /\ (s \o t)[i] = s[i]
             /\ j - Len(s) \in DOMAIN t /\ (s \o t)[j] = t[j - Len(s)]
    BY <2>2
  <2>3. CASE /\ i - Len(s) \in DOMAIN t /\ (s \o t)[i] = t[i - Len(s)]
             /\ j - Len(s) \in DOMAIN t /\ (s \o t)[j] = t[j - Len(s)]
    BY <1>3, <2>3
  <2> QED BY <1>2, <1>3, <2>1, <2>2, <2>3
<1> QED BY <1>1, <1>4

LEMMA OutgoingSorted == FramesInv => Sorted(Outgoing)
<1> SUFFICES ASSUME FramesInv PROVE Sorted(Outgoing)
  OBVIOUS
<1>1. /\ wire \in Seq(Frames) /\ queue \in Seq(Frames)
      /\ Sorted(wire) /\ Sorted(queue)
      /\ \A i \in DOMAIN queue : Below(wire, queue[i].seq)
  BY DEF FramesInv
<1>2. CASE hand = None
  <2>1. wire \o InHand = wire
    BY <1>1, <1>2 DEF InHand
  <2> QED BY <1>1, <2>1, SortedConcat DEF Outgoing
<1>3. CASE hand # None
  <2>1. /\ hand \in Frames /\ InHand = <<hand>>
        /\ Below(wire, hand.seq) /\ Above(queue, hand.seq)
    BY <1>3 DEF FramesInv, InHand
  <2>2. <<hand>> \in Seq(Frames) /\ Sorted(<<hand>>)
    BY <2>1 DEF Sorted
  <2>3. wire \o <<hand>> = Append(wire, hand)
    BY <1>1, <2>1
  <2>4. wire \o <<hand>> \in Seq(Frames) /\ Sorted(wire \o <<hand>>)
    <3>1. \A i \in DOMAIN <<hand>> : <<hand>>[i] = hand
      OBVIOUS
    <3>2. \A i \in DOMAIN <<hand>> : Below(wire, <<hand>>[i].seq)
      BY <2>1, <3>1
    <3> QED BY <1>1, <2>2, <3>2, SortedConcat
  <2>5. \A i \in DOMAIN queue : Below(wire \o <<hand>>, queue[i].seq)
    <3>1. \A i \in DOMAIN Append(wire, hand) :
            \/ (i \in DOMAIN wire /\ Append(wire, hand)[i] = wire[i]) \/ Append(wire, hand)[i] = hand
      BY <1>1
    <3> QED BY <1>1, <2>1, <2>3, <3>1 DEF Below, Above
  <2> QED BY <1>1, <2>1, <2>4, <2>5, SortedConcat DEF Outgoing
<1> QED BY <1>2, <1>3

\* Whatever the write loop takes off the channel while an overflow discards it,
\* the client's frames are in the order of their numbers.
THEOREM FramesInOrder == Spec => []InNumberOrder
<1>1. FramesInv => InNumberOrder
  BY OutgoingSorted DEF Sorted, InNumberOrder
<1> QED BY <1>1, FramesInit, FramesStep, PTL DEF Spec

-----------------------------------------------------------------------------
(* A clean close comes after the last frame *)

\* The newest number is on the last frame of the three places, unless the frame
\* that took it overflowed and its resync is not queued yet.
LastInv ==
    (LockFree /\ ~Broken /\ seq > 0) =>
        IF queue # <<>> THEN queue[Len(queue)].seq = seq
        ELSE IF hand # None THEN hand.seq = seq
        ELSE wire # <<>> /\ wire[Len(wire)].seq = seq

LEMMA LastInit == Init => LastInv
BY DEF Init, LastInv

\* A frame joins the tail of the queue.
LEMMA LastAppended ==
    ASSUME NEW f, queue \in Seq(Frames), queue' = Append(queue, f), seq' = f.seq
    PROVE  LastInv'
BY DEF LastInv

LEMMA LastStep == FramesInv /\ LastInv /\ [Next]_vars => LastInv'
<1> SUFFICES ASSUME FramesInv, LastInv, [Next]_vars PROVE LastInv'
  OBVIOUS
<1>1. /\ seq \in Nat /\ queue \in Seq(Frames) /\ wire \in Seq(Frames)
      /\ overflow \in Overflowing \cup {None} /\ hand \in Frames \cup {None}
  BY DEF FramesInv
<1>2. ASSUME UNCHANGED <<seq, queue, overflow, wire, hand>>, ~Broken' => ~Broken
      PROVE  LastInv'
  BY <1>2 DEF LastInv, LockFree
<1>3. CASE DiscardOne
  <2>1. overflow \in Overflowing
    BY <1>1, <1>3 DEF DiscardOne, LockFree
  <2>2. overflow' = [overflow EXCEPT !.gap = Extend(@, Head(queue).seq)] /\ Head(queue) \in Frames
    BY <1>1, <1>3 DEF DiscardOne
  <2>3. overflow' \in Overflowing
    BY <2>1, <2>2, ExtendGap, FramesHaveNumbers DEF Overflowing
  <2> QED BY <2>3, NoneAssumption DEF LastInv, LockFree
<1>4. CASE QueueResync
  <2> DEFINE f == Resync(seq + 1, Extend(overflow.gap, overflow.pending))
  <2>1. queue' = <<f>> /\ queue = <<>> /\ seq' = seq + 1
    BY <1>4 DEF QueueResync
  <2>2. f.seq = seq + 1
    BY DEF Resync
  <2> HIDE DEF f
  <2> QED BY <1>1, <2>1, <2>2, LastAppended
<1>5. CASE WriterPop
  <2>1. /\ hand = None /\ queue # <<>> /\ hand' = Head(queue) /\ queue' = Tail(queue)
        /\ UNCHANGED <<seq, overflow, wire, writer>>
    BY <1>5 DEF WriterPop
  <2>2. Head(queue) \in Frames /\ Head(queue) # None
    BY <1>1, <2>1, NoneAssumption
  <2>3. CASE Len(queue) = 1
    <3>1. queue' = <<>> /\ Head(queue) = queue[Len(queue)]
      BY <1>1, <2>1, <2>3
    <3> QED BY <2>1, <2>2, <3>1 DEF LastInv, LockFree, Broken
  <2>4. CASE Len(queue) # 1
    <3>1. queue' # <<>> /\ queue'[Len(queue')] = queue[Len(queue)]
      <4>1. Len(queue) \in Nat /\ Len(queue) > 1 /\ Len(queue') = Len(queue) - 1
        <5>1. Len(queue) \in Nat /\ Len(queue) # 0
          BY <1>1, <2>1
        <5>2. Len(Tail(queue)) = Len(queue) - 1
          BY <1>1, <2>1
        <5> QED BY <2>1, <2>4, <5>1, <5>2
      <4>2. \A i \in 1..Len(queue) - 1 : Tail(queue)[i] = queue[i + 1]
        BY <1>1, <2>1
      <4>3. Len(queue') # 0 /\ Tail(queue)[Len(queue) - 1] = queue[Len(queue)]
        BY <4>1, <4>2
      <4> QED BY <2>1, <4>1, <4>3
    <3> QED BY <2>1, <3>1 DEF LastInv, LockFree, Broken
  <2> QED BY <2>3, <2>4
<1>6. CASE WriteSucceeds
  <2>1. /\ hand # None /\ hand' = None /\ wire' = Append(wire, hand)
        /\ UNCHANGED <<seq, queue, overflow, writer>>
    BY <1>6 DEF WriteSucceeds, queueVars
  <2>2. wire' # <<>> /\ wire'[Len(wire')] = hand
    BY <1>1, <2>1
  <2> QED BY <2>1, <2>2 DEF LastInv, LockFree, Broken
<1>7. CASE WriteFails
  BY <1>7 DEF WriteFails, LastInv, Broken
<1>8. ASSUME NEW kind \in Kinds, Send(kind), UNCHANGED <<wire, hand, writer>> PROVE LastInv'
  <2>1. CASE UNCHANGED queueVars
    BY <1>2, <1>8, <2>1 DEF queueVars, Broken
  <2>2. CASE Fits(kind)
    BY <1>1, <2>2, LastAppended DEF Fits, Frame
  <2>3. CASE Overflows
    <3>1. overflow' \in Overflowing
      BY <1>1, <2>3 DEF Overflows, NoGap, Overflowing, Gaps
    <3> QED BY <3>1, NoneAssumption DEF LastInv, LockFree
  <2> QED BY <1>8, <2>1, <2>2, <2>3 DEF Send
<1>9. CASE ReadFrame \/ ReadViolation \/ Publish \/ SendGoodbye
  <2>1. UNCHANGED <<wire, hand, writer>> /\ \E kind \in Kinds : Send(kind)
    BY <1>9 DEF ReadFrame, ReadViolation, Publish, SendGoodbye, writerVars, Kinds
  <2> QED BY <1>8, <2>1
<1>10. CASE WriterQuits
  BY <1>2, <1>10 DEF WriterQuits, queueVars, Broken
<1>11. CASE \/ Closing \/ Pinging \/ CloseSocket \/ Answered \/ ReadFails
            \/ Serving \/ ParentCancels \/ ShutdownCloses
  BY <1>2, <1>11 DEF Closing, SignalQuit, TakeClose, Pinging, PingStarts, PingEnds, PingerQuits,
       CloseSocket, Answered, ReadFails, Serving, ServeCancels, ServeUnregisters, ParentCancels,
       ShutdownCloses, queueVars, writerVars, Broken
<1>12. CASE UNCHANGED vars
  BY <1>2, <1>12 DEF vars, queueVars, writerVars, Broken
<1> QED
  BY <1>3, <1>4, <1>5, <1>6, <1>7, <1>9, <1>10, <1>11, <1>12 DEF Next, Writing, Reading

\* A connection that no failed write ended closes its socket only once the
\* client has been written every frame that was queued to it, the newest number
\* last, and says why it closed.
THEOREM DrainCorrect == Spec => []DrainedBeforeClose
<1>1. ASSUME TeardownInv, FramesInv, LastInv PROVE DrainedBeforeClose
  <2> SUFFICES ASSUME closer = "done", writer = "drained"
               PROVE  /\ queue = <<>> /\ hand = None
                      /\ seq > 0 => wire # <<>> /\ wire[Len(wire)].seq = seq
                      /\ closeFrame = reason /\ reason # None
    BY DEF DrainedBeforeClose
  <2>1. /\ queue = <<>> /\ hand = None /\ closeFrame = reason
        /\ closed /\ LockFree /\ reason \in Reasons
    BY <1>1 DEF TeardownInv, WriterDone
  <2>2. ~Broken /\ reason # None
    BY <2>1, NoneAssumption DEF Broken
  <2> QED BY <1>1, <2>1, <2>2 DEF LastInv
<1> QED
  BY <1>1, TeardownInit, TeardownStep, FramesInit, FramesStep, LastInit, LastStep, PTL DEF Spec

-----------------------------------------------------------------------------
(* No loss is left unannounced *)

OnItsWay(f) ==
    \/ \E i \in DOMAIN wire : wire[i] = f
    \/ hand # None /\ hand = f
    \/ \E i \in DOMAIN queue : queue[i] = f

\* A number is on its way, or below a resync frame that is.
Covers(f, n) == f.seq = n \/ (f.kind = "resync" /\ f.seq > n)
HolesInv == (LockFree /\ ~Broken) => \A n \in 1..seq : \E f \in Frames : OnItsWay(f) /\ Covers(f, n)

\* Nothing that is on its way is lost, and nothing is numbered.
LEMMA HolesKept ==
    ASSUME HolesInv, LockFree' => LockFree, Broken => Broken', seq' = seq,
           \A f \in Frames : OnItsWay(f) => OnItsWay(f)'
    PROVE  HolesInv'
BY DEF HolesInv, Covers

\* A frame joins the queue, with the next number.
LEMMA HolesQueued ==
    ASSUME FramesInv, UNCHANGED <<wire, hand>>, Broken => Broken',
           NEW f \in Frames, f.seq = seq + 1, queue' = Append(queue, f), seq' = seq + 1,
           (HolesInv /\ LockFree) \/ f.kind = "resync"
    PROVE  HolesInv'
<1>1. seq \in Nat /\ queue \in Seq(Frames)
  BY DEF FramesInv
<1>2. queue'[Len(queue) + 1] = f /\ Len(queue) + 1 \in DOMAIN queue'
  BY <1>1
<1>3. OnItsWay(f)'
  BY <1>2 DEF OnItsWay
<1>4. \A g \in Frames : OnItsWay(g) => OnItsWay(g)'
  <2>1. \A i \in DOMAIN queue : i \in DOMAIN queue' /\ queue'[i] = queue[i]
    BY <1>1
  <2> QED BY <2>1 DEF OnItsWay
<1> SUFFICES ASSUME ~Broken', NEW n \in 1..seq'
             PROVE  \E g \in Frames : OnItsWay(g)' /\ Covers(g, n)
  BY DEF HolesInv, Covers
<1>5. CASE n = seq + 1 \/ f.kind = "resync"
  BY <1>1, <1>3, <1>5 DEF Covers
<1>6. CASE n \in 1..seq /\ HolesInv /\ LockFree
  BY <1>4, <1>6 DEF HolesInv
<1> QED BY <1>1, <1>5, <1>6

LEMMA HolesSent ==
    ASSUME FramesInv, HolesInv, NEW kind, Send(kind), UNCHANGED <<wire, hand, writer>>,
           kind \in Kinds
    PROVE  HolesInv'
<1>1. CASE UNCHANGED queueVars
  BY <1>1, HolesKept DEF queueVars, OnItsWay, LockFree, Broken
<1>2. CASE Fits(kind)
  <2>1. seq \in Nat
    BY DEF FramesInv
  <2>2. Frame(seq + 1, kind) \in Frames /\ Frame(seq + 1, kind).seq = seq + 1
    BY <2>1 DEF Frame, Frames
  <2>3. LockFree
    BY DEF Send
  <2> QED BY <1>2, <2>2, <2>3, HolesQueued DEF Fits, Broken
<1>3. CASE Overflows
  <2>1. overflow' \in Overflowing
    BY <1>3 DEF Overflows, NoGap, Overflowing, Gaps, FramesInv
  <2> QED BY <2>1, NoneAssumption DEF HolesInv, LockFree
<1> QED BY <1>1, <1>2, <1>3 DEF Send

LEMMA HolesStep == FramesInv /\ HolesInv /\ [Next]_vars => HolesInv'
<1> SUFFICES ASSUME FramesInv, HolesInv, [Next]_vars PROVE HolesInv'
  OBVIOUS
<1>1. seq \in Nat /\ queue \in Seq(Frames) /\ wire \in Seq(Frames)
      /\ overflow \in Overflowing \cup {None} /\ hand \in Frames \cup {None}
  BY DEF FramesInv
<1>2. CASE UNCHANGED <<seq, queue, overflow, wire, hand>> /\ (Broken => Broken')
  BY <1>2, HolesKept DEF OnItsWay, LockFree
<1>3. CASE DiscardOne
  <2>1. overflow \in Overflowing /\ queue # <<>>
    BY <1>1, <1>3 DEF DiscardOne, LockFree
  <2>2. Head(queue) \in Frames
    BY <1>1, <2>1
  <2>3. Extend(overflow.gap, Head(queue).seq) \in Gaps
    BY <2>1, <2>2, ExtendGap, FramesHaveNumbers DEF Overflowing
  <2>4. overflow' \in Overflowing
    BY <1>3, <2>1, <2>3 DEF DiscardOne, Overflowing
  <2> QED BY <2>4, NoneAssumption DEF HolesInv, LockFree
<1>4. CASE QueueResync
  <2>1. overflow \in Overflowing /\ queue = <<>>
    BY <1>1, <1>4 DEF QueueResync, LockFree
  <2> DEFINE g == Extend(overflow.gap, overflow.pending)
             f == Resync(seq + 1, g)
  <2>2. g \in Gaps
    BY <2>1, ExtendGap DEF Overflowing
  <2>3. queue' = <<f>> /\ seq' = seq + 1 /\ UNCHANGED <<wire, hand, writer>>
    BY <1>4 DEF QueueResync, writerVars
  <2>4. f.kind = "resync"
    BY DEF Resync
  <2> HIDE DEF g
  <2>5. f \in Frames /\ f.seq = seq + 1
    BY <1>1, <2>2, ResyncFrame
  <2> HIDE DEF f
  <2>6. queue' = Append(queue, f)
    BY <2>1, <2>3
  <2> QED BY <2>3, <2>4, <2>5, <2>6, HolesQueued DEF Broken
<1>5. CASE WriterPop
  <2>1. /\ queue # <<>> /\ hand = None /\ hand' = Head(queue) /\ queue' = Tail(queue)
        /\ UNCHANGED <<seq, overflow, wire, writer>>
    BY <1>5 DEF WriterPop
  <2>2. hand' # None /\ hand' = queue[1]
    BY <1>1, <2>1, NoneAssumption
  <2>3. \A i \in DOMAIN queue : i = 1 \/ (i - 1 \in DOMAIN queue' /\ queue'[i - 1] = queue[i])
    BY <1>1, <2>1
  <2>4. \A f \in Frames : OnItsWay(f) => OnItsWay(f)'
    BY <2>1, <2>2, <2>3 DEF OnItsWay
  <2> QED BY <2>1, <2>4, HolesKept DEF LockFree, Broken
<1>6. CASE WriteSucceeds
  <2>1. /\ hand # None /\ wire' = Append(wire, hand)
        /\ UNCHANGED <<seq, queue, overflow, writer>>
    BY <1>6 DEF WriteSucceeds, queueVars
  <2>2. /\ Len(wire) + 1 \in DOMAIN wire' /\ wire'[Len(wire) + 1] = hand
        /\ \A i \in DOMAIN wire : i \in DOMAIN wire' /\ wire'[i] = wire[i]
    BY <1>1, <2>1
  <2>3. \A f \in Frames : OnItsWay(f) => OnItsWay(f)'
    BY <2>1, <2>2 DEF OnItsWay
  <2> QED BY <2>1, <2>3, HolesKept DEF LockFree, Broken
<1>7. CASE WriteFails
  BY <1>7 DEF WriteFails, HolesInv, Broken
<1>8. CASE ReadFrame \/ ReadViolation \/ Publish \/ SendGoodbye
  <2>1. UNCHANGED <<wire, hand, writer>> /\ \E kind \in Kinds : Send(kind)
    BY <1>8 DEF ReadFrame, ReadViolation, Publish, SendGoodbye, writerVars, Kinds
  <2> QED BY <2>1, HolesSent
<1>9. CASE \/ Closing \/ WriterQuits \/ Pinging \/ CloseSocket \/ Answered \/ ReadFails
           \/ Serving \/ ParentCancels \/ ShutdownCloses
  BY <1>2, <1>9 DEF Closing, SignalQuit, TakeClose, WriterQuits, Pinging, PingStarts, PingEnds,
       PingerQuits, CloseSocket, Answered, ReadFails, Serving, ServeCancels, ServeUnregisters,
       ParentCancels, ShutdownCloses, queueVars, writerVars, Broken
<1>10. CASE UNCHANGED vars
  BY <1>2, <1>10 DEF vars, queueVars, writerVars, Broken
<1> QED
  BY <1>3, <1>4, <1>5, <1>6, <1>7, <1>8, <1>9, <1>10 DEF Next, Writing, Reading

\* What is on its way is in the frames the client gets.
LEMMA OnItsWayGoesOut ==
    ASSUME FramesInv, NEW f, OnItsWay(f)
    PROVE  \E i \in DOMAIN Outgoing : Outgoing[i] = f
<1>1. wire \in Seq(Frames) /\ queue \in Seq(Frames) /\ hand \in Frames \cup {None}
  BY DEF FramesInv
<1> DEFINE h == InHand
<1>2. h \in Seq(Frames) /\ (hand # None => 1 \in DOMAIN h /\ h[1] = hand)
  BY <1>1 DEF InHand
<1>3. Outgoing = (wire \o h) \o queue
  BY DEF Outgoing
<1> HIDE DEF h
<1>4. wire \o h \in Seq(Frames) /\ Len(wire \o h) = Len(wire) + Len(h)
  BY <1>1, <1>2
<1>5. \A i \in DOMAIN (wire \o h) :
        i \in DOMAIN ((wire \o h) \o queue) /\ ((wire \o h) \o queue)[i] = (wire \o h)[i]
  BY <1>1, <1>4
<1>6. CASE \E i \in DOMAIN wire : wire[i] = f
  <2>1. \A i \in DOMAIN wire : i \in DOMAIN (wire \o h) /\ (wire \o h)[i] = wire[i]
    BY <1>1, <1>2
  <2> QED BY <1>3, <1>5, <1>6, <2>1
<1>7. CASE hand # None /\ hand = f
  <2>1. Len(wire) + 1 \in DOMAIN (wire \o h) /\ (wire \o h)[Len(wire) + 1] = h[1]
    BY <1>1, <1>2, <1>7
  <2> QED BY <1>2, <1>3, <1>5, <1>7, <2>1
<1>8. CASE \E i \in DOMAIN queue : queue[i] = f
  <2>1. PICK i \in DOMAIN queue : queue[i] = f
    BY <1>8
  <2>2. /\ Len(wire \o h) + i \in DOMAIN ((wire \o h) \o queue)
        /\ ((wire \o h) \o queue)[Len(wire \o h) + i] = queue[i]
    BY <1>1, <1>4
  <2> QED BY <1>3, <2>1, <2>2
<1> QED BY <1>6, <1>7, <1>8 DEF OnItsWay

\* D3, no silent hole: whatever an overflow discards, every number missing from
\* the frames on their way is below a resync frame that is on its way, unless a
\* write has failed and the connection is ending.
THEOREM HolesAnnounced == Spec => []NoSilentHole
<1>1. Init => HolesInv
  BY DEF Init, HolesInv
<1>2. ASSUME FramesInv, HolesInv PROVE NoSilentHole
  <2> SUFFICES ASSUME LockFree, NEW n \in 1..seq, ~Broken
               PROVE  \/ \E i \in DOMAIN Outgoing : Outgoing[i].seq = n
                      \/ \E i \in DOMAIN Outgoing : Outgoing[i].kind = "resync" /\ Outgoing[i].seq > n
    BY DEF NoSilentHole, Broken
  <2>1. PICK f \in Frames : OnItsWay(f) /\ Covers(f, n)
    BY <1>2 DEF HolesInv
  <2> QED BY <1>2, <2>1, OnItsWayGoesOut DEF Covers
<1> QED BY <1>1, <1>2, FramesInit, FramesStep, HolesStep, PTL DEF Spec

-----------------------------------------------------------------------------
(* The connection implements the frame stream it promises *)

\* What the write loop still has to do: nothing is in hand once a write failed.
HandInv == Broken => hand = None

LEMMA HandStep == HandInv /\ [Next]_vars => HandInv'
<1> SUFFICES ASSUME HandInv, [Next]_vars PROVE HandInv'
  OBVIOUS
<1> USE DEF HandInv, Broken
<1>1. CASE Writing
  BY <1>1 DEF Writing, WriterPop, WriteSucceeds, WriteFails, WriterQuits
<1>2. CASE UNCHANGED <<hand, writer>>
  BY <1>2
<1>3. CASE UNCHANGED writerVars
  BY <1>2, <1>3 DEF writerVars
<1>4. CASE ReadFrame \/ Publish \/ SendGoodbye \/ ReadViolation
  BY <1>3, <1>4 DEF ReadFrame, Publish, SendGoodbye, ReadViolation
<1>5. CASE \/ DiscardOne \/ QueueResync \/ Closing \/ Pinging \/ CloseSocket \/ Answered \/ ReadFails
           \/ Serving \/ ParentCancels \/ ShutdownCloses
  BY <1>2, <1>3, <1>5 DEF DiscardOne, QueueResync, Closing, SignalQuit, TakeClose, Pinging,
     PingStarts, PingEnds, PingerQuits, CloseSocket, Answered, ReadFails, Serving, ServeCancels,
     ServeUnregisters, ParentCancels, ShutdownCloses
<1>6. CASE UNCHANGED vars
  BY <1>2, <1>6 DEF vars, writerVars
<1> QED BY <1>1, <1>4, <1>5, <1>6 DEF Next, Reading

LEMMA SameNumbers ==
    ASSUME NEW s \in Seq(Nat), NEW t \in Seq(Nat), Len(s) = Len(t), \A i \in 1..Len(s) : s[i] = t[i]
    PROVE  s = t
OBVIOUS

\* The numbers of a sequence of frames, as sequences.
LEMMA NumbersOfFrames ==
    ASSUME NEW s \in Seq(Frames)
    PROVE  /\ Numbers(s) \in Seq(Nat) /\ Len(Numbers(s)) = Len(s)
           /\ \A i \in 1..Len(s) : Numbers(s)[i] = s[i].seq
<1>1. \A i \in 1..Len(s) : s[i].seq \in Nat
  BY FramesHaveNumbers
<1> QED BY <1>1 DEF Numbers

LEMMA NumbersAppend ==
    ASSUME NEW s \in Seq(Frames), NEW f \in Frames
    PROVE  Numbers(Append(s, f)) = Append(Numbers(s), f.seq)
<1>1. f.seq \in Nat
  BY FramesHaveNumbers
<1>2. /\ Numbers(s) \in Seq(Nat) /\ Len(Numbers(s)) = Len(s)
      /\ \A i \in 1..Len(s) : Numbers(s)[i] = s[i].seq
  BY NumbersOfFrames
<1>0. Append(s, f) \in Seq(Frames) /\ Len(Append(s, f)) = Len(s) + 1
  OBVIOUS
<1>3. /\ Numbers(Append(s, f)) \in Seq(Nat) /\ Len(Numbers(Append(s, f))) = Len(s) + 1
      /\ \A i \in 1..Len(s) + 1 : Numbers(Append(s, f))[i] = Append(s, f)[i].seq
  BY <1>0, NumbersOfFrames, Zenon
<1>4. /\ Append(Numbers(s), f.seq) \in Seq(Nat) /\ Len(Append(Numbers(s), f.seq)) = Len(s) + 1
      /\ \A i \in 1..Len(s) + 1 : Append(Numbers(s), f.seq)[i] = Append(s, f)[i].seq
  BY <1>1, <1>2
<1> QED BY <1>3, <1>4, SameNumbers

LEMMA NumbersHead ==
    ASSUME NEW s \in Seq(Frames), s # <<>>
    PROVE  /\ Numbers(s) # <<>> /\ Head(Numbers(s)) = Head(s).seq
           /\ Numbers(Tail(s)) = Tail(Numbers(s))
<1>1. /\ Numbers(s) \in Seq(Nat) /\ Len(Numbers(s)) = Len(s)
      /\ \A i \in 1..Len(s) : Numbers(s)[i] = s[i].seq
  BY NumbersOfFrames
<1>2. Tail(s) \in Seq(Frames) /\ Len(Tail(s)) = Len(s) - 1 /\ Len(s) \in Nat \ {0}
  OBVIOUS
<1>3. /\ Numbers(Tail(s)) \in Seq(Nat) /\ Len(Numbers(Tail(s))) = Len(s) - 1
      /\ \A i \in 1..Len(s) - 1 : Numbers(Tail(s))[i] = Tail(s)[i].seq
  BY <1>2, NumbersOfFrames
<1>4. Numbers(s) # <<>> /\ Head(Numbers(s)) = Head(s).seq
  BY <1>1, <1>2
<1>5. /\ Tail(Numbers(s)) \in Seq(Nat) /\ Len(Tail(Numbers(s))) = Len(s) - 1
      /\ \A i \in 1..Len(s) - 1 : Tail(Numbers(s))[i] = Tail(s)[i].seq
  BY <1>1, <1>2, <1>4
<1>6. Numbers(Tail(s)) = Tail(Numbers(s))
  BY <1>3, <1>5, SameNumbers
<1> QED BY <1>4, <1>6

\* What the client is still to get: the frame in hand, then the queue.
Ahead == InHand \o queue

LEMMA AheadOfClient ==
    ASSUME FramesInv
    PROVE  /\ Ahead \in Seq(Frames)
           /\ hand = None => Ahead = queue
           /\ hand # None => Ahead = <<hand>> \o queue /\ Len(Ahead) = Len(queue) + 1
<1>1. queue \in Seq(Frames) /\ hand \in Frames \cup {None}
  BY DEF FramesInv
<1>2. CASE hand = None
  BY <1>1, <1>2 DEF Ahead, InHand
<1>3. CASE hand # None
  BY <1>1, <1>3 DEF Ahead, InHand
<1> QED BY <1>2, <1>3

LEMMA SameFrames ==
    ASSUME NEW s \in Seq(Frames), NEW t \in Seq(Frames), Len(s) = Len(t), \A i \in 1..Len(s) : s[i] = t[i]
    PROVE  s = t
OBVIOUS

LEMMA AheadAppend ==
    ASSUME FramesInv, hand' = hand, NEW f \in Frames, queue' = Append(queue, f)
    PROVE  Ahead' = Append(Ahead, f)
<1>1. queue \in Seq(Frames) /\ hand \in Frames \cup {None}
  BY DEF FramesInv
<1>2. CASE hand = None
  BY <1>1, <1>2 DEF Ahead, InHand
<1>3. CASE hand # None
  <2>1. hand \in Frames /\ Ahead = <<hand>> \o queue /\ Ahead' = <<hand>> \o Append(queue, f)
    BY <1>1, <1>3 DEF Ahead, InHand
  <2> DEFINE before == Append(<<hand>> \o queue, f)
             after == <<hand>> \o Append(queue, f)
  <2>2. /\ before \in Seq(Frames) /\ Len(before) = Len(queue) + 2
        /\ \A i \in 1..Len(queue) + 2 : before[i] =
             IF i = 1 THEN hand ELSE IF i = Len(queue) + 2 THEN f ELSE queue[i - 1]
    BY <1>1, <2>1
  <2>3. /\ after \in Seq(Frames) /\ Len(after) = Len(queue) + 2
        /\ \A i \in 1..Len(queue) + 2 : after[i] =
             IF i = 1 THEN hand ELSE IF i = Len(queue) + 2 THEN f ELSE queue[i - 1]
    BY <1>1, <2>1
  <2>4. Ahead' = after /\ Append(Ahead, f) = before
    BY <2>1
  <2> HIDE DEF before, after
  <2>5. before = after
    BY <2>2, <2>3, SameFrames
  <2> QED BY <2>4, <2>5
<1> QED BY <1>2, <1>3

\* The head of the queue goes to the hand: nothing the client can tell.
LEMMA AheadPopped ==
    ASSUME FramesInv, hand = None, queue # <<>>, hand' = Head(queue), queue' = Tail(queue)
    PROVE  Ahead' = Ahead
<1>1. queue \in Seq(Frames) /\ Head(queue) \in Frames /\ Head(queue) # None
  BY NoneAssumption DEF FramesInv
<1>2. Ahead = queue /\ Ahead' = <<Head(queue)>> \o Tail(queue)
  BY <1>1 DEF Ahead, InHand
<1>3. <<Head(queue)>> \o Tail(queue) = queue
  BY <1>1
<1> QED BY <1>2, <1>3

LEMMA AheadWritten ==
    ASSUME FramesInv, hand # None, hand' = None, queue' = queue
    PROVE  Ahead # <<>> /\ Head(Ahead) = hand /\ Ahead' = Tail(Ahead)
<1>1. queue \in Seq(Frames) /\ hand \in Frames
  BY DEF FramesInv
<1>2. Ahead = <<hand>> \o queue /\ Ahead' = queue
  BY <1>1 DEF Ahead, InHand
<1> QED BY <1>1, <1>2

\* The frame that is discarded is the one behind the frame in hand.
LEMMA AheadDiscarded ==
    ASSUME FramesInv, hand' = hand, queue # <<>>, queue' = Tail(queue)
    PROVE  \E i \in 1..Len(Ahead) :
             /\ Len(Ahead') = Len(Ahead) - 1
             /\ \A j \in 1..Len(Ahead) - 1 : Ahead'[j] = Ahead[IF j < i THEN j ELSE j + 1]
<1>1. queue \in Seq(Frames) /\ hand \in Frames \cup {None} /\ Len(queue) \in Nat \ {0}
  BY DEF FramesInv
<1>2. CASE hand = None
  <2>1. Ahead = queue /\ Ahead' = Tail(queue)
    BY <1>1, <1>2 DEF Ahead, InHand
  <2> WITNESS 1 \in 1..Len(Ahead)
  <2> QED BY <1>1, <2>1
<1>3. CASE hand # None
  <2>1. Ahead = <<hand>> \o queue /\ Ahead' = <<hand>> \o Tail(queue) /\ hand \in Frames
    BY <1>1, <1>3 DEF Ahead, InHand
  <2>2. 2 \in 1..Len(Ahead)
    BY <1>1, <2>1
  <2> WITNESS 2 \in 1..Len(Ahead)
  <2> QED BY <1>1, <2>1
<1> QED BY <1>2, <1>3

\* Steps the client cannot tell from none.
LEMMA StreamStutters ==
    ASSUME UNCHANGED <<seq, wire, writer>>,
           Broken \/ (Ahead' = Ahead /\ LockFree' = LockFree), Broken \/ closed' = closed
    PROVE  UNCHANGED Stream!streamVars
<1>1. Numbers(wire)' = Numbers(wire) /\ Broken' = Broken
  BY DEF Numbers, Broken
<1>2. CASE Broken
  BY <1>1, <1>2 DEF Stream!streamVars
<1>3. CASE ~Broken
  <2>1. Ahead' = Ahead /\ LockFree' = LockFree /\ closed' = closed
    BY <1>3
  <2>2. Numbers(Ahead)' = Numbers(Ahead)
    BY <2>1 DEF Numbers
  <2> QED BY <1>1, <1>3, <2>1, <2>2 DEF Stream!streamVars, Ahead
<1> QED BY <1>2, <1>3

LEMMA StreamQueues ==
    ASSUME FramesInv, UNCHANGED <<wire, hand, writer, closed>>, ~Broken, ~closed,
           NEW f \in Frames, f.seq = seq + 1, queue' = Append(queue, f), seq' = seq + 1, LockFree'
    PROVE  Stream!Next
<1>1. Ahead' = Append(Ahead, f) /\ Ahead \in Seq(Frames)
  BY AheadAppend, AheadOfClient
<1>2. Numbers(Ahead)' = Append(Numbers(Ahead), seq + 1)
  BY <1>1, NumbersAppend DEF Numbers
<1>3. ~Broken'
  BY DEF Broken
<1>4. CASE LockFree
  BY <1>2, <1>3, <1>4 DEF Stream!Next, Stream!Assign, Ahead
<1>5. CASE ~LockFree
  BY <1>2, <1>3, <1>5 DEF Stream!Next, Stream!Announce, Ahead
<1> QED BY <1>4, <1>5

LEMMA StreamSends ==
    ASSUME TeardownInv, FramesInv, NEW kind \in Kinds, Send(kind), UNCHANGED <<wire, hand, writer, closed>>
    PROVE  [Stream!Next]_(Stream!streamVars)
<1>1. seq \in Nat /\ LockFree
  BY DEF FramesInv, Send
<1>2. CASE UNCHANGED queueVars
  BY <1>2, StreamStutters DEF queueVars, Ahead, InHand, LockFree
<1>3. CASE ~closed /\ Fits(kind)
  <2>1. Frame(seq + 1, kind) \in Frames /\ Frame(seq + 1, kind).seq = seq + 1
    BY <1>1 DEF Frame, Frames
  <2>2. CASE ~Broken
    BY <1>1, <1>3, <2>1, <2>2, StreamQueues DEF Fits, LockFree
  <2>3. CASE Broken
    BY <1>3, <2>3 DEF Fits, Stream!Next, Stream!Spend, Broken
  <2> QED BY <2>2, <2>3
<1>4. CASE ~closed /\ Overflows
  <2>1. overflow' \in Overflowing
    BY <1>1, <1>4 DEF Overflows, NoGap, Overflowing, Gaps
  <2>2. ~LockFree' /\ queue' = queue /\ seq' = seq + 1
    BY <1>4, <2>1, NoneAssumption DEF LockFree, Overflows
  <2>3. CASE ~Broken
    BY <1>1, <1>4, <2>2, <2>3 DEF Stream!Next, Stream!AssignLost, Broken, InHand
  <2>4. CASE Broken
    BY <1>4, <2>2, <2>4 DEF Stream!Next, Stream!Spend, Broken
  <2> QED BY <2>3, <2>4
<1> QED BY <1>2, <1>3, <1>4 DEF Send

LEMMA StreamDiscards ==
    ASSUME TeardownInv, FramesInv, DiscardOne
    PROVE  [Stream!Next]_(Stream!streamVars)
<1>1. /\ ~LockFree /\ ~closed /\ queue # <<>> /\ queue' = Tail(queue)
      /\ UNCHANGED <<seq, wire, hand, writer, closed>>
      /\ overflow' = [overflow EXCEPT !.gap = Extend(@, Head(queue).seq)]
  BY DEF DiscardOne, closeVars, writerVars, TeardownInv
<1>2. ~LockFree'
  <2>1. overflow \in Overflowing /\ queue \in Seq(Frames)
    BY <1>1 DEF FramesInv, LockFree
  <2>2. Extend(overflow.gap, Head(queue).seq) \in Gaps
    BY <1>1, <2>1, ExtendGap, FramesHaveNumbers DEF Overflowing
  <2>3. overflow' \in Overflowing
    BY <1>1, <2>1, <2>2 DEF Overflowing
  <2> QED BY <2>3, NoneAssumption DEF LockFree
<1>3. CASE Broken
  BY <1>1, <1>3, StreamStutters
<1>4. CASE ~Broken
  <2>1. PICK i \in 1..Len(Ahead) :
          /\ Len(Ahead') = Len(Ahead) - 1
          /\ \A j \in 1..Len(Ahead) - 1 : Ahead'[j] = Ahead[IF j < i THEN j ELSE j + 1]
    BY <1>1, AheadDiscarded
  <2>2. Ahead \in Seq(Frames) /\ Ahead' \in Seq(Frames)
    <3>1. queue' \in Seq(Frames) /\ hand' \in Frames \cup {None}
      BY <1>1 DEF FramesInv
    <3>2. InHand' \in Seq(Frames)
      BY <3>1 DEF InHand
    <3> QED BY <3>1, <3>2, AheadOfClient DEF Ahead
  <2> DEFINE was == Numbers(Ahead)
             is == Numbers(Ahead)'
             expected == [j \in 1..Len(was) - 1 |-> was[IF j < i THEN j ELSE j + 1]]
  <2>3. /\ was \in Seq(Nat) /\ Len(was) = Len(Ahead)
        /\ \A j \in 1..Len(Ahead) : was[j] = Ahead[j].seq
    BY <2>2, NumbersOfFrames
  <2>4. /\ is \in Seq(Nat) /\ Len(is) = Len(Ahead')
        /\ \A j \in 1..Len(Ahead') : is[j] = Ahead'[j].seq
    BY <2>2, NumbersOfFrames DEF Numbers
  <2>5. Len(Ahead) \in Nat
    BY <2>2
  <2> HIDE DEF was, is
  <2>6. ASSUME NEW j \in 1..Len(Ahead) - 1
        PROVE  /\ is[j] = was[IF j < i THEN j ELSE j + 1]
               /\ was[IF j < i THEN j ELSE j + 1] \in Nat
    <3>1. PICK k \in 1..Len(Ahead) : k = IF j < i THEN j ELSE j + 1
      BY <2>5
    <3>2. is[j] = Ahead'[j].seq /\ Ahead'[j] = Ahead[k]
      BY <2>1, <2>4, <3>1
    <3>3. was[k] = Ahead[k].seq /\ was[k] \in Nat
      BY <2>3, <3>1
    <3> QED BY <3>1, <3>2, <3>3
  <2>7. expected \in [1..Len(was) - 1 -> Nat] /\ Len(was) - 1 \in Nat
    BY <2>1, <2>3, <2>5, <2>6
  <2>11. /\ expected \in Seq(Nat) /\ Len(expected) = Len(is)
         /\ \A j \in 1..Len(is) : is[j] = expected[j]
    BY <2>1, <2>3, <2>4, <2>5, <2>6, <2>7
  <2> HIDE DEF expected
  <2>8. is = expected
    BY <2>4, <2>11, SameNumbers
  <2>9. i \in DOMAIN was /\ was # <<>>
    BY <2>3, <2>5
  <2> USE DEF was, is, expected
  <2>10. Stream!Lose
    BY <1>1, <1>2, <1>4, <2>8, <2>9 DEF Stream!Lose, Broken, Ahead
  <2> QED BY <2>10 DEF Stream!Next
<1> QED BY <1>3, <1>4
LEMMA StreamWrites ==
    ASSUME TeardownInv, FramesInv, HandInv, Writing
    PROVE  [Stream!Next]_(Stream!streamVars)
<1>1. CASE WriterPop
  <2>1. /\ hand = None /\ queue # <<>> /\ hand' = Head(queue) /\ queue' = Tail(queue)
        /\ UNCHANGED <<seq, overflow, closed, wire, writer>>
    BY <1>1 DEF WriterPop, closeVars
  <2> QED BY <2>1, AheadPopped, StreamStutters DEF LockFree
<1>2. CASE WriteSucceeds
  <2>1. /\ hand # None /\ ~Broken /\ wire' = Append(wire, hand) /\ hand' = None
        /\ UNCHANGED <<seq, queue, overflow, closed, writer>>
    BY <1>2 DEF WriteSucceeds, queueVars, closeVars, HandInv
  <2>2. wire \in Seq(Frames) /\ hand \in Frames /\ Ahead \in Seq(Frames)
    BY <2>1, AheadOfClient DEF FramesInv
  <2>3. Ahead # <<>> /\ Head(Ahead) = hand /\ Ahead' = Tail(Ahead)
    BY <2>1, AheadWritten
  <2>4. Numbers(wire)' = Append(Numbers(wire), hand.seq)
    BY <2>1, <2>2, NumbersAppend DEF Numbers
  <2>5. /\ Numbers(Ahead) # <<>> /\ Head(Numbers(Ahead)) = hand.seq
        /\ Numbers(Ahead)' = Tail(Numbers(Ahead))
    BY <2>2, <2>3, NumbersHead DEF Numbers
  <2>6. ~Broken'
    BY <2>1 DEF Broken
  <2> QED BY <2>1, <2>4, <2>5, <2>6 DEF Stream!Next, Stream!Deliver, LockFree, Ahead
<1>3. CASE WriteFails
  <2>1. ~Broken /\ Broken' /\ UNCHANGED <<seq, wire>>
    BY <1>3 DEF WriteFails, HandInv, Broken, queueVars
  <2> QED BY <2>1 DEF Stream!Next, Stream!Break, Numbers
<1>4. CASE WriterQuits
  <2>1. UNCHANGED <<seq, queue, overflow, closed, hand, wire>>
    BY <1>4 DEF WriterQuits, queueVars, closeVars
  <2>2. Ahead' = Ahead /\ LockFree' = LockFree
    BY <2>1 DEF Ahead, InHand, LockFree
  <2>3. Numbers(wire)' = Numbers(wire)
    BY <2>1 DEF Numbers
  <2>4. CASE ~Broken /\ Broken'
    BY <2>1, <2>3, <2>4 DEF Stream!Next, Stream!Break
  <2>5. CASE Broken' = Broken
    <3>1. Numbers(Ahead)' = Numbers(Ahead)
      BY <2>2 DEF Numbers
    <3> QED BY <2>1, <2>2, <2>3, <2>5, <3>1 DEF Stream!streamVars, Ahead
  <2>6. Broken => Broken'
    BY <1>4 DEF WriterQuits, Broken
  <2>7. (Broken' = Broken) \/ (~Broken /\ Broken')
    BY <2>6 DEF Broken
  <2> QED BY <2>4, <2>5, <2>7
<1> QED BY <1>1, <1>2, <1>3, <1>4 DEF Writing

LEMMA StreamStep ==
    ASSUME TeardownInv, FramesInv, HandInv, [Next]_vars
    PROVE  [Stream!Next]_(Stream!streamVars)
<1>1. CASE DiscardOne
  BY <1>1, StreamDiscards
<1>2. CASE QueueResync
  <2>1. /\ ~LockFree /\ ~closed /\ queue = <<>>
        /\ UNCHANGED <<wire, hand, writer, closed>> /\ LockFree'
    BY <1>2 DEF QueueResync, closeVars, writerVars, TeardownInv, LockFree
  <2>2. overflow \in Overflowing /\ seq \in Nat
    BY <2>1 DEF FramesInv, LockFree
  <2> DEFINE g == Extend(overflow.gap, overflow.pending)
             f == Resync(seq + 1, g)
  <2>3. g \in Gaps
    BY <2>2, ExtendGap DEF Overflowing
  <2>4. queue' = <<f>> /\ seq' = seq + 1
    BY <1>2 DEF QueueResync
  <2> HIDE DEF g
  <2>5. f \in Frames /\ f.seq = seq + 1
    BY <2>2, <2>3, ResyncFrame
  <2> HIDE DEF f
  <2>6. queue' = Append(queue, f)
    BY <2>1, <2>4
  <2>7. CASE ~Broken
    BY <2>1, <2>4, <2>5, <2>6, <2>7, StreamQueues
  <2>8. CASE Broken
    BY <2>1, <2>4, <2>8 DEF Stream!Next, Stream!Spend, Broken
  <2> QED BY <2>7, <2>8
<1>3. CASE \E t \in Askers : TakeClose(t)
  <2>1. /\ ~closed /\ LockFree /\ closed' = TRUE
        /\ UNCHANGED <<seq, queue, overflow, hand, wire, writer>>
    BY <1>3 DEF TakeClose, queueVars, writerVars
  <2>2. CASE Broken
    BY <2>1, <2>2, StreamStutters
  <2>3. CASE ~Broken
    BY <2>1, <2>3 DEF Stream!Next, Stream!Close, Broken, LockFree, InHand, Numbers
  <2> QED BY <2>2, <2>3
<1>4. CASE Writing
  BY <1>4, StreamWrites
<1>5. CASE ReadFrame \/ ReadViolation \/ Publish \/ SendGoodbye
  <2>1. UNCHANGED <<wire, hand, writer, closed>> /\ \E kind \in Kinds : Send(kind)
    BY <1>5 DEF ReadFrame, ReadViolation, Publish, SendGoodbye, closeVars, writerVars, Kinds
  <2> QED BY <2>1, StreamSends
<1>6. CASE UNCHANGED <<seq, queue, overflow, closed, hand, wire, writer>>
  BY <1>6, StreamStutters DEF Ahead, InHand, LockFree
<1>7. CASE \/ SignalQuit \/ Pinging \/ CloseSocket \/ Answered \/ ReadFails
           \/ Serving \/ ParentCancels \/ ShutdownCloses
  BY <1>6, <1>7 DEF SignalQuit, Pinging, PingStarts, PingEnds, PingerQuits, CloseSocket, Answered,
     ReadFails, Serving, ServeCancels, ServeUnregisters, ParentCancels, ShutdownCloses,
     queueVars, closeVars, writerVars
<1>8. CASE UNCHANGED vars
  BY <1>6, <1>8 DEF vars, queueVars, closeVars, writerVars
<1> QED
  BY <1>1, <1>2, <1>3, <1>4, <1>5, <1>7, <1>8 DEF Next, Closing, Reading

\* Every step of the goroutines of a connection is a step of the frame stream
\* it promises its client, or one the client cannot tell from none.
THEOREM PromiseKept == Spec => ImplementsFrameStream
<1>1. Init => Stream!Init
  BY DEF Init, Stream!Init, Broken, LockFree, InHand, Numbers
<1>2. Init => HandInv
  BY DEF Init, HandInv
<1>3. ASSUME TeardownInv, FramesInv, HandInv, [Next]_vars
      PROVE  [Stream!Next]_(Stream!streamVars)
  BY <1>3, StreamStep
<1> QED
  BY <1>1, <1>2, <1>3, TeardownInit, TeardownStep, FramesInit, FramesStep, HandStep, PTL
     DEF Spec, ImplementsFrameStream, Stream!Spec

-----------------------------------------------------------------------------
(* A resync frame counts what the client did not receive *)

\* The numbers the client has, or has on the write loop's hand.
WireNumbers == {wire[j].seq : j \in DOMAIN wire}
Taken == WireNumbers \cup (IF hand = None THEN {} ELSE {hand.seq})

\* The bracket of f holds exactly f.dropped numbers outside T, both ends among them.
Exact(f, T) ==
    /\ Cardinality((f.from .. f.to) \ T) = f.dropped
    /\ {f.from, f.to} \subseteq (f.from .. f.to) \ T

\* A gap that will be exact for the numbers T, when all up to n are in T or discarded.
GapOf(g, T, n) ==
    \/ g = NoGap
    \/ /\ g.from > 0 /\ g.to <= n
       /\ Exact(g, T)
       /\ g.to + 1 .. n \subseteq T

\* What is discarded next is the number after n.
LEMMA ExtendExact ==
    ASSUME NEW T \in SUBSET Nat, NEW n \in Nat, \A t \in T : t <= n,
           NEW g \in Gaps, GapOf(g, T, n)
    PROVE  /\ Extend(g, n + 1) \in Gaps
           /\ Exact(Extend(g, n + 1), T)
           /\ GapOf(Extend(g, n + 1), T, n + 1)
<1> DEFINE e == Extend(g, n + 1)
<1>1. e \in Gaps
  BY ExtendGap
<1>2. g.from \in Nat /\ g.to \in Nat /\ g.dropped \in Nat
  BY DEF Gaps
<1>3. CASE g = NoGap
  <2>1. e.from = n + 1 /\ e.to = n + 1 /\ e.dropped = 1
    BY <1>3 DEF Extend, NoGap
  <2>2. (n + 1 .. n + 1) \ T = {n + 1}
    OBVIOUS
  <2>3. Cardinality({n + 1}) = 1
    BY FS_Singleton
  <2>4. Exact(e, T)
    <3> HIDE DEF e
    <3> QED BY <2>1, <2>2, <2>3 DEF Exact
  <2> HIDE DEF e
  <2> QED BY <1>1, <2>1, <2>4 DEF GapOf, e
<1>4. CASE g # NoGap
  <2>1. g.from > 0 /\ g.to <= n /\ Exact(g, T) /\ g.to + 1 .. n \subseteq T
    BY <1>4 DEF GapOf
  <2>2. g.from <= g.to
    BY <1>2, <2>1 DEF Exact
  <2>3. e.from = g.from /\ e.to = n + 1 /\ e.dropped = g.dropped + 1
    BY <1>2, <2>1, <2>2 DEF Extend
  <2> DEFINE missing == (g.from .. g.to) \ T
  <2>4. (g.from .. n + 1) \ T = missing \cup {n + 1} /\ n + 1 \notin missing
    BY <1>2, <2>1, <2>2
  <2>5. IsFiniteSet(missing)
    <3>1. g.from \in Int /\ g.to \in Int
      BY <1>2
    <3>2. IsFiniteSet(g.from .. g.to)
      BY <3>1, FS_Interval
    <3>3. missing \subseteq g.from .. g.to
      OBVIOUS
    <3> QED BY <3>2, <3>3, FS_Subset
  <2>6. Cardinality(missing) = g.dropped /\ g.from \in missing
    BY <2>1 DEF Exact
  <2> HIDE DEF missing, e
  <2>7. Cardinality(missing \cup {n + 1}) = g.dropped + 1
    BY <2>4, <2>5, <2>6, FS_AddElement
  <2>8. Exact(e, T)
    BY <2>3, <2>4, <2>6, <2>7 DEF Exact
  <2> QED BY <1>1, <2>1, <2>3, <2>8 DEF GapOf, e
<1> QED BY <1>3, <1>4

\* What is taken later is outside the bracket.
LEMMA ExactLater ==
    ASSUME NEW T \in SUBSET Nat, NEW n \in Nat, NEW g, g.from \in Nat, g.to \in Nat,
           Exact(g, T), g.to <= n
    PROVE  Exact(g, T \cup {n + 1})
<1>1. (g.from .. g.to) \ (T \cup {n + 1}) = (g.from .. g.to) \ T
  OBVIOUS
<1> QED BY <1>1 DEF Exact

\* The highest number that was queued, and the one before the head of the queue.
Top == IF LockFree THEN seq ELSE overflow.pending - 1
Behind == Top - Len(queue)

\* The queue is a run of consecutive numbers, a resync can only be its head, and
\* everything taken is below it.  What an overflow has counted so far is exact
\* for what was taken before it, and so is a resync until it is taken itself.
CountInv ==
    /\ ~LockFree => overflow.pending = seq
    /\ Behind >= 0
    /\ \A i \in DOMAIN queue : queue[i].seq = Behind + i
    /\ \A i \in DOMAIN queue : queue[i].kind = "resync" => i = 1
    /\ \A n \in Taken : n <= Behind
    /\ ~LockFree /\ ~Broken => GapOf(overflow.gap, Taken, Behind)
    /\ ~Broken => \A i \in DOMAIN queue : queue[i].kind = "resync" => Exact(queue[i], Taken)
    /\ hand # None /\ hand.kind = "resync" => Exact(hand, WireNumbers)
    /\ GapCountExact

LEMMA CountInit == Init => CountInv
BY DEF Init, CountInv, LockFree, Top, Behind, Taken, WireNumbers, GapCountExact

\* The numbers the count is about, as numbers.
LEMMA CountedNumbers ==
    ASSUME FramesInv, CountInv
    PROVE  /\ WireNumbers \in SUBSET Nat /\ Taken \in SUBSET Nat /\ WireNumbers \subseteq Taken
           /\ Behind \in Nat /\ Top \in Int /\ Top = Behind + Len(queue) /\ Len(queue) \in Nat
           /\ DOMAIN queue = 1..Len(queue)
           /\ LockFree => Top = seq
           /\ ~LockFree => overflow \in Overflowing /\ Top = seq - 1
<1>1. /\ seq \in Nat /\ wire \in Seq(Frames) /\ queue \in Seq(Frames)
      /\ hand \in Frames \cup {None} /\ overflow \in Overflowing \cup {None}
  BY DEF FramesInv
<1>2. WireNumbers \in SUBSET Nat
  BY <1>1, FramesHaveNumbers DEF WireNumbers
<1>3. Taken \in SUBSET Nat /\ WireNumbers \subseteq Taken
  BY <1>1, <1>2, FramesHaveNumbers DEF Taken
<1>4. LockFree => Top = seq
  BY DEF Top
<1>5. ~LockFree => overflow \in Overflowing /\ Top = seq - 1
  BY <1>1 DEF Top, CountInv, LockFree
<1>6. Top \in Int /\ Len(queue) \in Nat /\ DOMAIN queue = 1..Len(queue)
  BY <1>1, <1>4, <1>5
<1>7. Behind \in Nat /\ Top = Behind + Len(queue)
  BY <1>6 DEF Behind, CountInv
<1> QED BY <1>2, <1>3, <1>4, <1>5, <1>6, <1>7

\* What the client has does not change what it was told.
LEMMA CountKept ==
    ASSUME GapCountExact, wire' = wire
    PROVE  GapCountExact'
<1>1. GapCountExact <=> \A i \in DOMAIN wire : wire[i].kind = "resync" => Exact(wire[i], ReceivedBefore(i))
  BY DEF GapCountExact, Exact
<1>2. (GapCountExact <=> \A i \in DOMAIN wire : wire[i].kind = "resync" => Exact(wire[i], ReceivedBefore(i)))'
  BY DEF GapCountExact, Exact
<1>3. \A i : ReceivedBefore(i)' = ReceivedBefore(i)
  BY DEF ReceivedBefore
<1> QED BY <1>1, <1>2, <1>3

LEMMA CountStutters ==
    ASSUME CountInv, UNCHANGED <<seq, queue, overflow, wire, hand>>, Broken => Broken'
    PROVE  CountInv'
<1>1. Taken' = Taken /\ WireNumbers' = WireNumbers /\ Behind' = Behind /\ LockFree' = LockFree
  BY DEF Taken, WireNumbers, Behind, Top, LockFree
<1>2. GapCountExact'
  BY CountKept DEF CountInv
<1> HIDE DEF Taken, Behind, WireNumbers
<1> QED BY <1>1, <1>2 DEF CountInv

\* A frame that is queued, or overflows, goes behind all the others.
LEMMA CountSends ==
    ASSUME FramesInv, CountInv, UNCHANGED <<wire, hand, writer>>, NEW kind \in Kinds \ {"resync"},
           Send(kind)
    PROVE  CountInv'
<1>1. Taken' = Taken /\ WireNumbers' = WireNumbers /\ Broken' = Broken
  BY DEF Taken, WireNumbers, Broken
<1>2. GapCountExact'
  BY CountKept DEF CountInv
<1>3. /\ Taken \in SUBSET Nat /\ Behind \in Nat /\ Top = Behind + Len(queue) /\ Len(queue) \in Nat
      /\ DOMAIN queue = 1..Len(queue) /\ LockFree /\ Top = seq
  BY CountedNumbers DEF Send
<1>4. seq \in Nat /\ queue \in Seq(Frames)
  BY DEF FramesInv
<1> HIDE DEF Taken, WireNumbers
<1>5. CASE UNCHANGED queueVars
  BY <1>5, CountStutters, <1>1 DEF queueVars
<1>6. CASE Fits(kind)
  <2> DEFINE f == Frame(seq + 1, kind)
  <2>1. queue' = Append(queue, f) /\ seq' = seq + 1 /\ overflow' = overflow
    BY <1>6 DEF Fits
  <2>2. f \in Frames /\ f.seq = seq + 1 /\ f.kind # "resync"
    BY <1>4 DEF Frame, Frames
  <2> HIDE DEF f
  <2>3. Len(queue') = Len(queue) + 1 /\ LockFree'
    BY <1>3, <1>4, <2>1, <2>2 DEF LockFree
  <2>4. Top' = seq + 1
    BY <2>1, <2>3 DEF Top
  <2>5. Behind' = Behind
    BY <1>3, <1>4, <2>3, <2>4 DEF Behind
  <2>6. \A i \in DOMAIN queue' :
          \/ i \in DOMAIN queue /\ queue'[i] = queue[i]
          \/ i = Len(queue) + 1 /\ queue'[i] = f
    BY <1>3, <1>4, <2>1, <2>2
  <2>7. \A i \in DOMAIN queue' : queue'[i].seq = Behind' + i
    <3>1. f.seq = Behind' + (Len(queue) + 1)
      BY <1>3, <1>4, <2>2, <2>5
    <3>2. \A i \in DOMAIN queue : queue[i].seq = Behind' + i
      BY <2>5 DEF CountInv
    <3> QED BY <2>6, <3>1, <3>2
  <2>8. \A i \in DOMAIN queue' : queue'[i].kind = "resync" => i = 1
    BY <2>2, <2>6 DEF CountInv
  <2>9. ~Broken' => \A i \in DOMAIN queue' : queue'[i].kind = "resync" => Exact(queue'[i], Taken')
    BY <1>1, <2>2, <2>6 DEF CountInv
  <2>10. hand' # None /\ hand'.kind = "resync" => Exact(hand', WireNumbers')
    BY <1>1 DEF CountInv
  <2>11. Behind' >= 0 /\ \A n \in Taken' : n <= Behind'
    BY <1>1, <1>3, <2>5 DEF CountInv
  <2> QED BY <1>2, <2>3, <2>7, <2>8, <2>9, <2>10, <2>11 DEF CountInv
<1>7. CASE Overflows
  <2>1. /\ queue' = queue /\ seq' = seq + 1 /\ overflow' = [pending |-> seq + 1, gap |-> NoGap]
    BY <1>7 DEF Overflows
  <2>2. overflow'.pending = seq' /\ overflow'.gap = NoGap
    BY <2>1
  <2>3. overflow' \in Overflowing
    BY <1>4, <2>1 DEF Overflowing, Gaps, NoGap
  <2>4. ~LockFree'
    BY <2>3, NoneAssumption DEF LockFree
  <2>5. Top' = seq
    BY <1>4, <2>1, <2>2, <2>4 DEF Top
  <2>6. Behind' = Behind
    BY <1>3, <2>1, <2>5 DEF Behind
  <2>7. GapOf(overflow'.gap, Taken', Behind')
    BY <2>2 DEF GapOf
  <2>8. ~Broken' => \A i \in DOMAIN queue' : queue'[i].kind = "resync" => Exact(queue'[i], Taken')
    BY <1>1, <2>1 DEF CountInv
  <2>9. hand' # None /\ hand'.kind = "resync" => Exact(hand', WireNumbers')
    BY <1>1 DEF CountInv
  <2>10. /\ Behind' >= 0 /\ \A n \in Taken' : n <= Behind'
         /\ \A i \in DOMAIN queue' : queue'[i].seq = Behind' + i
         /\ \A i \in DOMAIN queue' : queue'[i].kind = "resync" => i = 1
    BY <1>1, <2>1, <2>6 DEF CountInv
  <2> QED BY <1>2, <2>2, <2>7, <2>8, <2>9, <2>10 DEF CountInv
<1> QED BY <1>5, <1>6, <1>7 DEF Send

\* The frame at the head of the queue: the next number that is not taken.
LEMMA CountHead ==
    ASSUME FramesInv, CountInv, queue # <<>>
    PROVE  /\ Head(queue) = queue[1] /\ Head(queue) \in Frames /\ Head(queue).seq = Behind + 1
           /\ 1 \in DOMAIN queue
           /\ Tail(queue) \in Seq(Frames) /\ Len(Tail(queue)) = Len(queue) - 1
           /\ \A i \in DOMAIN Tail(queue) :
                /\ i + 1 \in DOMAIN queue /\ Tail(queue)[i] = queue[i + 1]
                /\ Tail(queue)[i].seq = Behind + 1 + i
                /\ Tail(queue)[i].kind # "resync"
<1>1. queue \in Seq(Frames) /\ Behind \in Nat
  BY CountedNumbers DEF FramesInv
<1>2. \A i \in DOMAIN queue : queue[i].seq = Behind + i /\ (queue[i].kind = "resync" => i = 1)
  BY DEF CountInv
<1>3. 1 \in DOMAIN queue /\ Head(queue) = queue[1] /\ Head(queue) \in Frames
  BY <1>1
<1>4. Tail(queue) \in Seq(Frames) /\ Len(Tail(queue)) = Len(queue) - 1
  BY <1>1
<1>5. \A i \in DOMAIN Tail(queue) : i \in Nat \ {0} /\ i + 1 \in DOMAIN queue /\ Tail(queue)[i] = queue[i + 1]
  BY <1>1, <1>4
<1>6. \A i \in DOMAIN Tail(queue) : Tail(queue)[i].seq = Behind + 1 + i
  BY <1>1, <1>2, <1>5
<1>7. \A i \in DOMAIN Tail(queue) : Tail(queue)[i].kind # "resync"
  BY <1>2, <1>5
<1> QED BY <1>2, <1>3, <1>4, <1>5, <1>6, <1>7

LEMMA CountDiscards ==
    ASSUME FramesInv, CountInv, DiscardOne
    PROVE  CountInv'
<1>1. /\ ~LockFree /\ queue # <<>> /\ queue' = Tail(queue) /\ UNCHANGED <<seq, wire, hand, writer>>
      /\ overflow' = [overflow EXCEPT !.gap = Extend(@, Head(queue).seq)]
  BY DEF DiscardOne, writerVars
<1>2. Taken' = Taken /\ WireNumbers' = WireNumbers /\ Broken' = Broken
  BY <1>1 DEF Taken, WireNumbers, Broken
<1>3. GapCountExact'
  BY <1>1, CountKept DEF CountInv
<1>4. /\ Taken \in SUBSET Nat /\ Behind \in Nat /\ Top = Behind + Len(queue) /\ Len(queue) \in Nat
      /\ overflow \in Overflowing /\ Top = seq - 1
  BY <1>1, CountedNumbers
<1>5. Head(queue).seq = Behind + 1
  BY <1>1, CountHead
<1>6. /\ Len(queue') = Len(queue) - 1
      /\ \A i \in DOMAIN queue' : queue'[i].seq = Behind + 1 + i /\ queue'[i].kind # "resync"
  BY <1>1, CountHead
<1> HIDE DEF Taken, WireNumbers
<1>7. /\ overflow.gap \in Gaps /\ overflow.pending = seq
      /\ overflow'.gap = Extend(overflow.gap, Behind + 1) /\ overflow'.pending = seq
  BY <1>1, <1>4, <1>5 DEF Overflowing, CountInv
<1>8. /\ overflow'.gap \in Gaps /\ (~Broken => GapOf(overflow'.gap, Taken, Behind + 1))
  <2>1. \A n \in Taken : n <= Behind
    BY DEF CountInv
  <2>2. CASE ~Broken
    <3>1. GapOf(overflow.gap, Taken, Behind)
      BY <1>1, <2>2 DEF CountInv
    <3> QED BY <1>4, <1>7, <2>1, <3>1, ExtendExact
  <2>3. CASE Broken
    BY <1>4, <1>7, <2>3, ExtendGap
  <2> QED BY <2>2, <2>3
<1>9. overflow' \in Overflowing
  BY <1>1, <1>4, <1>5, <1>7, <1>8 DEF Overflowing
<1>10. ~LockFree'
  BY <1>9, NoneAssumption DEF LockFree
<1>11. Top' = Top
  BY <1>1, <1>4, <1>7, <1>10 DEF Top
<1>12. Behind' = Behind + 1
  BY <1>4, <1>6, <1>11 DEF Behind
<1>13. \A n \in Taken' : n <= Behind'
  BY <1>2, <1>4, <1>12 DEF CountInv
<1>14. hand' # None /\ hand'.kind = "resync" => Exact(hand', WireNumbers')
  BY <1>1, <1>2 DEF CountInv
<1>15. overflow'.pending = seq' /\ Behind' >= 0
  BY <1>1, <1>4, <1>7, <1>12
<1> QED BY <1>1, <1>2, <1>3, <1>6, <1>8, <1>12, <1>13, <1>14, <1>15 DEF CountInv

\* The frame that did not fit is the last the gap counts, and the resync that
\* takes the next number is the whole queue.
LEMMA CountResync ==
    ASSUME FramesInv, CountInv, QueueResync
    PROVE  CountInv'
<1> DEFINE g == Extend(overflow.gap, overflow.pending)
           f == Resync(seq + 1, g)
<1>1. /\ ~LockFree /\ queue = <<>> /\ queue' = <<f>> /\ seq' = seq + 1 /\ overflow' = None
      /\ UNCHANGED <<wire, hand, writer>>
  BY DEF QueueResync, writerVars
<1>2. Taken' = Taken /\ WireNumbers' = WireNumbers /\ Broken' = Broken /\ LockFree'
  BY <1>1 DEF Taken, WireNumbers, Broken, LockFree
<1>3. GapCountExact'
  BY <1>1, CountKept DEF CountInv
<1>4. /\ Taken \in SUBSET Nat /\ Behind \in Nat /\ Top = Behind /\ overflow \in Overflowing
      /\ Top = seq - 1 /\ seq \in Nat /\ overflow.pending = Behind + 1
  <2>1. /\ Taken \in SUBSET Nat /\ Behind \in Nat /\ Top = Behind + Len(queue)
        /\ overflow \in Overflowing /\ Top = seq - 1
    BY <1>1, CountedNumbers
  <2>2. seq \in Nat /\ overflow.pending = seq /\ Len(queue) = 0
    BY <1>1 DEF FramesInv, CountInv
  <2> QED BY <2>1, <2>2
<1> HIDE DEF Taken, WireNumbers
<1>5. g \in Gaps /\ (~Broken => Exact(g, Taken))
  <2>1. \A n \in Taken : n <= Behind
    BY DEF CountInv
  <2>2. overflow.gap \in Gaps
    BY <1>4 DEF Overflowing
  <2>3. CASE ~Broken
    <3>1. GapOf(overflow.gap, Taken, Behind)
      BY <1>1, <2>3 DEF CountInv
    <3>2. /\ Extend(overflow.gap, Behind + 1) \in Gaps
          /\ Exact(Extend(overflow.gap, Behind + 1), Taken)
      BY <1>4, <2>1, <2>2, <3>1, ExtendExact
    <3> QED BY <1>4, <3>2
  <2>4. CASE Broken
    <3>1. overflow.pending \in Nat
      BY <1>4 DEF Overflowing
    <3>2. g \in Gaps
      BY <2>2, <3>1, ExtendGap
    <3> HIDE DEF g
    <3> QED BY <2>4, <3>2
  <2> HIDE DEF g
  <2> QED BY <2>3, <2>4
<1> HIDE DEF g
<1>6. /\ f \in Frames /\ f.seq = seq + 1
      /\ f.from = g.from /\ f.to = g.to /\ f.dropped = g.dropped
  BY <1>4, <1>5, ResyncFrame DEF Resync
<1>7. ~Broken => Exact(f, Taken)
  BY <1>5, <1>6 DEF Exact
<1> HIDE DEF f
<1>8. Len(queue') = 1 /\ DOMAIN queue' = {1} /\ queue'[1] = f
  BY <1>1
<1>9. Top' = seq + 1
  BY <1>1, <1>2 DEF Top
<1>10. Behind' = seq
  BY <1>4, <1>8, <1>9 DEF Behind
<1>11. \A i \in DOMAIN queue' : queue'[i].seq = Behind' + i /\ i = 1
  BY <1>6, <1>8, <1>10
<1>12. Behind' >= 0 /\ \A n \in Taken' : n <= Behind'
  BY <1>2, <1>4, <1>10 DEF CountInv
<1>13. ~Broken' => \A i \in DOMAIN queue' : Exact(queue'[i], Taken')
  BY <1>2, <1>7, <1>8
<1>14. hand' # None /\ hand'.kind = "resync" => Exact(hand', WireNumbers')
  BY <1>1, <1>2 DEF CountInv
<1> QED BY <1>2, <1>3, <1>11, <1>12, <1>13, <1>14 DEF CountInv

\* The write loop takes the head of the queue: its number is the next one taken.
LEMMA CountPops ==
    ASSUME FramesInv, CountInv, WriterPop
    PROVE  CountInv'
<1>1. /\ writer \in {"run", "drain"} /\ hand = None /\ queue # <<>>
      /\ hand' = Head(queue) /\ queue' = Tail(queue) /\ UNCHANGED <<seq, overflow, wire, writer>>
  BY DEF WriterPop
<1>2. /\ Head(queue) \in Frames /\ Head(queue) = queue[1] /\ Head(queue).seq = Behind + 1
      /\ 1 \in DOMAIN queue /\ Len(queue') = Len(queue) - 1
      /\ \A i \in DOMAIN queue' : queue'[i].seq = Behind + 1 + i /\ queue'[i].kind # "resync"
  BY <1>1, CountHead
<1>3. ~Broken /\ ~Broken' /\ LockFree' = LockFree
  BY <1>1 DEF Broken, LockFree
<1>4. /\ WireNumbers' = WireNumbers /\ Taken = WireNumbers /\ Taken' = Taken \cup {Behind + 1}
  BY <1>1, <1>2, NoneAssumption DEF Taken, WireNumbers
<1>5. GapCountExact'
  BY <1>1, CountKept DEF CountInv
<1>6. /\ Taken \in SUBSET Nat /\ Behind \in Nat /\ Top = Behind + Len(queue) /\ Len(queue) \in Nat
      /\ Top \in Int /\ (~LockFree => overflow \in Overflowing)
  BY CountedNumbers
<1> HIDE DEF Taken, WireNumbers
<1>7. Top' = Top
  BY <1>1, <1>3 DEF Top
<1>8. Behind' = Behind + 1
  BY <1>2, <1>6, <1>7 DEF Behind
<1>9. \A n \in Taken' : n <= Behind'
  BY <1>4, <1>6, <1>8 DEF CountInv
<1>10. ~LockFree' => GapOf(overflow'.gap, Taken', Behind')
  <2> SUFFICES ASSUME ~LockFree PROVE GapOf(overflow.gap, Taken \cup {Behind + 1}, Behind + 1)
    BY <1>1, <1>3, <1>4, <1>8
  <2> DEFINE g == overflow.gap
  <2>1. GapOf(g, Taken, Behind) /\ g \in Gaps
    BY <1>3, <1>6 DEF CountInv, Overflowing
  <2>2. g.from \in Nat /\ g.to \in Nat
    BY <2>1 DEF Gaps
  <2> HIDE DEF g
  <2>3. CASE g # NoGap
    <3>1. g.from > 0 /\ g.to <= Behind /\ Exact(g, Taken) /\ g.to + 1 .. Behind \subseteq Taken
      BY <2>1, <2>3 DEF GapOf
    <3>2. Exact(g, Taken \cup {Behind + 1})
      BY <1>6, <2>2, <3>1, ExactLater
    <3>3. g.to + 1 .. Behind + 1 \subseteq Taken \cup {Behind + 1}
      BY <1>6, <2>2, <3>1
    <3> QED BY <1>6, <2>2, <3>1, <3>2, <3>3 DEF GapOf, g
  <2> QED BY <2>3 DEF GapOf, g
<1>11. hand' # None /\ hand'.kind = "resync" => Exact(hand', WireNumbers')
  BY <1>1, <1>2, <1>3, <1>4 DEF CountInv
<1>12. ~LockFree' => overflow'.pending = seq'
  BY <1>1, <1>3 DEF CountInv
<1> QED BY <1>2, <1>3, <1>5, <1>6, <1>8, <1>9, <1>10, <1>11, <1>12 DEF CountInv

\* What was in hand is on the wire: nothing else is taken.
LEMMA CountWrites ==
    ASSUME FramesInv, CountInv, WriteSucceeds
    PROVE  CountInv'
<1>1. /\ hand # None /\ wire' = Append(wire, hand) /\ hand' = None
      /\ UNCHANGED <<seq, queue, overflow, writer>>
  BY DEF WriteSucceeds, queueVars
<1>2. wire \in Seq(Frames) /\ hand \in Frames
  BY <1>1 DEF FramesInv
<1>3. /\ Len(wire') = Len(wire) + 1 /\ Len(wire) \in Nat
      /\ DOMAIN wire' = 1..Len(wire) + 1 /\ DOMAIN wire = 1..Len(wire)
      /\ \A i \in 1..Len(wire) : wire'[i] = wire[i]
      /\ wire'[Len(wire) + 1] = hand
  BY <1>1, <1>2
<1>4. WireNumbers' = WireNumbers \cup {hand.seq}
  BY <1>3 DEF WireNumbers
<1>5. Taken' = Taken
  BY <1>1, <1>4 DEF Taken
<1>6. Behind' = Behind /\ LockFree' = LockFree /\ Broken' = Broken
  BY <1>1 DEF Behind, Top, LockFree, Broken
<1>7. GapCountExact'
  <2>1. ASSUME NEW i \in DOMAIN wire PROVE ReceivedBefore(i)' = ReceivedBefore(i)
    <3>1. \A j \in 1..i - 1 : wire'[j] = wire[j]
      BY <1>3
    <3> QED BY <3>1 DEF ReceivedBefore
  <2>2. ASSUME NEW i, i = Len(wire) + 1 PROVE ReceivedBefore(i)' = WireNumbers
    <3>1. ReceivedBefore(i)' = {wire'[j].seq : j \in 1..i - 1}
      BY DEF ReceivedBefore
    <3>2. 1..i - 1 = DOMAIN wire
      BY <1>3, <2>2
    <3>3. \A j \in DOMAIN wire : wire'[j] = wire[j]
      BY <1>3
    <3> QED BY <3>1, <3>2, <3>3 DEF WireNumbers
  <2>3. \A i \in DOMAIN wire : wire[i].kind = "resync" => Exact(wire[i], ReceivedBefore(i))
    BY DEF CountInv, GapCountExact, Exact
  <2>4. hand.kind = "resync" => Exact(hand, WireNumbers)
    BY <1>1 DEF CountInv
  <2>5. ASSUME NEW i \in DOMAIN wire', wire'[i].kind = "resync" PROVE Exact(wire'[i], ReceivedBefore(i)')
    <3>1. CASE i \in DOMAIN wire
      BY <1>3, <2>1, <2>3, <2>5, <3>1
    <3>2. CASE i = Len(wire) + 1
      BY <1>3, <2>2, <2>4, <2>5, <3>2
    <3> QED BY <1>3, <3>1, <3>2
  <2>6. (GapCountExact <=> \A i \in DOMAIN wire : wire[i].kind = "resync" => Exact(wire[i], ReceivedBefore(i)))'
    BY DEF GapCountExact, Exact
  <2> QED BY <2>5, <2>6
<1> HIDE DEF Taken, WireNumbers
<1> QED BY <1>1, <1>5, <1>6, <1>7 DEF CountInv

LEMMA CountFails ==
    ASSUME FramesInv, CountInv, WriteFails
    PROVE  CountInv'
<1>1. hand' = None /\ Broken' /\ UNCHANGED <<seq, queue, overflow, wire>>
  BY DEF WriteFails, queueVars, Broken
<1>2. Taken' \subseteq Taken /\ WireNumbers' = WireNumbers
  BY <1>1 DEF Taken, WireNumbers
<1>3. Behind' = Behind /\ LockFree' = LockFree
  BY <1>1 DEF Behind, Top, LockFree
<1>4. GapCountExact'
  BY <1>1, CountKept DEF CountInv
<1> HIDE DEF Taken, WireNumbers
<1> QED BY <1>1, <1>2, <1>3, <1>4 DEF CountInv

LEMMA CountStep == FramesInv /\ CountInv /\ [Next]_vars => CountInv'
<1> SUFFICES ASSUME FramesInv, CountInv, [Next]_vars PROVE CountInv'
  OBVIOUS
<1>1. CASE DiscardOne
  BY <1>1, CountDiscards
<1>2. CASE QueueResync
  BY <1>2, CountResync
<1>3. CASE WriterPop
  BY <1>3, CountPops
<1>4. CASE WriteSucceeds
  BY <1>4, CountWrites
<1>5. CASE WriteFails
  BY <1>5, CountFails
<1>6. CASE ReadFrame \/ ReadViolation \/ Publish \/ SendGoodbye
  <2>1. UNCHANGED <<wire, hand, writer>> /\ \E kind \in Kinds \ {"resync"} : Send(kind)
    BY <1>6 DEF ReadFrame, ReadViolation, Publish, SendGoodbye, writerVars, Kinds
  <2> QED BY <2>1, CountSends
<1>7. CASE WriterQuits
  BY <1>7, CountStutters DEF WriterQuits, queueVars, Broken
<1>8. CASE UNCHANGED <<seq, queue, overflow, wire, hand, writer>>
  BY <1>8, CountStutters DEF Broken
<1>9. CASE \/ Closing \/ Pinging \/ CloseSocket \/ Answered \/ ReadFails
           \/ Serving \/ ParentCancels \/ ShutdownCloses
  BY <1>8, <1>9 DEF Closing, SignalQuit, TakeClose, Pinging, PingStarts, PingEnds,
       PingerQuits, CloseSocket, Answered, ReadFails, Serving, ServeCancels, ServeUnregisters,
       ParentCancels, ShutdownCloses, queueVars, writerVars
<1>10. CASE UNCHANGED vars
  BY <1>8, <1>10 DEF vars, queueVars, writerVars
<1> QED
  BY <1>1, <1>2, <1>3, <1>4, <1>5, <1>6, <1>7, <1>9, <1>10 DEF Next, Writing, Reading

\* Whatever the write loop takes off the channel while an overflow discards it,
\* a resync frame counts exactly the numbers of its bracket that the client did
\* not receive, for every capacity and any number of overflows.
THEOREM GapsCounted == Spec => []GapCountExact
<1>1. CountInv => GapCountExact
  BY DEF CountInv
<1> QED BY <1>1, FramesInit, FramesStep, CountInit, CountStep, PTL DEF Spec

-----------------------------------------------------------------------------
(* The poller *)

PollTypes ==
    /\ runner \in [Runners -> Places]
    /\ poll \in [Runners -> {Nothing} \cup UNION {Polls(l) : l \in Leagues}]
    /\ \A r \in Runners : runner[r] = "consume" =>
          /\ poll[r] \in Polls(League(r))
          /\ \A e \in poll[r].todo \cup poll[r].done : poll[r].answer[e] # Nothing
    /\ digests \in [Events -> Listings]
    /\ published \in [Events -> {"never", "fresh", "due"}]
    /\ raw \in [Events -> Listings]

\* A market of e that is remembered is on the topic.
Kept(e) == \A m \in Markets : digests[e][m] # Nothing => raw[e][m] = digests[e][m]

\* Two sweeps of one league in the poller are never forgotten.
SoleSweep ==
    \A r, q \in Runners :
        (InPoller(r) /\ InPoller(q) /\ League(r) = League(q)) => r = q \/ League(r) \in overlapped

\* The sweep of a league that is publishing: what it has still to visit is as
\* it was remembered, what it has visited is on the topic as answered.
Honest(r) ==
    LET p == poll[r] IN
        /\ \A e \in p.todo : p.answer[e] # Nothing /\ p.prev[e] = digests[e] /\ Kept(e)
        /\ \A e \in p.done :
              /\ p.answer[e] # Nothing
              /\ \A m \in Markets : p.answer[e][m] # Nothing => raw[e][m] = p.answer[e][m]

Consuming(l) == \E r \in Runners : League(r) = l /\ runner[r] = "consume"

SuppressionInv ==
    /\ PollTypes
    /\ SoleSweep
    /\ \A r \in Runners : (runner[r] = "consume" /\ League(r) \notin overlapped) => Honest(r)
    /\ \A e \in Events : LeagueOf[e] \in overlapped \/ Consuming(LeagueOf[e]) \/ Kept(e)

-----------------------------------------------------------------------------
\* A step that leaves the pollers and the topic alone disturbs nothing.
LEMMA Elsewhere ==
    ASSUME SuppressionInv, UNCHANGED <<poll, digests, published, raw, overlapped>>,
           runner' \in [Runners -> Places],
           \A r \in Runners : InPoller(r)' => InPoller(r),
           \A r \in Runners : (runner'[r] = "consume") = (runner[r] = "consume")
    PROVE  SuppressionInv'
<1>1. PollTypes'
  BY DEF SuppressionInv, PollTypes
<1>2. SoleSweep'
  BY DEF SuppressionInv, SoleSweep, InPoller, League
<1>3. \A e : Kept(e)' = Kept(e)
  BY DEF Kept
<1>4. \A r \in Runners : (runner[r] = "consume" /\ League(r) \notin overlapped)' => Honest(r)'
  <2> SUFFICES ASSUME NEW r \in Runners, runner'[r] = "consume", League(r) \notin overlapped
               PROVE  Honest(r)'
    BY DEF League
  <2>1. Honest(r)
    BY DEF SuppressionInv
  <2> QED BY <2>1, <1>3 DEF Honest
<1>5. \A e \in Events : (LeagueOf[e] \in overlapped \/ Consuming(LeagueOf[e]) \/ Kept(e))'
  BY <1>3 DEF SuppressionInv, Consuming, League
<1> QED BY <1>1, <1>2, <1>4, <1>5 DEF SuppressionInv

\* A second sweep of a league in the poller is recorded as such.
LEMMA Slot ==
    ASSUME SuppressionInv, NEW r \in Runners, TakeSlot(r)
    PROVE  SuppressionInv'
<1>1. /\ runner' = [runner EXCEPT ![r] = "fetch"]
      /\ runner[r] = "slot"
      /\ UNCHANGED <<poll, digests, published, raw>>
  BY DEF TakeSlot, Goto, cacheVars
<1>2. PollTypes
  BY DEF SuppressionInv
<1>3. PollTypes'
  BY <1>1, <1>2 DEF PollTypes, Places
<1>4. /\ overlapped \subseteq overlapped'
      /\ \A q \in Runners : (InPoller(q) /\ League(q) = League(r)) => League(r) \in overlapped'
  BY DEF TakeSlot
<1>5. \A q \in Runners : q # r => runner'[q] = runner[q]
  BY <1>1, <1>2 DEF PollTypes
<1>6. runner'[r] = "fetch"
  BY <1>1, <1>2 DEF PollTypes
<1>7. SoleSweep'
  <2> SUFFICES ASSUME NEW p \in Runners, NEW q \in Runners, InPoller(p)', InPoller(q)',
                      League(p) = League(q), p # q
               PROVE  League(p) \in overlapped'
    BY DEF SoleSweep, League
  <2>1. CASE p = r
    BY <2>1, <1>4, <1>5 DEF InPoller
  <2>2. CASE q = r
    BY <2>2, <1>4, <1>5 DEF InPoller
  <2>3. CASE p # r /\ q # r
    <3>1. InPoller(p) /\ InPoller(q)
      BY <2>3, <1>5 DEF InPoller
    <3> QED BY <3>1, <1>4 DEF SuppressionInv, SoleSweep
  <2> QED BY <2>1, <2>2, <2>3
<1>8. \A q \in Runners : (runner'[q] = "consume") = (runner[q] = "consume")
  BY <1>1, <1>5, <1>6
<1>9. \A e : Kept(e)' = Kept(e)
  BY <1>1 DEF Kept
<1>10. \A q \in Runners : (runner[q] = "consume" /\ League(q) \notin overlapped)' => Honest(q)'
  <2> SUFFICES ASSUME NEW q \in Runners, runner'[q] = "consume", League(q) \notin overlapped'
               PROVE  Honest(q)'
    BY DEF League
  <2>1. Honest(q)
    BY <1>4, <1>8 DEF SuppressionInv
  <2> QED BY <2>1, <1>9, <1>1 DEF Honest
<1>11. \A e \in Events : (LeagueOf[e] \in overlapped \/ Consuming(LeagueOf[e]) \/ Kept(e))'
  <2> TAKE e \in Events
  <2>1. Consuming(LeagueOf[e])' = Consuming(LeagueOf[e])
    BY <1>8 DEF Consuming, League
  <2> QED BY <2>1, <1>4, <1>9 DEF SuppressionInv
<1> QED BY <1>3, <1>7, <1>10, <1>11 DEF SuppressionInv

\* A runner that moves on alone, the leagues of the others being undisturbed.
LEMMA Others ==
    ASSUME SuppressionInv, PollTypes', SoleSweep', UNCHANGED overlapped, NEW r \in Runners,
           \A q \in Runners : q # r => runner'[q] = runner[q] /\ poll'[q] = poll[q],
           \A e \in Events : LeagueOf[e] # League(r) => digests'[e] = digests[e] /\ raw'[e] = raw[e],
           InPoller(r),
           (runner'[r] = "consume" /\ League(r) \notin overlapped) => Honest(r)',
           \A e \in EventsOf(League(r)) :
               League(r) \in overlapped \/ runner'[r] = "consume" \/ Kept(e)'
    PROVE  SuppressionInv'
<1>1. PollTypes
  BY DEF SuppressionInv
<1>2. \A e \in Events : LeagueOf[e] # League(r) => Kept(e)' = Kept(e)
  BY DEF Kept
<1>3. \A q \in Runners : (runner[q] = "consume" /\ League(q) \notin overlapped)' => Honest(q)'
  <2> SUFFICES ASSUME NEW q \in Runners, q # r, runner'[q] = "consume", League(q) \notin overlapped
               PROVE  Honest(q)'
    BY DEF League
  <2>1. Honest(q) /\ runner[q] = "consume"
    BY DEF SuppressionInv
  <2>2. League(q) # League(r)
    BY <2>1 DEF SuppressionInv, SoleSweep, InPoller
  <2>3. poll[q] \in Polls(League(q))
    BY <1>1, <2>1 DEF PollTypes
  <2>4. poll[q].todo \subseteq EventsOf(League(q)) /\ poll[q].done \subseteq EventsOf(League(q))
    BY <2>3 DEF Polls
  <2>5. \A e \in poll[q].todo \cup poll[q].done :
           e \in Events /\ LeagueOf[e] # League(r)
    BY <2>2, <2>4 DEF EventsOf
  <2> QED BY <2>1, <2>5, <1>2 DEF Honest
<1>4. \A e \in Events : (LeagueOf[e] \in overlapped \/ Consuming(LeagueOf[e]) \/ Kept(e))'
  <2> SUFFICES ASSUME NEW e \in Events, LeagueOf[e] \notin overlapped, ~Consuming(LeagueOf[e])'
               PROVE  Kept(e)'
    OBVIOUS
  <2>1. CASE LeagueOf[e] = League(r)
    BY <2>1 DEF EventsOf, Consuming, League
  <2>2. CASE LeagueOf[e] # League(r)
    <3>1. ~Consuming(LeagueOf[e])
      BY <2>2 DEF Consuming, League
    <3> QED BY <3>1, <2>2, <1>2 DEF SuppressionInv
  <2> QED BY <2>1, <2>2
<1> QED BY <1>3, <1>4 DEF SuppressionInv

\* consume starts from what is remembered: between sweeps that is on the topic.
LEMMA Asking ==
    ASSUME SuppressionInv, NEW r \in Runners, Answer(r)
    PROVE  SuppressionInv'
<1>1. PollTypes /\ SoleSweep
  BY DEF SuppressionInv
<1>2. PICK a \in Answers[League(r)], reading \in Readings :
        poll' = [poll EXCEPT ![r] =
                   [answer |-> a, reading |-> reading, todo |-> Listed(a), done |-> {},
                    prev |-> [e \in EventsOf(League(r)) |-> digests[e]],
                    last |-> [e \in EventsOf(League(r)) |-> published[e]]]]
  BY DEF Answer
<1>3. /\ runner[r] = "fetch"
      /\ runner' = [runner EXCEPT ![r] = "consume"]
      /\ UNCHANGED <<digests, published, raw, overlapped>>
  BY DEF Answer, Goto, cacheVars
<1>4. runner'[r] = "consume" /\ \A q \in Runners : q # r => runner'[q] = runner[q] /\ poll'[q] = poll[q]
  BY <1>1, <1>2, <1>3 DEF PollTypes
<1>5. League(r) \in Leagues
  BY DEF Runners, League
<1>6. a \in [EventsOf(League(r)) -> Listings \cup {Nothing}] /\ reading \in Nat \cup {Nothing}
  BY <1>2, <1>5, SweepsAssumption
<1>7. EventsOf(League(r)) \subseteq Events
  BY DEF EventsOf
<1>8. poll'[r] = [answer |-> a, reading |-> reading, todo |-> Listed(a), done |-> {},
                  prev |-> [e \in EventsOf(League(r)) |-> digests[e]],
                  last |-> [e \in EventsOf(League(r)) |-> published[e]]]
  BY <1>1, <1>2 DEF PollTypes
<1>9. Listed(a) \subseteq EventsOf(League(r)) /\ \A e \in Listed(a) : a[e] # Nothing
  BY <1>6 DEF Listed
<1>10. poll'[r] \in Polls(League(r))
  BY <1>1, <1>6, <1>7, <1>8, <1>9 DEF Polls, PollTypes
<1>11. poll' \in [Runners -> {Nothing} \cup UNION {Polls(l) : l \in Leagues}]
  BY <1>1, <1>2, <1>5, <1>8, <1>10 DEF PollTypes
<1>16. \A e \in poll'[r].todo \cup poll'[r].done : poll'[r].answer[e] # Nothing
  BY <1>8, <1>9
<1>17. \A q \in Runners : runner'[q] = "consume" =>
          /\ poll'[q] \in Polls(League(q))
          /\ \A e \in poll'[q].todo \cup poll'[q].done : poll'[q].answer[e] # Nothing
  <2> SUFFICES ASSUME NEW q \in Runners, runner'[q] = "consume"
               PROVE  /\ poll'[q] \in Polls(League(q))
                      /\ \A e \in poll'[q].todo \cup poll'[q].done : poll'[q].answer[e] # Nothing
    OBVIOUS
  <2>1. CASE q = r
    BY <2>1, <1>10, <1>16
  <2>2. CASE q # r
    BY <2>2, <1>1, <1>4 DEF PollTypes
  <2> QED BY <2>1, <2>2
<1>12. PollTypes'
  <2>1. runner' \in [Runners -> Places]
    BY <1>1, <1>3 DEF PollTypes, Places
  <2>2. /\ digests' \in [Events -> Listings]
        /\ published' \in [Events -> {"never", "fresh", "due"}]
        /\ raw' \in [Events -> Listings]
    BY <1>1, <1>3 DEF PollTypes
  <2> QED BY <2>1, <2>2, <1>11, <1>17 DEF PollTypes, League, Polls
<1>13. SoleSweep'
  BY <1>1, <1>3, <1>4 DEF SoleSweep, InPoller, League
<1>14. ASSUME League(r) \notin overlapped
       PROVE  Honest(r)'
  <2>1. ~Consuming(League(r))
    BY <1>1, <1>3, <1>14 DEF Consuming, SoleSweep, InPoller
  <2>2. \A e \in EventsOf(League(r)) : Kept(e)
    BY <2>1, <1>14 DEF SuppressionInv, EventsOf
  <2>3. \A e \in EventsOf(League(r)) : Kept(e)'
    BY <2>2, <1>3 DEF Kept
  <2>4. poll'[r].todo = Listed(a) /\ poll'[r].done = {} /\ poll'[r].answer = a
        /\ poll'[r].prev = [e \in EventsOf(League(r)) |-> digests[e]]
    BY <1>8
  <2>5. \A e \in Listed(a) : poll'[r].prev[e] = digests'[e]
    BY <2>4, <1>3, <1>9
  <2>6. \A e \in Listed(a) : Kept(e)'
    BY <2>3, <1>9
  <2>7. \A e \in Listed(a) : poll'[r].answer[e] # Nothing
    BY <2>4, <1>9
  <2> QED BY <2>4, <2>5, <2>6, <2>7 DEF Honest
<1>15. InPoller(r)
  BY <1>3 DEF InPoller
<1> QED BY <1>3, <1>4, <1>12, <1>13, <1>14, <1>15, Others

\* What the loop of consume changes of its answer.
LEMMA PollStep ==
    ASSUME NEW l, NEW p \in Polls(l), NEW todo \in SUBSET p.todo, NEW done \in SUBSET EventsOf(l)
    PROVE  /\ With(p, todo, done) \in Polls(l)
           /\ With(p, todo, done).todo = todo
           /\ With(p, todo, done).done = done
           /\ With(p, todo, done).answer = p.answer
           /\ With(p, todo, done).prev = p.prev
<1>1. p.todo \subseteq EventsOf(l)
  BY DEF Polls
<1> QED BY <1>1 DEF Polls, With

\* An event is visited, and counts as done only if it is on the topic as answered.
LEMMA Visited ==
    ASSUME SuppressionInv, NEW r \in Runners, NEW e \in EventsOf(League(r)), runner[r] = "consume",
           NEW todo \in SUBSET poll[r].todo, e \notin todo,
           NEW done \in SUBSET (poll[r].done \cup {e}),
           poll' = [poll EXCEPT ![r] = With(poll[r], todo, done)],
           raw' \in {raw, [raw EXCEPT ![e] = poll[r].answer[e]]}, e \in poll[r].todo,
           UNCHANGED <<runner, digests, published, overlapped>>,
           (e \in done /\ League(r) \notin overlapped) =>
               \A m \in Markets : poll[r].answer[e][m] # Nothing => raw'[e][m] = poll[r].answer[e][m]
    PROVE  SuppressionInv'
<1>1. PollTypes /\ SoleSweep
  BY DEF SuppressionInv
<1>2. poll[r] \in Polls(League(r))
  BY <1>1 DEF PollTypes
<1>3. /\ poll[r].answer \in [EventsOf(League(r)) -> Listings \cup {Nothing}]
      /\ poll[r].todo \subseteq EventsOf(League(r))
      /\ poll[r].done \subseteq EventsOf(League(r))
  BY <1>2 DEF Polls
<1>4. poll[r].answer[e] \in Listings /\ e \in Events /\ LeagueOf[e] = League(r)
  BY <1>1, <1>3 DEF EventsOf, PollTypes
<1>5. poll'[r] = With(poll[r], todo, done)
  BY <1>1 DEF PollTypes
<1>20. done \in SUBSET EventsOf(League(r))
  BY <1>3
<1>6. /\ poll'[r].todo = todo
      /\ poll'[r].done = done
      /\ poll'[r].answer = poll[r].answer
      /\ poll'[r].prev = poll[r].prev
  BY <1>2, <1>20, <1>5, PollStep
<1>7. poll'[r] \in Polls(League(r))
  BY <1>2, <1>20, <1>5, PollStep
<1>8. League(r) \in Leagues
  BY DEF Runners, League
<1>9. \A q \in Runners : q # r => poll'[q] = poll[q]
  BY <1>1 DEF PollTypes
<1>10. poll' \in [Runners -> {Nothing} \cup UNION {Polls(l) : l \in Leagues}]
  BY <1>1, <1>5, <1>7, <1>8 DEF PollTypes
<1>11. raw' \in [Events -> Listings] /\ \A f \in Events : f # e => raw'[f] = raw[f]
  BY <1>1, <1>4 DEF PollTypes
<1>17. \A f \in poll'[r].todo \cup poll'[r].done : poll'[r].answer[f] # Nothing
  BY <1>1, <1>6 DEF PollTypes
<1>18. \A q \in Runners : runner'[q] = "consume" =>
          /\ poll'[q] \in Polls(League(q))
          /\ \A f \in poll'[q].todo \cup poll'[q].done : poll'[q].answer[f] # Nothing
  <2> SUFFICES ASSUME NEW q \in Runners, runner'[q] = "consume"
               PROVE  /\ poll'[q] \in Polls(League(q))
                      /\ \A f \in poll'[q].todo \cup poll'[q].done : poll'[q].answer[f] # Nothing
    OBVIOUS
  <2>1. CASE q = r
    BY <2>1, <1>7, <1>17
  <2>2. CASE q # r
    BY <2>2, <1>1, <1>9 DEF PollTypes
  <2> QED BY <2>1, <2>2
<1>12. PollTypes'
  <2>1. runner' \in [Runners -> Places] /\ digests' \in [Events -> Listings]
        /\ published' \in [Events -> {"never", "fresh", "due"}]
    BY <1>1 DEF PollTypes
  <2> QED BY <2>1, <1>10, <1>11, <1>18 DEF PollTypes, League, Polls
<1>13. SoleSweep'
  BY <1>1 DEF SoleSweep, InPoller, League
<1>14. ASSUME League(r) \notin overlapped
       PROVE  Honest(r)'
  <2>1. Honest(r)
    BY <1>14 DEF SuppressionInv
  <2>2. \A f \in todo : f \in Events /\ f # e
    BY <1>3 DEF EventsOf
  <2>3. \A f \in todo : Kept(f)'
    BY <2>1, <2>2, <1>11 DEF Honest, Kept
  <2>4. \A f \in todo : poll[r].answer[f] # Nothing /\ poll[r].prev[f] = digests'[f]
    BY <2>1 DEF Honest
  <2>5. \A f \in done : f # e => f \in poll[r].done /\ raw'[f] = raw[f]
    BY <1>3, <1>11 DEF EventsOf
  <2>7. poll[r].answer[e] # Nothing
    BY <1>1 DEF PollTypes
  <2>6. \A f \in done :
           /\ poll[r].answer[f] # Nothing
           /\ \A m \in Markets : poll[r].answer[f][m] # Nothing => raw'[f][m] = poll[r].answer[f][m]
    BY <2>1, <2>5, <2>7, <1>14 DEF Honest
  <2> QED BY <2>3, <2>4, <2>6, <1>6 DEF Honest
<1>15. InPoller(r)
  BY DEF InPoller
<1>16. \A f \in Events : LeagueOf[f] # League(r) => raw'[f] = raw[f]
  BY <1>4, <1>11
<1> QED BY <1>9, <1>12, <1>13, <1>14, <1>15, <1>16, Others

\* Publishing, suppressing and failing to publish an event visit it.
LEMMA Visiting ==
    ASSUME SuppressionInv, NEW r \in Runners, NEW e \in EventsOf(League(r)),
           PublishEvent(r, e) \/ Suppress(r, e) \/ PublishFails(r, e)
    PROVE  SuppressionInv'
<1>1. PollTypes
  BY DEF SuppressionInv
<1>2. /\ runner[r] = "consume"
      /\ e \in poll[r].todo
      /\ UNCHANGED <<runner, digests, published, overlapped>>
  BY DEF PublishEvent, Suppress, PublishFails, cacheVars
<1>3. poll[r] \in Polls(League(r))
  BY <1>1, <1>2 DEF PollTypes
<1>4. poll[r].answer[e] \in Listings \cup {Nothing} /\ e \in Events
  BY <1>3 DEF Polls, EventsOf
<1>5. League(r) \notin overlapped => Honest(r)
  BY <1>2 DEF SuppressionInv
<1>6. CASE PublishEvent(r, e)
  <2>1. /\ poll' = [poll EXCEPT ![r] = With(poll[r], poll[r].todo \ {e}, poll[r].done \cup {e})]
        /\ raw' = [raw EXCEPT ![e] = poll[r].answer[e]]
    BY <1>6 DEF PublishEvent
  <2>2. raw'[e] = poll[r].answer[e]
    BY <2>1, <1>1, <1>4 DEF PollTypes
  <2> QED BY <1>2, <2>1, <2>2, Visited
<1>7. CASE Suppress(r, e)
  <2>1. /\ poll' = [poll EXCEPT ![r] = With(poll[r], poll[r].todo \ {e}, poll[r].done \cup {e})]
        /\ raw' = raw
    BY <1>7 DEF Suppress
  <2>2. \A m \in Markets : poll[r].answer[e][m] # Nothing => poll[r].answer[e][m] = poll[r].prev[e][m]
    BY <1>7 DEF Suppress, Wanted, Moved
  <2>3. League(r) \notin overlapped => poll[r].prev[e] = digests[e] /\ Kept(e)
    BY <1>2, <1>5 DEF Honest
  <2>4. League(r) \notin overlapped =>
           \A m \in Markets : poll[r].answer[e][m] # Nothing => raw'[e][m] = poll[r].answer[e][m]
    BY <2>1, <2>2, <2>3 DEF Kept
  <2> QED BY <1>2, <2>1, <2>4, Visited
<1>8. CASE PublishFails(r, e)
  <2>1. /\ poll' = [poll EXCEPT ![r] = With(poll[r], {}, poll[r].done)]
        /\ raw' \in {raw, [raw EXCEPT ![e] = poll[r].answer[e]]}
    BY <1>8 DEF PublishFails
  <2>2. (e \in poll[r].done /\ League(r) \notin overlapped) =>
           \A m \in Markets : poll[r].answer[e][m] # Nothing => raw'[e][m] = poll[r].answer[e][m]
    <3>1. CASE raw' = raw
      BY <3>1, <1>5 DEF Honest
    <3>2. CASE raw' = [raw EXCEPT ![e] = poll[r].answer[e]]
      <4>1. raw'[e] = poll[r].answer[e]
        BY <3>2, <1>1, <1>4 DEF PollTypes
      <4> QED BY <4>1
    <3> QED BY <2>1, <3>1, <3>2
  <2> QED BY <1>2, <2>1, <2>2, Visited
<1> QED BY <1>6, <1>7, <1>8

\* Only the answer's own events are remembered, as the topic has them.
LEMMA Finishing ==
    ASSUME SuppressionInv, NEW r \in Runners, Finish(r)
    PROVE  SuppressionInv'
<1>1. PollTypes /\ SoleSweep
  BY DEF SuppressionInv
<1>2. /\ runner[r] = "consume"
      /\ poll[r].todo = {}
      /\ runner' = [runner EXCEPT ![r] = "idle"]
      /\ poll' = [poll EXCEPT ![r] = Nothing]
      /\ UNCHANGED <<raw, overlapped>>
  BY DEF Finish, Goto
<1>3. /\ digests' = [e \in Events |->
             IF LeagueOf[e] # League(r) THEN digests[e]
             ELSE IF e \in poll[r].done THEN poll[r].answer[e] ELSE Unlisted]
      /\ published' \in [Events -> {"never", "fresh", "due"}]
  BY <1>1 DEF Finish, Older, PollTypes
<1>4. poll[r] \in Polls(League(r))
  BY <1>1, <1>2 DEF PollTypes
<1>5. poll[r].answer \in [EventsOf(League(r)) -> Listings \cup {Nothing}]
      /\ poll[r].done \subseteq EventsOf(League(r))
  BY <1>4 DEF Polls
<1>6. Unlisted \in Listings
  BY DEF Unlisted, Listings
<1>7. \A e \in poll[r].done : poll[r].answer[e] \in Listings
  BY <1>1, <1>2, <1>5 DEF PollTypes
<1>8. digests' \in [Events -> Listings]
  BY <1>1, <1>3, <1>6, <1>7 DEF PollTypes
<1>9. runner'[r] = "idle" /\ \A q \in Runners : q # r => runner'[q] = runner[q] /\ poll'[q] = poll[q]
  BY <1>1, <1>2 DEF PollTypes
<1>10. runner' \in [Runners -> Places]
       /\ poll' \in [Runners -> {Nothing} \cup UNION {Polls(l) : l \in Leagues}]
       /\ raw' \in [Events -> Listings]
  BY <1>1, <1>2 DEF PollTypes, Places
<1>11. \A q \in Runners : runner'[q] = "consume" =>
          /\ poll'[q] \in Polls(League(q))
          /\ \A e \in poll'[q].todo \cup poll'[q].done : poll'[q].answer[e] # Nothing
  BY <1>1, <1>9 DEF PollTypes
<1>12. PollTypes'
  BY <1>3, <1>8, <1>10, <1>11 DEF PollTypes, League, Polls
<1>13. SoleSweep'
  BY <1>1, <1>2, <1>9 DEF SoleSweep, InPoller, League
<1>14. \A e \in Events : LeagueOf[e] # League(r) => digests'[e] = digests[e] /\ raw'[e] = raw[e]
  BY <1>2, <1>3
<1>15. ASSUME NEW e \in EventsOf(League(r)), League(r) \notin overlapped
       PROVE  Kept(e)'
  <2>1. Honest(r)
    BY <1>2, <1>15 DEF SuppressionInv
  <2>2. e \in Events /\ LeagueOf[e] = League(r)
    BY DEF EventsOf
  <2>3. CASE e \in poll[r].done
    <3>1. digests'[e] = poll[r].answer[e]
      BY <1>3, <2>2, <2>3
    <3> QED BY <3>1, <1>2, <2>1, <2>3 DEF Honest, Kept
  <2>4. CASE e \notin poll[r].done
    <3>1. digests'[e] = Unlisted
      BY <1>3, <2>2, <2>4
    <3> QED BY <3>1 DEF Kept, Unlisted
  <2> QED BY <2>3, <2>4
<1>16. InPoller(r)
  BY <1>2 DEF InPoller
<1> QED BY <1>2, <1>9, <1>12, <1>13, <1>14, <1>15, <1>16, Others

\* Every step keeps what suppression rests on.
LEMMA SuppressionStep ==
    ASSUME SuppressionInv, [SweepsNext]_sweepsVars
    PROVE  SuppressionInv'
<1>1. PollTypes
  BY DEF SuppressionInv
<1>2. ASSUME UNCHANGED <<runner, poll, digests, published, raw, overlapped>>
      PROVE  SuppressionInv'
  BY <1>1, <1>2, Elsewhere DEF InPoller, PollTypes
<1>3. ASSUME NEW r \in Runners, NEW pc \in Places \ {"fetch", "consume"}, runner[r] # "consume",
             Goto(r, pc), UNCHANGED <<poll, digests, published, raw, overlapped>>
      PROVE  SuppressionInv'
  <2>1. runner' \in [Runners -> Places]
    BY <1>1, <1>3 DEF Goto, PollTypes
  <2>2. \A q \in Runners : runner'[q] = IF q = r THEN pc ELSE runner[q]
    BY <1>1, <1>3 DEF Goto, PollTypes
  <2> QED BY <1>3, <2>1, <2>2, Elsewhere DEF InPoller
<1>4. CASE UNCHANGED sweepsVars
  BY <1>2, <1>4 DEF sweepsVars, cacheVars
<1>5. CASE Planning
  <2>1. CASE PlannerEnds
    BY <2>1, <1>2 DEF PlannerEnds, cacheVars
  <2>2. CASE Flush
    BY <2>2, <1>2 DEF Flush, cacheVars
  <2>3. ASSUME NEW present \in SUBSET Leagues, Refresh(present)
        PROVE  SuppressionInv'
    <3>1. UNCHANGED <<poll, digests, published, raw, overlapped>>
      BY <2>3 DEF Refresh, cacheVars
    <3> DEFINE enter == {l \in present : schedule[l] = 0}
               next(l) == CHOOSE g \in Unborn(l) : TRUE
    <3>2. /\ \A l \in enter : Unborn(l) # {}
          /\ runner' = [r \in Runners |-> IF League(r) \in enter /\ r[2] = next(League(r))
                                           THEN "idle" ELSE runner[r]]
      BY <2>3 DEF Refresh
    <3>3. \A l \in enter : next(l) \in Unborn(l)
      BY <3>2
    <3>4. ASSUME NEW r \in Runners, League(r) \in enter, r[2] = next(League(r))
          PROVE  runner[r] = "unborn"
      <4>1. r = <<League(r), next(League(r))>>
        BY <3>4 DEF Runners, League
      <4> QED BY <3>3, <3>4, <4>1 DEF Unborn
    <3> HIDE DEF enter, next
    <3>5. \A r \in Runners : runner'[r] = runner[r] \/ (runner[r] = "unborn" /\ runner'[r] = "idle")
      BY <3>2, <3>4
    <3>6. runner' \in [Runners -> Places]
      BY <3>2, <1>1 DEF PollTypes, Places
    <3> QED BY <3>1, <3>5, <3>6, Elsewhere DEF InPoller
  <2> QED BY <1>5, <2>1, <2>2, <2>3 DEF Planning
<1>6. CASE Cancel
  BY <1>6, <1>2 DEF Cancel, cacheVars
<1>7. CASE Passing
  <2>1. CASE Refill
    BY <2>1, <1>2 DEF Refill, cacheVars
  <2>2. CASE Roll
    BY <2>2, <1>2 DEF Roll, cacheVars
  <2>3. ASSUME NEW e \in Events, Age(e)
        PROVE  SuppressionInv'
    <3>1. /\ published' = [published EXCEPT ![e] = "due"]
          /\ UNCHANGED <<runner, poll, digests, raw, overlapped>>
      BY <2>3 DEF Age
    <3>2. PollTypes'
      BY <3>1, <1>1 DEF PollTypes, Polls
    <3>3. \A f : Kept(f)' = Kept(f)
      BY <3>1 DEF Kept
    <3>4. SoleSweep'
      BY <3>1 DEF SuppressionInv, SoleSweep, InPoller
    <3>5. \A r \in Runners : (runner[r] = "consume" /\ League(r) \notin overlapped)' => Honest(r)'
      BY <3>1, <3>3 DEF SuppressionInv, Honest, League
    <3>6. \A f \in Events : (LeagueOf[f] \in overlapped \/ Consuming(LeagueOf[f]) \/ Kept(f))'
      BY <3>1, <3>3 DEF SuppressionInv, Consuming, League
    <3> QED BY <3>2, <3>4, <3>5, <3>6 DEF SuppressionInv
  <2> QED BY <1>7, <2>1, <2>2, <2>3 DEF Passing
<1>8. ASSUME NEW r \in Runners, Waiting(r)
      PROVE  SuppressionInv'
  <2>1. CASE Due(r)
    BY <2>1, <1>3 DEF Due, cacheVars, Places
  <2>2. CASE Exit(r)
    BY <2>2, <1>3 DEF Exit, cacheVars, Places
  <2>3. CASE Acquire(r)
    BY <2>3, <1>3 DEF Acquire, cacheVars, Places
  <2>4. CASE GiveUp(r)
    BY <2>4, <1>3 DEF GiveUp, cacheVars, Places
  <2>5. CASE TakeSlot(r)
    BY <2>5, Slot
  <2>6. CASE LeaveQueue(r)
    BY <2>6, <1>3 DEF LeaveQueue, cacheVars, Places
  <2> QED BY <1>8, <2>1, <2>2, <2>3, <2>4, <2>5, <2>6 DEF Waiting
<1>9. ASSUME NEW r \in Runners, Polling(r)
      PROVE  SuppressionInv'
  <2>1. CASE FetchFails(r)
    BY <2>1, <1>3 DEF FetchFails, cacheVars, Places
  <2>2. CASE Answer(r)
    BY <2>2, Asking
  <2>3. CASE Finish(r)
    BY <2>3, Finishing
  <2>4. ASSUME NEW e \in EventsOf(League(r)), PublishEvent(r, e) \/ Suppress(r, e) \/ PublishFails(r, e)
        PROVE  SuppressionInv'
    BY <2>4, Visiting
  <2> QED BY <1>9, <2>1, <2>2, <2>3, <2>4 DEF Polling
<1> QED BY <1>4, <1>5, <1>6, <1>7, <1>8, <1>9 DEF SweepsNext

\* The invariant holds from the first state on.
LEMMA SuppressionInvariant == SweepsSpec => []SuppressionInv
<1>1. SweepsInit => SuppressionInv
  <2> SUFFICES ASSUME SweepsInit
               PROVE  SuppressionInv
    OBVIOUS
  <2>1. /\ runner = [r \in Runners |-> "unborn"]
        /\ poll = [r \in Runners |-> Nothing]
        /\ digests = [e \in Events |-> Unlisted]
        /\ published = [e \in Events |-> "never"]
        /\ raw = [e \in Events |-> Unlisted]
    BY DEF SweepsInit
  <2>2. Unlisted \in Listings
    BY DEF Unlisted, Listings
  <2>3. PollTypes
    BY <2>1, <2>2 DEF PollTypes, Places
  <2>4. SoleSweep /\ \A r \in Runners : runner[r] # "consume"
    BY <2>1 DEF SoleSweep, InPoller
  <2>5. \A e \in Events : Kept(e)
    BY <2>1 DEF Kept
  <2> QED BY <2>3, <2>4, <2>5 DEF SuppressionInv
<1>2. SuppressionInv /\ [SweepsNext]_sweepsVars => SuppressionInv'
  BY SuppressionStep
<1> QED BY <1>1, <1>2, PTL DEF SweepsSpec

\* Suppression is sound (consume of the poller): while no sweep of an event's
\* league is publishing, and none ever ran beside another, every market that
\* the poller remembers, and will suppress, is on odds.raw as remembered.
THEOREM SuppressionCorrect == SweepsSpec => []SuppressedIsOnTheBus
<1>1. SuppressionInv => SuppressedIsOnTheBus
  BY DEF SuppressionInv, SuppressedIsOnTheBus, Consuming, Kept
<1> QED BY <1>1, SuppressionInvariant, PTL

-----------------------------------------------------------------------------
BudgetInv ==
    /\ spent \in Nat
    /\ reported \in Nat \cup {Nothing}
    /\ BudgetKept

\* The three operations of the budget keep the ledger within its limit.
LEMMA Charging ==
    ASSUME BudgetInv, TryAcquire \/ Refund \/ \E reading \in Nat \cup {Nothing} : Reconcile(reading)
    PROVE  BudgetInv'
<1>1. /\ CreditsPerSweep \in Nat /\ Limit \in Nat
      /\ Readings \subseteq Nat \cup {Nothing} /\ Nothing \notin Nat
  BY SweepsAssumption
<1>2. \A n \in Nat : Less(n, CreditsPerSweep) \in Nat /\ Less(n, CreditsPerSweep) <= n
  BY <1>1 DEF Less
<1>3. CASE TryAcquire
  <2>1. /\ Remaining >= CreditsPerSweep
        /\ spent' = spent + CreditsPerSweep
        /\ reported' = IF reported = Nothing THEN Nothing ELSE reported - CreditsPerSweep
    BY <1>3 DEF TryAcquire
  <2>2. CASE reported = Nothing
    <3>1. Less(Limit, spent) >= CreditsPerSweep
      BY <2>1, <2>2 DEF Remaining
    <3>2. spent + CreditsPerSweep <= Limit
      BY <3>1, <2>2, <1>1 DEF Less, BudgetInv, BudgetKept
    <3> QED BY <2>1, <2>2, <3>2, <1>1 DEF BudgetInv, BudgetKept
  <2>3. CASE reported # Nothing
    <3>1. reported \in Nat /\ reported >= CreditsPerSweep
      BY <2>1, <2>3 DEF BudgetInv, Remaining
    <3>2. reported' \in Nat
      BY <3>1, <2>1, <2>3, <1>1
    <3> QED BY <2>1, <3>2, <1>1 DEF BudgetInv, BudgetKept
  <2> QED BY <2>2, <2>3
<1>4. CASE Refund
  <2>1. /\ spent' = Less(spent, CreditsPerSweep)
        /\ reported' = IF reported = Nothing THEN Nothing ELSE reported + CreditsPerSweep
    BY <1>4 DEF Refund
  <2>2. spent' \in Nat /\ spent' <= spent
    BY <2>1, <1>2 DEF BudgetInv
  <2>3. reported # Nothing => reported' \in Nat
    BY <2>1, <1>1 DEF BudgetInv
  <2> QED BY <2>1, <2>2, <2>3, <1>1 DEF BudgetInv, BudgetKept
<1>5. ASSUME NEW reading \in Nat \cup {Nothing}, Reconcile(reading)
      PROVE  BudgetInv'
  BY <1>1, <1>5 DEF Reconcile, BudgetInv, BudgetKept
<1> QED BY <1>3, <1>4, <1>5

\* The local ledger (Budget.tryAcquire, Refund, Reconcile, rollPeriodLocked):
\* until the provider reports a count of its own, the sweeps of a period reserve
\* no more than its credits, however many leagues compete for the last of them.
THEOREM BudgetCorrect == SweepsSpec => []BudgetKept
<1>1. SweepsInit => BudgetInv
  BY SweepsAssumption DEF SweepsInit, BudgetInv, BudgetKept
<1>2. SuppressionInv /\ BudgetInv /\ [SweepsNext]_sweepsVars => BudgetInv'
  <2> SUFFICES ASSUME SuppressionInv, BudgetInv, [SweepsNext]_sweepsVars
               PROVE  BudgetInv'
    OBVIOUS
  <2>1. ASSUME UNCHANGED <<spent, reported>>
        PROVE  BudgetInv'
    BY <2>1 DEF BudgetInv, BudgetKept
  <2>2. CASE UNCHANGED sweepsVars
    BY <2>1, <2>2 DEF sweepsVars, budgetVars
  <2>3. CASE Planning
    BY <2>1, <2>3 DEF Planning, PlannerEnds, Flush, Refresh, budgetVars
  <2>4. CASE Cancel
    BY <2>1, <2>4 DEF Cancel, budgetVars
  <2>5. CASE Passing
    <3>1. CASE Refill
      BY <2>1, <3>1 DEF Refill
    <3>2. CASE Roll
      BY <3>2, SweepsAssumption DEF Roll, BudgetInv, BudgetKept
    <3>3. ASSUME NEW e \in Events, Age(e)
          PROVE  BudgetInv'
      BY <2>1, <3>3 DEF Age, budgetVars
    <3> QED BY <2>5, <3>1, <3>2, <3>3 DEF Passing
  <2>6. ASSUME NEW r \in Runners, Waiting(r)
        PROVE  BudgetInv'
    <3>1. CASE Acquire(r)
      BY <3>1, Charging DEF Acquire
    <3>2. CASE LeaveQueue(r)
      BY <3>2, Charging DEF LeaveQueue
    <3>3. CASE Due(r) \/ Exit(r) \/ GiveUp(r) \/ TakeSlot(r)
      BY <3>3, <2>1 DEF Due, Exit, GiveUp, TakeSlot, budgetVars
    <3> QED BY <2>6, <3>1, <3>2, <3>3 DEF Waiting
  <2>7. ASSUME NEW r \in Runners, Polling(r)
        PROVE  BudgetInv'
    <3>1. CASE FetchFails(r)
      BY <3>1, Charging, SweepsAssumption DEF FetchFails
    <3>2. CASE Answer(r)
      BY <3>2, <2>1 DEF Answer, budgetVars
    <3>3. CASE Finish(r)
      <4>1. Reconcile(poll[r].reading) /\ runner[r] = "consume"
        BY <3>3 DEF Finish
      <4>2. poll[r].reading \in Nat \cup {Nothing}
        BY <4>1 DEF SuppressionInv, PollTypes, Polls
      <4> QED BY <4>1, <4>2, Charging
    <3>4. ASSUME NEW e \in EventsOf(League(r)), PublishEvent(r, e) \/ Suppress(r, e) \/ PublishFails(r, e)
          PROVE  BudgetInv'
      BY <3>4, <2>1 DEF PublishEvent, Suppress, PublishFails, budgetVars
    <3> QED BY <2>7, <3>1, <3>2, <3>3, <3>4 DEF Polling
  <2> QED BY <2>2, <2>3, <2>4, <2>5, <2>6, <2>7 DEF SweepsNext
<1>3. BudgetInv => BudgetKept
  BY DEF BudgetInv
<1> QED BY <1>1, <1>2, <1>3, SuppressionInvariant, PTL DEF SweepsSpec

-----------------------------------------------------------------------------
FlushInv ==
    /\ run \in {"planning", "waiting", "flushed"}
    /\ run = "flushed" => RunnersDone

\* Shutdown (Scheduler.Run's wg.Wait, Service.Run's flush): once the producer has
\* been flushed for the last time, no sweep adds a record to odds.raw.
THEOREM FlushCorrect == SweepsSpec => FlushIsLast
<1>1. SweepsInit => FlushInv
  BY DEF SweepsInit, FlushInv
<1>2. ASSUME FlushInv, [SweepsNext]_sweepsVars
      PROVE  FlushInv' /\ (run = "flushed" => UNCHANGED raw)
  <2>1. ASSUME run = "flushed", UNCHANGED <<run, runner, raw>>
        PROVE  FlushInv' /\ UNCHANGED raw
    BY <1>2, <2>1 DEF FlushInv, RunnersDone
  <2>2. ASSUME run # "flushed", UNCHANGED run
        PROVE  FlushInv'
    BY <1>2, <2>2 DEF FlushInv
  <2>3. CASE UNCHANGED sweepsVars
    BY <2>1, <2>2, <2>3 DEF sweepsVars, lifeVars
  <2>4. CASE Planning
    <3>1. CASE PlannerEnds
      BY <3>1 DEF PlannerEnds, FlushInv
    <3>2. CASE Flush
      BY <3>2 DEF Flush, FlushInv, RunnersDone
    <3>3. ASSUME NEW present \in SUBSET Leagues, Refresh(present)
          PROVE  run = "planning" /\ run' = run
      BY <3>3 DEF Refresh
    <3> QED BY <2>4, <2>2, <3>1, <3>2, <3>3 DEF Planning
  <2>5. CASE Cancel
    BY <2>1, <2>2, <2>5 DEF Cancel
  <2>6. CASE Passing
    BY <2>1, <2>2, <2>6 DEF Passing, Refill, Roll, Age, lifeVars
  <2>7. ASSUME NEW r \in Runners, Waiting(r) \/ Polling(r)
        PROVE  run # "flushed" /\ run' = run
    <3>1. runner[r] \notin {"unborn", "gone"} /\ run' = run
      BY <2>7 DEF Waiting, Polling, Due, Exit, Acquire, GiveUp, TakeSlot, LeaveQueue,
                  FetchFails, Answer, Finish, PublishEvent, Suppress, PublishFails, lifeVars
    <3> QED BY <3>1, <1>2 DEF FlushInv, RunnersDone
  <2> QED BY <1>2, <2>2, <2>3, <2>4, <2>5, <2>6, <2>7 DEF SweepsNext
<1> QED BY <1>1, <1>2, PTL DEF SweepsSpec, FlushIsLast

-----------------------------------------------------------------------------
(* Types *)

\* A runner holds a sweep exactly while it consumes one.
HoldsSweep == \A r \in Runners : (poll[r] # Nothing) = (runner[r] = "consume")

ScheduleTypes ==
    /\ active \in BOOLEAN
    /\ run \in {"planning", "waiting", "flushed"}
    /\ schedule \in [Leagues -> 0..MaxGenerations]
    /\ stopped \subseteq Runners
    /\ overlapped \subseteq Leagues

BudgetTypes ==
    /\ tokens \in 0..Burst
    /\ spent \in 0..MaxSpent
    /\ reported \in Nat \cup {Nothing}

TypesInv == HoldsSweep /\ ScheduleTypes /\ BudgetTypes

\* A runner that goes from one place outside consume to another.
LEMMA Going ==
    ASSUME SuppressionInv, HoldsSweep, NEW r \in Runners, NEW pc \in Places \ {"consume"},
           runner[r] # "consume", Goto(r, pc), UNCHANGED poll
    PROVE  HoldsSweep'
<1>1. runner \in [Runners -> Places] /\ runner' = [runner EXCEPT ![r] = pc]
  BY DEF SuppressionInv, PollTypes, Goto
<1> QED BY <1>1 DEF HoldsSweep

LEMMA Reconciling ==
    ASSUME BudgetTypes, NEW reading \in Nat \cup {Nothing}, Reconcile(reading)
    PROVE  BudgetTypes'
BY DEF BudgetTypes, Reconcile

LEMMA PlanningTypes ==
    ASSUME SuppressionInv, TypesInv, Planning
    PROVE  TypesInv'
<1>1. CASE PlannerEnds \/ Flush
  <2>1. /\ run' \in {"waiting", "flushed"} /\ schedule' \in {schedule, [l \in Leagues |-> 0]}
        /\ UNCHANGED <<active, stopped, runner, poll, tokens, spent, reported, overlapped>>
    BY <1>1 DEF PlannerEnds, Flush, budgetVars
  <2>2. [l \in Leagues |-> 0] \in [Leagues -> 0..MaxGenerations]
    BY SweepsAssumption
  <2> QED BY <2>1, <2>2 DEF TypesInv, HoldsSweep, ScheduleTypes, BudgetTypes
<1>2. ASSUME NEW present \in SUBSET Leagues, Refresh(present) PROVE TypesInv'
  <2> DEFINE enter == {l \in present : schedule[l] = 0}
             next(l) == CHOOSE g \in Unborn(l) : TRUE
  <2>1. /\ \A l \in enter : Unborn(l) # {}
        /\ schedule' = [l \in Leagues |-> IF l \in enter THEN next(l)
                                          ELSE IF l \in present THEN schedule[l] ELSE 0]
        /\ runner' = [r \in Runners |-> IF League(r) \in enter /\ r[2] = next(League(r))
                                        THEN "idle" ELSE runner[r]]
        /\ stopped' = stopped \cup Retired(present)
        /\ UNCHANGED <<active, run, poll, tokens, spent, reported, overlapped>>
    BY <1>2 DEF Refresh, budgetVars
  <2>2. \A l \in enter : next(l) \in Unborn(l)
    BY <2>1
  <2>3. \A l : Unborn(l) \subseteq 1..MaxGenerations
    BY DEF Unborn
  <2>4. \A l \in enter : next(l) \in 0..MaxGenerations
    BY <2>2, <2>3, SweepsAssumption
  <2>5. ASSUME NEW r \in Runners, League(r) \in enter, r[2] = next(League(r))
        PROVE  runner[r] = "unborn"
    <3>1. r = <<League(r), next(League(r))>>
      BY <2>5 DEF Runners, League
    <3> QED BY <2>2, <2>5, <3>1 DEF Unborn
  <2> HIDE DEF enter, next
  <2>6. schedule' \in [Leagues -> 0..MaxGenerations]
    <3>1. 0 \in 0..MaxGenerations
      BY SweepsAssumption
    <3> QED BY <2>1, <2>4, <3>1 DEF TypesInv, ScheduleTypes
  <2>7. stopped' \subseteq Runners
    <3>1. Retired(present) \subseteq Runners
      <4> SUFFICES ASSUME NEW l \in Leagues, schedule[l] # 0
                   PROVE  <<l, schedule[l]>> \in Runners
        BY DEF Retired
      <4>1. schedule[l] \in 0..MaxGenerations
        BY DEF TypesInv, ScheduleTypes
      <4>2. schedule[l] \in 1..MaxGenerations
        BY <4>1, SweepsAssumption
      <4> QED BY <4>2 DEF Runners
    <3> QED BY <2>1, <3>1 DEF TypesInv, ScheduleTypes
  <2>8. HoldsSweep'
    <3>1. \A r \in Runners : runner'[r] = runner[r] \/ (runner[r] = "unborn" /\ runner'[r] = "idle")
      BY <2>1, <2>5
    <3> QED BY <2>1, <3>1 DEF TypesInv, HoldsSweep
  <2> QED BY <2>1, <2>6, <2>7, <2>8 DEF TypesInv, ScheduleTypes, BudgetTypes
<1> QED BY <1>1, <1>2 DEF Planning

LEMMA WaitingTypes ==
    ASSUME SuppressionInv, TypesInv, NEW r \in Runners, Waiting(r)
    PROVE  TypesInv'
<1>1. UNCHANGED <<active, run, schedule, stopped>> /\ UNCHANGED poll
  BY DEF Waiting, Due, Exit, Acquire, GiveUp, TakeSlot, LeaveQueue, lifeVars
<1>2. HoldsSweep'
  <2>1. \E pc \in {"idle", "reserve", "slot", "fetch", "gone"} : runner[r] # "consume" /\ Goto(r, pc)
    BY DEF Waiting, Due, Exit, Acquire, GiveUp, TakeSlot, LeaveQueue
  <2> QED BY <1>1, <2>1, Going DEF TypesInv, Places
<1>3. ScheduleTypes'
  <2>1. overlapped' = overlapped \/ TakeSlot(r)
    BY DEF Waiting, Due, Exit, Acquire, GiveUp, LeaveQueue
  <2>2. CASE TakeSlot(r)
    <3>1. \A q \in Runners : League(q) \in Leagues
      BY DEF Runners, League
    <3>2. overlapped' \subseteq Leagues
      BY <2>2, <3>1 DEF TakeSlot, TypesInv, ScheduleTypes
    <3> QED BY <1>1, <3>2 DEF TypesInv, ScheduleTypes
  <2> QED BY <1>1, <2>1, <2>2 DEF TypesInv, ScheduleTypes
<1>4. BudgetTypes'
  <2>1. /\ tokens \in Nat /\ tokens <= Burst /\ spent \in Nat /\ spent <= MaxSpent
        /\ reported # Nothing => reported \in Nat
        /\ CreditsPerSweep \in Nat /\ Burst \in Nat /\ MaxSpent \in Nat /\ CreditsPerSweep <= Burst
    BY SweepsAssumption DEF TypesInv, BudgetTypes
  <2>2. CASE Acquire(r)
    <3>1. /\ Remaining >= CreditsPerSweep /\ tokens >= CreditsPerSweep
          /\ tokens' = tokens - CreditsPerSweep /\ spent' = spent + CreditsPerSweep
          /\ reported' = IF reported = Nothing THEN Nothing ELSE reported - CreditsPerSweep
          /\ spent + CreditsPerSweep <= MaxSpent
      BY <2>2 DEF Acquire, TryAcquire
    <3>2. reported # Nothing => reported >= CreditsPerSweep
      BY <3>1 DEF Remaining
    <3>3. reported' \in Nat \cup {Nothing}
      BY <2>1, <3>1, <3>2
    <3> QED BY <2>1, <3>1, <3>3 DEF BudgetTypes
  <2>3. CASE LeaveQueue(r)
    <3>1. /\ tokens' = Least(tokens + CreditsPerSweep, Burst) /\ spent' = Less(spent, CreditsPerSweep)
          /\ reported' = IF reported = Nothing THEN Nothing ELSE reported + CreditsPerSweep
      BY <2>3 DEF LeaveQueue, Refund
    <3>2. reported' \in Nat \cup {Nothing}
      BY <2>1, <3>1
    <3>3. tokens' \in 0..Burst
      BY <2>1, <3>1 DEF Least
    <3>4. spent' \in 0..MaxSpent
      BY <2>1, <3>1 DEF Less
    <3> QED BY <3>2, <3>3, <3>4 DEF BudgetTypes
  <2>4. CASE Due(r) \/ Exit(r) \/ GiveUp(r) \/ TakeSlot(r)
    BY <2>4 DEF Due, Exit, GiveUp, TakeSlot, budgetVars, TypesInv, BudgetTypes
  <2> QED BY <2>2, <2>3, <2>4 DEF Waiting
<1> QED BY <1>2, <1>3, <1>4 DEF TypesInv

LEMMA PollingTypes ==
    ASSUME SuppressionInv, SuppressionInv', TypesInv, NEW r \in Runners, Polling(r)
    PROVE  TypesInv'
<1>1. UNCHANGED <<active, run, schedule, stopped, overlapped>>
  BY DEF Polling, FetchFails, Answer, Finish, PublishEvent, Suppress, PublishFails, lifeVars
<1>2. ScheduleTypes'
  BY <1>1 DEF TypesInv, ScheduleTypes
<1>3. League(r) \in Leagues /\ runner \in [Runners -> Places] /\ DOMAIN poll = Runners
  BY DEF Runners, League, SuppressionInv, PollTypes
<1>4. \A q \in Readings : q \in Nat \cup {Nothing}
  BY SweepsAssumption
<1>5. CASE FetchFails(r)
  <2>1. HoldsSweep'
    BY <1>5, Going DEF FetchFails, TypesInv, Places
  <2>2. BudgetTypes'
    BY <1>4, <1>5, Reconciling DEF FetchFails, TypesInv
  <2> QED BY <1>2, <2>1, <2>2 DEF TypesInv
<1>6. CASE Answer(r)
  <2>1. Goto(r, "consume") /\ UNCHANGED budgetVars /\ \A q \in Runners \ {r} : poll'[q] = poll[q]
    BY <1>3, <1>6 DEF Answer
  <2>2. runner' = [runner EXCEPT ![r] = "consume"]
    BY <2>1 DEF Goto
  <2>3. runner'[r] = "consume" /\ \A q \in Runners \ {r} : runner'[q] = runner[q]
    BY <1>3, <2>2
  <2>4. poll'[r] # Nothing
    <3>1. poll'[r] \in Polls(League(r))
      BY <2>3 DEF SuppressionInv, PollTypes, League
    <3> QED BY <1>3, <3>1, SweepsAssumption
  <2> QED BY <1>2, <2>1, <2>3, <2>4 DEF TypesInv, HoldsSweep, BudgetTypes, budgetVars
<1>7. CASE Finish(r)
  <2>1. /\ poll' = [poll EXCEPT ![r] = Nothing] /\ runner' = [runner EXCEPT ![r] = "idle"]
        /\ Reconcile(poll[r].reading) /\ runner[r] = "consume"
    BY <1>7 DEF Finish, Goto
  <2>2. HoldsSweep'
    BY <1>3, <2>1 DEF TypesInv, HoldsSweep
  <2>3. poll[r].reading \in Nat \cup {Nothing}
    BY <2>1 DEF SuppressionInv, PollTypes, Polls
  <2> QED BY <1>2, <2>1, <2>2, <2>3, Reconciling DEF TypesInv
<1>8. ASSUME NEW e, PublishEvent(r, e) \/ Suppress(r, e) \/ PublishFails(r, e) PROVE TypesInv'
  <2>1. /\ runner[r] = "consume" /\ UNCHANGED runner /\ UNCHANGED budgetVars
        /\ \A q \in Runners \ {r} : poll'[q] = poll[q]
    BY <1>3, <1>8 DEF PublishEvent, Suppress, PublishFails
  <2>2. poll'[r] # Nothing
    <3>1. poll'[r] \in Polls(League(r))
      BY <2>1 DEF SuppressionInv, PollTypes, League
    <3> QED BY <1>3, <3>1, SweepsAssumption
  <2> QED BY <1>2, <2>1, <2>2 DEF TypesInv, HoldsSweep, BudgetTypes, budgetVars
<1> QED BY <1>5, <1>6, <1>7, <1>8 DEF Polling

\* Type correctness, with what is not a matter of type: a runner holds a sweep exactly
\* while it consumes one, the pacing bucket stays between empty and full through
\* reservations and refunds (tryAcquire, Refund of the budget), and only runners that
\* the planner scheduled are ever stopped (retireAbsent).
THEOREM SweepsTypes == SweepsSpec => []SweepsTypeOK
<1>1. SweepsInit => TypesInv
  <2> SUFFICES ASSUME SweepsInit PROVE TypesInv
    OBVIOUS
  <2>1. /\ active = TRUE /\ run = "planning" /\ schedule = [l \in Leagues |-> 0] /\ stopped = {}
        /\ overlapped = {} /\ runner = [r \in Runners |-> "unborn"] /\ poll = [r \in Runners |-> Nothing]
        /\ tokens = Burst /\ spent = 0 /\ reported = Nothing
    BY DEF SweepsInit
  <2>2. Burst \in Nat /\ MaxSpent \in Nat /\ MaxGenerations \in Nat
    BY SweepsAssumption
  <2>3. HoldsSweep
    BY <2>1 DEF HoldsSweep
  <2>4. ScheduleTypes
    BY <2>1, <2>2 DEF ScheduleTypes
  <2>5. BudgetTypes
    BY <2>1, <2>2 DEF BudgetTypes
  <2> QED BY <2>3, <2>4, <2>5 DEF TypesInv
<1>2. SuppressionInv /\ SuppressionInv' /\ TypesInv /\ [SweepsNext]_sweepsVars => TypesInv'
  <2> SUFFICES ASSUME SuppressionInv, SuppressionInv', TypesInv, [SweepsNext]_sweepsVars
               PROVE  TypesInv'
    OBVIOUS
  <2>1. CASE UNCHANGED sweepsVars
    BY <2>1 DEF sweepsVars, lifeVars, budgetVars, TypesInv, HoldsSweep, ScheduleTypes, BudgetTypes
  <2>2. CASE Planning
    BY <2>2, PlanningTypes
  <2>3. CASE Cancel
    BY <2>3 DEF Cancel, budgetVars, TypesInv, HoldsSweep, ScheduleTypes, BudgetTypes
  <2>4. CASE Passing
    <3>1. UNCHANGED <<active, run, schedule, stopped, runner, poll, overlapped>>
      BY <2>4 DEF Passing, Refill, Roll, Age, lifeVars
    <3>2. BudgetTypes'
      <4>1. /\ tokens' = tokens \/ (tokens < Burst /\ tokens' = tokens + 1)
            /\ spent' = spent \/ spent' = 0
            /\ reported' = reported \/ reported' = Nothing
        BY <2>4 DEF Passing, Refill, Roll, Age, budgetVars
      <4>2. Burst \in Nat /\ MaxSpent \in Nat
        BY SweepsAssumption
      <4> QED BY <4>1, <4>2 DEF TypesInv, BudgetTypes
    <3> QED BY <3>1, <3>2 DEF TypesInv, HoldsSweep, ScheduleTypes
  <2>5. ASSUME NEW r \in Runners, Waiting(r) PROVE TypesInv'
    BY <2>5, WaitingTypes
  <2>6. ASSUME NEW r \in Runners, Polling(r) PROVE TypesInv'
    BY <2>6, PollingTypes
  <2> QED BY <2>1, <2>2, <2>3, <2>4, <2>5, <2>6 DEF SweepsNext
<1>3. SuppressionInv /\ TypesInv => SweepsTypeOK
  BY DEF SuppressionInv, PollTypes, TypesInv, HoldsSweep, ScheduleTypes, BudgetTypes, SweepsTypeOK
<1> QED BY <1>1, <1>2, <1>3, SuppressionInvariant, PTL DEF SweepsSpec

-----------------------------------------------------------------------------
(* The session of the SDK *)

Locked == {"redeem", "answer"}
WithCredential == {"sent", "refresh", "callback"}

Calls == [pc : {"idle", "credential", "refresh"} \cup {"sent", "callback"} \cup Locked,
          safe : BOOLEAN, attempt : Nat \ {0}, refreshed : BOOLEAN, gen : Nat,
          acc : Generations, answer : Generations, then : {"sent", "credential"}, acted : 0 .. 1]

Types ==
    /\ head \in Generations /\ tok \in Generations /\ acc \in Generations
    /\ bye \in Generations /\ stored \in Generations
    /\ ended \in {"no", "logout", "reuse"}
    /\ over \in BOOLEAN /\ fresh \in BOOLEAN /\ gen \in Nat
    /\ lost \in BOOLEAN /\ resumedBehind \in BOOLEAN /\ loggedOut \in BOOLEAN
    /\ mu \in Callers \cup {Free}
    /\ call \in [Callers -> Calls]

\* The mutex: exactly its holder is in the round trip, and it has a token.
MutexInv ==
    /\ \A c \in Callers : mu = c <=> call[c].pc \in Locked
    /\ mu # Free => tok # 0

\* The token presented is the newest of the family, and so is the answer to it,
\* while no answer was lost and nothing older was resumed.
NewestInv ==
    ~lost /\ ~resumedBehind =>
        /\ \A c \in Callers : At(c, "answer") /\ call[c].answer # 0 => call[c].answer = head
        /\ (tok # 0 /\ \A c \in Callers : ~(At(c, "answer") /\ call[c].answer # 0)) => tok = head
        /\ ended # "reuse"

\* A call that used the current generation used the access token the session has,
\* if it has one.
GenerationInv ==
    \A c \in Callers :
        /\ call[c].pc \in WithCredential =>
               call[c].gen <= gen /\ (call[c].gen = gen => acc \in {0, call[c].acc})
        /\ At(c, "refresh") => call[c].acc \in rejected
        /\ At(c, "redeem") => acc = 0 \/ ~fresh \/ acc \in rejected

\* A token refused or a logout leaves the session without one.
EmptyInv ==
    /\ refused # {} => tok = 0
    /\ loggedOut => tok = 0
    /\ tok = 0 => acc = 0

\* A call acts when it returns, and only a safe one is repeated.
ActsInv == \A c \in Callers : ~At(c, "idle") => call[c].acted = 0

KeeperInv == Types /\ MutexInv /\ NewestInv /\ GenerationInv /\ EmptyInv /\ ActsInv

LEMMA KeeperInitial == KeeperInit => KeeperInv
<1> SUFFICES ASSUME KeeperInit PROVE KeeperInv
  OBVIOUS
<1>1. \A c \in Callers : call[c] = Idle
  BY DEF KeeperInit
<1>2. 0 \in Generations /\ 1 \in Generations
  BY KeeperAssumption DEF Generations
<1>3. Idle \in Calls
  BY <1>2 DEF Idle, Calls
<1>4. call \in [Callers -> Calls] /\ \A c \in Callers : call[c].pc = "idle"
  BY <1>1, <1>3 DEF KeeperInit, Idle
<1>5. Types
  <2>1. acc \in Generations /\ fresh \in BOOLEAN /\ gen \in Nat
    <3>1. CASE acc = 1 /\ fresh = TRUE /\ gen = 1
      BY <1>2, <3>1
    <3>2. CASE acc = 0 /\ fresh = FALSE /\ gen = 0
      BY <1>2, <3>2
    <3> QED BY <3>1, <3>2 DEF KeeperInit
  <2>2. /\ head = 1 /\ tok = 1 /\ bye = 0 /\ stored = 1 /\ ended = "no" /\ over = FALSE
        /\ lost = FALSE /\ resumedBehind = FALSE /\ loggedOut = FALSE /\ mu = Free
    BY DEF KeeperInit
  <2> QED BY <1>2, <1>4, <2>1, <2>2 DEF Types
<1>6. MutexInv
  BY <1>4, KeeperAssumption DEF KeeperInit, MutexInv, Locked
<1>7. NewestInv /\ GenerationInv /\ EmptyInv /\ ActsInv
  BY <1>4 DEF KeeperInit, NewestInv, GenerationInv, EmptyInv, ActsInv, At, WithCredential
<1> QED BY <1>5, <1>6, <1>7 DEF KeeperInv

\* A call that takes no part in a round trip moves on: to where its credential
\* is the current one, was rejected, or is asked for again.
LEMMA CallMoves ==
    ASSUME KeeperInv, NEW c \in Callers, NEW r \in Calls,
           call' = [call EXCEPT ![c] = r],
           UNCHANGED <<familyVars, tokenVars, mu, bye, lost, resumedBehind, refused, loggedOut>>,
           rejected \subseteq rejected', stored' \in Generations,
           call[c].pc \notin Locked, r.pc \notin Locked,
           r.pc \in WithCredential => r.gen <= gen /\ (r.gen = gen => acc \in {0, r.acc}),
           r.pc = "refresh" => r.acc \in rejected',
           r.pc # "idle" => r.acted = 0
    PROVE  KeeperInv'
<1> USE DEF familyVars, tokenVars
<1>1. call' \in [Callers -> Calls] /\ call'[c] = r /\ \A d \in Callers \ {c} : call'[d] = call[d]
  BY DEF KeeperInv, Types
<1>2. Types'
  BY <1>1 DEF KeeperInv, Types
<1>3. MutexInv'
  BY <1>1 DEF KeeperInv, MutexInv
<1>4. NewestInv'
  BY <1>1 DEF KeeperInv, NewestInv, At, Locked
<1>5. GenerationInv'
  BY <1>1 DEF KeeperInv, GenerationInv, At, Locked
<1>6. EmptyInv'
  BY DEF KeeperInv, EmptyInv
<1>7. ActsInv'
  BY <1>1 DEF KeeperInv, ActsInv, At
<1> QED BY <1>2, <1>3, <1>4, <1>5, <1>6, <1>7 DEF KeeperInv

LEMMA IdleCall == 0 \in Generations /\ Idle \in Calls /\ Idle.pc = "idle"
<1>1. 0 \in Generations
  BY KeeperAssumption DEF Generations
<1> QED BY <1>1 DEF Idle, Calls

LEMMA StartKeeps ==
    ASSUME KeeperInv, NEW c \in Callers, Start(c)
    PROVE  KeeperInv'
<1>1. PICK safe \in BOOLEAN : call' = [call EXCEPT ![c] = [Idle EXCEPT !.pc = "credential", !.safe = safe]]
  BY DEF Start
<1> DEFINE r == [Idle EXCEPT !.pc = "credential", !.safe = safe]
<1>2. r \in Calls /\ r.pc = "credential" /\ r.acted = 0
  BY IdleCall DEF Idle, Calls
<1>3. call' = [call EXCEPT ![c] = r] /\ call[c].pc = "idle" /\ stored \in Generations
  BY <1>1 DEF Start, At, KeeperInv, Types
<1> HIDE DEF r
<1> QED BY <1>2, <1>3, CallMoves DEF Start, historyVars, Locked, WithCredential

\* A round trip begins with the mutex, and only when it is due; with no refresh
\* token, or past the end of the family, there is none.
LEMMA RefreshLockedKeeps ==
    ASSUME KeeperInv, NEW c \in Callers, NEW then \in {"sent", "credential"}, RefreshLocked(c, then),
           call[c].pc \in {"credential", "refresh"}, mu = Free, acc = 0 \/ ~fresh \/ acc \in rejected,
           UNCHANGED <<familyVars, bye, stored, historyVars>>
    PROVE  KeeperInv'
<1> USE DEF familyVars, historyVars, tokenVars
<1>1. call \in [Callers -> Calls] /\ call[c] \in Calls /\ stored \in Generations
  BY DEF KeeperInv, Types
<1>2. CASE tok = 0 /\ Errs(c) /\ UNCHANGED <<tokenVars, mu>>
  <2>1. call' = [call EXCEPT ![c] = Idle] /\ call[c].pc \notin Locked /\ Idle.pc = "idle" /\ Idle \in Calls
    BY <1>2, IdleCall DEF Errs, Locked
  <2> QED BY <1>1, <1>2, <2>1, CallMoves DEF Locked, WithCredential
<1>3. CASE tok # 0 /\ over /\ acc # 0 /\ Wiped /\ Errs(c) /\ UNCHANGED <<gen, mu>>
  <2>1. call' \in [Callers -> Calls] /\ call'[c] = Idle /\ \A d \in Callers \ {c} : call'[d] = call[d]
    BY <1>1, <1>3, IdleCall DEF Errs
  <2>2. tok' = 0 /\ acc' = 0 /\ fresh' = FALSE /\ UNCHANGED <<gen, mu>>
    BY <1>3 DEF Wiped
  <2>3. \A d \in Callers : call[d].pc \notin Locked
    BY KeeperAssumption DEF KeeperInv, MutexInv
  <2>4. Types'
    BY <2>1, <2>2, IdleCall DEF KeeperInv, Types
  <2>5. MutexInv'
    BY <2>1, <2>2, <2>3, IdleCall, KeeperAssumption DEF KeeperInv, MutexInv, Locked
  <2>6. NewestInv'
    BY <2>1, <2>2, <2>3, IdleCall DEF KeeperInv, NewestInv, At, Locked
  <2>7. GenerationInv'
    BY <2>1, <2>2, <2>3, IdleCall DEF KeeperInv, GenerationInv, At, Locked, WithCredential
  <2>8. EmptyInv'
    BY <2>2 DEF KeeperInv, EmptyInv
  <2>9. ActsInv'
    BY <2>1, IdleCall DEF KeeperInv, ActsInv, At
  <2> QED BY <2>4, <2>5, <2>6, <2>7, <2>8, <2>9 DEF KeeperInv
<1>4. CASE /\ tok # 0 /\ mu' = c /\ UNCHANGED tokenVars
           /\ call' = [call EXCEPT ![c].pc = "redeem", ![c].then = then]
  <2>1. /\ call' \in [Callers -> Calls] /\ \A d \in Callers \ {c} : call'[d] = call[d]
        /\ call'[c].pc = "redeem" /\ call'[c].acted = call[c].acted
    BY <1>1, <1>4 DEF Calls, Locked
  <2>2. \A d \in Callers : call[d].pc \notin Locked
    BY KeeperAssumption DEF KeeperInv, MutexInv
  <2>3. Types'
    BY <1>4, <2>1 DEF KeeperInv, Types
  <2>4. MutexInv'
    BY <1>4, <2>1, <2>2 DEF KeeperInv, MutexInv, Locked
  <2>5. NewestInv'
    BY <1>4, <2>1, <2>2 DEF KeeperInv, NewestInv, At, Locked
  <2>6. GenerationInv'
    BY <1>4, <2>1, <2>2 DEF KeeperInv, GenerationInv, At, Locked, WithCredential
  <2>7. EmptyInv'
    BY <1>4 DEF KeeperInv, EmptyInv
  <2>8. ActsInv'
    BY <2>1 DEF KeeperInv, ActsInv, At
  <2> QED BY <2>3, <2>4, <2>5, <2>6, <2>7, <2>8 DEF KeeperInv
<1> QED BY <1>2, <1>3, <1>4 DEF RefreshLocked

LEMMA CredentialKeeps ==
    ASSUME KeeperInv, NEW c \in Callers, Credential(c)
    PROVE  KeeperInv'
<1>1. call[c].pc = "credential" /\ mu = Free /\ UNCHANGED <<familyVars, bye, stored, historyVars>>
  BY DEF Credential, At
<1>2. CASE /\ acc # 0 /\ fresh /\ UNCHANGED <<tokenVars, mu>>
           /\ call' = [call EXCEPT ![c].pc = "sent", ![c].acc = acc, ![c].gen = gen]
  <2> DEFINE r == [call[c] EXCEPT !.pc = "sent", !.acc = acc, !.gen = gen]
  <2>1. call[c] \in Calls /\ acc \in Generations /\ gen \in Nat /\ stored \in Generations
    BY DEF KeeperInv, Types
  <2>2. r \in Calls /\ r.pc = "sent" /\ r.acc = acc /\ r.gen = gen /\ r.acted = call[c].acted
    BY <2>1 DEF Calls
  <2>3. call' = [call EXCEPT ![c] = r]
    BY <1>2
  <2>4. r.acted = 0
    BY <1>1, <2>2 DEF KeeperInv, ActsInv, At
  <2>5. /\ UNCHANGED <<familyVars, tokenVars, mu, bye, lost, resumedBehind, refused, loggedOut>>
        /\ rejected' = rejected /\ stored' = stored
    BY <1>1, <1>2 DEF historyVars
  <2>6. r.gen <= gen /\ acc \in {0, r.acc} /\ call[c].pc \notin Locked /\ r.pc \notin Locked
    BY <1>1, <2>1, <2>2 DEF Locked
  <2> HIDE DEF r
  <2> QED BY <2>1, <2>2, <2>3, <2>4, <2>5, <2>6, CallMoves
<1>3. CASE ~(acc # 0 /\ fresh) /\ RefreshLocked(c, "sent")
  <2>1. acc = 0 \/ ~fresh \/ acc \in rejected
    BY <1>3
  <2>2. RefreshLocked(c, "sent") /\ call[c].pc \in {"credential", "refresh"}
    BY <1>1, <1>3
  <2> QED BY <1>1, <2>1, <2>2, RefreshLockedKeeps
<1> QED BY <1>2, <1>3 DEF Credential

\* A rejected credential is refreshed only while it is still the current one.
LEMMA SessionRefreshKeeps ==
    ASSUME KeeperInv, NEW c \in Callers, SessionRefresh(c)
    PROVE  KeeperInv'
<1>1. /\ call[c].pc = "refresh" /\ mu = Free /\ UNCHANGED <<familyVars, bye, stored, historyVars>>
      /\ call[c] \in Calls /\ stored \in Generations
  BY DEF SessionRefresh, At, KeeperInv, Types
<1>2. CASE MoveTo(c, "credential") /\ UNCHANGED <<tokenVars, mu>>
  <2> DEFINE r == [call[c] EXCEPT !.pc = "credential"]
  <2>1. r \in Calls /\ r.pc = "credential" /\ r.acted = call[c].acted
    BY <1>1 DEF Calls
  <2>2. call' = [call EXCEPT ![c] = r]
    BY <1>2 DEF MoveTo
  <2>3. r.acted = 0
    BY <1>1, <2>1 DEF KeeperInv, ActsInv, At
  <2> HIDE DEF r
  <2> QED BY <1>1, <1>2, <2>1, <2>2, <2>3, CallMoves DEF historyVars, Locked, WithCredential
<1>3. CASE gen = call[c].gen /\ RefreshLocked(c, "credential")
  <2>1. acc = 0 \/ acc \in rejected
    BY <1>1, <1>3 DEF KeeperInv, GenerationInv, At, WithCredential
  <2> QED BY <1>1, <1>3, <2>1, RefreshLockedKeeps
<1> QED BY <1>2, <1>3 DEF SessionRefresh

LEMMA ReturnsKeeps ==
    ASSUME KeeperInv, NEW c \in Callers, NEW acts \in BOOLEAN, Returns(c, acts)
    PROVE  KeeperInv'
<1> DEFINE r == [Idle EXCEPT !.acted = Acted(c, acts)]
<1>1. call[c].pc = "sent" /\ call' = [call EXCEPT ![c] = r] /\ stored \in Generations
  BY DEF Returns, At, KeeperInv, Types
<1>2. Acted(c, acts) \in 0 .. 1
  BY <1>1 DEF Acted, KeeperInv, ActsInv, At
<1>3. r \in Calls /\ r.pc = "idle"
  BY <1>2, IdleCall DEF Idle, Calls
<1> HIDE DEF r
<1> QED BY <1>1, <1>3, CallMoves DEF Returns, historyVars, Locked, WithCredential

\* The policy repeats only safe methods, so a call that is repeated has not acted.
LEMMA AgainKeeps ==
    ASSUME KeeperInv, NEW c \in Callers, NEW acts \in BOOLEAN, Again(c, acts)
    PROVE  KeeperInv'
<1> DEFINE r == [call[c] EXCEPT !.pc = "credential", !.attempt = @ + 1, !.acted = Acted(c, acts)]
<1>1. call[c].pc = "sent" /\ call[c] \in Calls /\ stored \in Generations /\ call[c].acted = 0
  BY DEF Again, At, KeeperInv, Types, ActsInv
<1>2. call' = [call EXCEPT ![c] = r]
  BY DEF Again
<1>3. /\ call[c].attempt \in Nat \ {0} /\ call[c].attempt + 1 \in Nat \ {0}
      /\ call[c].attempt < MaxAttempts(c)
  BY <1>1 DEF Again, Calls
<1>4. call[c].safe
  BY <1>3 DEF MaxAttempts
<1>5. Acted(c, acts) = 0
  BY <1>1, <1>4 DEF Acted
<1>6. r \in Calls /\ r.pc = "credential" /\ r.acted = 0
  BY <1>1, <1>3, <1>5 DEF Calls
<1> HIDE DEF r
<1> QED BY <1>1, <1>2, <1>6, CallMoves DEF Again, historyVars, Locked, WithCredential

LEMMA UnauthorizedKeeps ==
    ASSUME KeeperInv, NEW c \in Callers, Unauthorized(c)
    PROVE  KeeperInv'
<1>1. /\ call[c].pc = "sent" /\ call[c] \in Calls /\ stored \in Generations /\ call[c].acted = 0
      /\ rejected' = rejected \cup {call[c].acc}
      /\ UNCHANGED <<familyVars, tokenVars, mu, bye, stored, lost, resumedBehind, refused, loggedOut>>
  BY DEF Unauthorized, At, KeeperInv, Types, ActsInv
<1>2. CASE call[c].refreshed
  BY <1>1, <1>2, IdleCall, CallMoves DEF Unauthorized, Errs, Locked, WithCredential
<1>3. CASE ~call[c].refreshed
  <2> DEFINE r == [call[c] EXCEPT !.pc = "refresh", !.refreshed = TRUE, !.attempt = @ + 1]
  <2>1. call' = [call EXCEPT ![c] = r]
    BY <1>3 DEF Unauthorized
  <2>2. /\ r \in Calls /\ r.pc = "refresh" /\ r.acc = call[c].acc /\ r.gen = call[c].gen
        /\ r.acted = call[c].acted
    <3>1. call[c].attempt + 1 \in Nat \ {0}
      BY <1>1 DEF Calls
    <3> QED BY <1>1, <3>1 DEF Calls
  <2>3. call[c].gen <= gen /\ (call[c].gen = gen => acc \in {0, call[c].acc})
    BY <1>1 DEF KeeperInv, GenerationInv, WithCredential
  <2> HIDE DEF r
  <2> QED BY <1>1, <2>1, <2>2, <2>3, CallMoves DEF Locked, WithCredential
<1> QED BY <1>2, <1>3

LEMMA CallbackKeeps ==
    ASSUME KeeperInv, NEW c \in Callers, Callback(c)
    PROVE  KeeperInv'
<1> DEFINE r == [call[c] EXCEPT !.pc = call[c].then]
<1>1. /\ call[c].pc = "callback" /\ call[c] \in Calls /\ call[c].acted = 0
      /\ stored' = call[c].answer /\ call' = [call EXCEPT ![c] = r]
  BY DEF Callback, MoveTo, At, KeeperInv, Types, ActsInv
<1>2. /\ r \in Calls /\ r.pc \in {"sent", "credential"} /\ r.acc = call[c].acc /\ r.gen = call[c].gen
      /\ r.acted = 0 /\ stored' \in Generations
  BY <1>1 DEF Calls
<1>3. call[c].gen <= gen /\ (call[c].gen = gen => acc \in {0, call[c].acc})
  BY <1>1 DEF KeeperInv, GenerationInv, WithCredential
<1> HIDE DEF r
<1> QED BY <1>1, <1>2, <1>3, CallMoves DEF Callback, historyVars, Locked, WithCredential

\* The holder of the mutex presents the token; the newest rotates.
LEMMA RedeemKeeps ==
    ASSUME KeeperInv, NEW c \in Callers, Redeem(c)
    PROVE  KeeperInv'
<1> USE DEF tokenVars, historyVars
<1>1. /\ call[c].pc = "redeem" /\ call[c] \in Calls /\ call \in [Callers -> Calls] /\ head \in Nat
      /\ UNCHANGED <<over, tokenVars, mu, bye, stored, historyVars>>
  BY DEF Redeem, At, KeeperInv, Types, Generations
<1>2. mu = c /\ tok # 0 /\ \A d \in Callers \ {c} : call[d].pc \notin Locked
  BY <1>1, KeeperAssumption DEF KeeperInv, MutexInv, Locked
<1>3. PICK answer \in Generations :
        /\ call' = [call EXCEPT ![c].pc = "answer", ![c].answer = answer]
        /\ \/ answer = head + 1 /\ head' = answer /\ UNCHANGED ended
           \/ /\ answer = 0 /\ UNCHANGED head
              /\ ended' = (IF ended = "no" /\ tok < head THEN "reuse" ELSE ended)
  <2>1. head + 1 \in Generations \/ head >= MaxRotations
    BY <1>1, KeeperAssumption DEF Generations
  <2>2. CASE tok = head /\ ended = "no" /\ ~over
    BY <2>1, <2>2, <1>1, KeeperAssumption DEF Redeem
  <2>3. CASE ~(tok = head /\ ended = "no" /\ ~over)
    BY <2>3, IdleCall DEF Redeem
  <2> QED BY <2>2, <2>3
<1>4. /\ call' \in [Callers -> Calls] /\ \A d \in Callers \ {c} : call'[d] = call[d]
      /\ call'[c].pc = "answer" /\ call'[c].answer = answer /\ call'[c].acted = call[c].acted
  BY <1>1, <1>3 DEF Calls, Locked
<1>5. head' \in Generations /\ ended' \in {"no", "logout", "reuse"}
  BY <1>3 DEF KeeperInv, Types
<1>6. Types'
  BY <1>1, <1>4, <1>5 DEF KeeperInv, Types
<1>7. MutexInv'
  BY <1>1, <1>2, <1>4 DEF KeeperInv, MutexInv, Locked
<1>8. NewestInv'
  <2> SUFFICES ASSUME ~lost, ~resumedBehind PROVE NewestInv'
    BY <1>1 DEF NewestInv
  <2>1. tok = head /\ ended # "reuse"
    BY <1>1, <1>2 DEF KeeperInv, NewestInv, At, Locked
  <2>2. ended' # "reuse"
    BY <1>1, <1>3, <2>1
  <2>3. \A d \in Callers : At(d, "answer")' => d = c
    BY <1>2, <1>4 DEF At, Locked
  <2>4. answer # 0 => answer = head'
    BY <1>3
  <2>5. answer = 0 => tok' = head'
    BY <1>1, <1>3, <2>1
  <2> QED BY <1>4, <2>2, <2>3, <2>4, <2>5 DEF NewestInv, At
<1>9. GenerationInv'
  BY <1>1, <1>4 DEF KeeperInv, GenerationInv, At, WithCredential
<1>10. EmptyInv'
  BY <1>1 DEF KeeperInv, EmptyInv
<1>11. ActsInv'
  BY <1>1, <1>4 DEF KeeperInv, ActsInv, At
<1> QED BY <1>6, <1>7, <1>8, <1>9, <1>10, <1>11 DEF KeeperInv

\* The answer is applied under the mutex: it is the newest token.
LEMMA ApplyKeeps ==
    ASSUME KeeperInv, NEW c \in Callers, Apply(c)
    PROVE  KeeperInv'
<1> USE DEF familyVars, historyVars
<1>1. /\ call[c].pc = "answer" /\ call[c] \in Calls /\ call \in [Callers -> Calls] /\ gen \in Nat
      /\ call[c].answer # 0 /\ tok' = call[c].answer /\ acc' = call[c].answer /\ fresh' = TRUE
      /\ gen' = gen + 1 /\ mu' = Free /\ UNCHANGED <<familyVars, bye, stored, historyVars>>
  BY DEF Apply, At, KeeperInv, Types
<1>2. mu = c /\ tok # 0 /\ \A d \in Callers \ {c} : call[d].pc \notin Locked
  BY <1>1, KeeperAssumption DEF KeeperInv, MutexInv, Locked
<1>3. call[c].answer \in Generations
  BY <1>1 DEF Calls
<1>4. call' = [call EXCEPT ![c].pc = "callback", ![c].acc = acc', ![c].gen = gen']
  BY DEF Apply
<1>5. gen' \in Nat /\ acc' \in Generations
  BY <1>1, <1>3
<1>6. /\ call' \in [Callers -> Calls] /\ \A d \in Callers \ {c} : call'[d] = call[d]
      /\ call'[c].pc = "callback" /\ call'[c].acc = acc' /\ call'[c].gen = gen'
      /\ call'[c].acted = call[c].acted
  BY <1>1, <1>4, <1>5 DEF Calls, Locked
<1>7. Types'
  BY <1>1, <1>3, <1>5, <1>6 DEF KeeperInv, Types
<1>8. MutexInv'
  BY <1>1, <1>2, <1>6, KeeperAssumption DEF KeeperInv, MutexInv, Locked
<1>9. NewestInv'
  BY <1>1, <1>2, <1>6 DEF KeeperInv, NewestInv, At, Locked
<1>10. GenerationInv'
  <2>1. \A d \in Callers \ {c} : call[d].pc \in WithCredential => call[d].gen <= gen /\ call[d].gen \in Nat
    BY <1>1 DEF KeeperInv, GenerationInv, Calls
  <2>2. \A d \in Callers : call'[d].pc \in WithCredential =>
          call'[d].gen <= gen' /\ (call'[d].gen = gen' => acc' \in {0, call'[d].acc})
    BY <1>1, <1>6, <2>1
  <2>3. \A d \in Callers : call'[d].pc = "refresh" => call'[d].acc \in rejected'
    BY <1>1, <1>6 DEF KeeperInv, GenerationInv, At
  <2>4. \A d \in Callers : call'[d].pc # "redeem"
    BY <1>2, <1>6 DEF Locked
  <2> QED BY <2>2, <2>3, <2>4 DEF GenerationInv, At
<1>11. EmptyInv'
  BY <1>1, <1>2 DEF KeeperInv, EmptyInv
<1>12. ActsInv'
  BY <1>1, <1>6 DEF KeeperInv, ActsInv, At
<1> QED BY <1>7, <1>8, <1>9, <1>10, <1>11, <1>12 DEF KeeperInv

\* A refusal leaves the session without a token, a failure with the one it had.
LEMMA RoundTripEndsKeeps ==
    ASSUME KeeperInv, NEW c \in Callers, Refused(c) \/ RefreshFails(c)
    PROVE  KeeperInv'
<1> USE DEF familyVars, tokenVars
<1>1. /\ call[c].pc \in Locked /\ call \in [Callers -> Calls] /\ mu' = Free
      /\ call' = [call EXCEPT ![c] = Idle]
      /\ UNCHANGED <<familyVars, gen, bye, stored, resumedBehind, rejected, loggedOut>>
  BY DEF Refused, RefreshFails, At, Errs, Locked, KeeperInv, Types
<1>2. mu = c /\ tok # 0 /\ \A d \in Callers \ {c} : call[d].pc \notin Locked
  BY <1>1, KeeperAssumption DEF KeeperInv, MutexInv, Locked
<1>3. \/ /\ refused' = refused \cup {tok} /\ tok' = 0 /\ acc' = 0 /\ fresh' = FALSE /\ UNCHANGED lost
      \/ UNCHANGED <<refused, tok, acc, fresh>> /\ lost' = TRUE
  BY DEF Refused, RefreshFails, Wiped
<1>4. /\ call' \in [Callers -> Calls] /\ \A d \in Callers \ {c} : call'[d] = call[d]
      /\ call'[c] = Idle
  BY <1>1, IdleCall
<1>5. Types'
  <2>1. tok' \in Generations /\ acc' \in Generations /\ fresh' \in BOOLEAN /\ lost' \in BOOLEAN
    BY <1>3, IdleCall DEF KeeperInv, Types
  <2> QED BY <1>1, <1>4, <2>1 DEF KeeperInv, Types
<1>6. MutexInv'
  BY <1>1, <1>2, <1>4, IdleCall, KeeperAssumption DEF MutexInv, Locked
<1>7. NewestInv'
  BY <1>1, <1>2, <1>3, <1>4, IdleCall DEF KeeperInv, NewestInv, At, Locked
<1>8. GenerationInv'
  BY <1>1, <1>3, <1>4, IdleCall DEF KeeperInv, GenerationInv, At, WithCredential
<1>9. EmptyInv'
  BY <1>1, <1>2, <1>3 DEF KeeperInv, EmptyInv
<1>10. ActsInv'
  BY <1>4, IdleCall DEF KeeperInv, ActsInv, At
<1> QED BY <1>5, <1>6, <1>7, <1>8, <1>9, <1>10 DEF KeeperInv

\* Logout takes the mutex, so no round trip is under way, and raises the generation.
LEMMA LogoutKeeps ==
    ASSUME KeeperInv, Logout
    PROVE  KeeperInv'
<1>1. /\ mu = Free /\ tok' = 0 /\ acc' = 0 /\ fresh' = FALSE /\ gen' = gen + 1 /\ bye' = tok
      /\ loggedOut' = TRUE
      /\ UNCHANGED <<familyVars, mu, call, stored, lost, resumedBehind, rejected, refused>>
  BY DEF Logout, Wiped
<1>2. \A d \in Callers : call[d].pc \notin Locked /\ call[d] \in Calls
  BY <1>1, KeeperAssumption DEF KeeperInv, MutexInv, Types
<1>3. Types'
  <2>1. tok \in Generations /\ gen \in Nat /\ 0 \in Generations
    BY IdleCall DEF KeeperInv, Types
  <2>2. tok' \in Generations /\ acc' \in Generations /\ bye' \in Generations
    BY <1>1, <2>1
  <2>3. gen' \in Nat
    BY <1>1, <2>1
  <2>4. fresh' \in BOOLEAN /\ loggedOut' \in BOOLEAN
    BY <1>1
  <2> QED BY <1>1, <2>2, <2>3, <2>4 DEF KeeperInv, Types, familyVars
<1>4. MutexInv' /\ EmptyInv' /\ ActsInv'
  BY <1>1, <1>2 DEF KeeperInv, MutexInv, EmptyInv, ActsInv, At
<1>5. NewestInv'
  BY <1>1, <1>2 DEF KeeperInv, NewestInv, At, Locked, familyVars
<1>6. GenerationInv'
  <2>1. \A d \in Callers : call[d].pc \in WithCredential => call[d].gen <= gen /\ call[d].gen \in Nat
    BY <1>2 DEF KeeperInv, GenerationInv, Calls
  <2>2. \A d \in Callers : call[d].pc \in WithCredential => call[d].gen <= gen' /\ acc' \in {0, call[d].acc}
    BY <1>1, <2>1 DEF KeeperInv, Types
  <2> QED BY <1>1, <1>2, <2>2 DEF KeeperInv, GenerationInv, At, Locked
<1> QED BY <1>3, <1>4, <1>5, <1>6 DEF KeeperInv

\* What only the server, the clock, or a request on its way changes.
LEMMA OutsideKeeps ==
    ASSUME KeeperInv, LogoutArrives \/ Expire \/ FamilyEnds
    PROVE  KeeperInv'
<1>1. /\ UNCHANGED <<head, tok, acc, gen, mu, call, stored, historyVars>>
      /\ bye' \in Generations /\ fresh' \in BOOLEAN /\ (fresh' => fresh) /\ over' \in BOOLEAN
      /\ ended' \in {ended, "logout"}
  <2>1. /\ 0 \in Generations /\ bye \in Generations /\ fresh \in BOOLEAN /\ over \in BOOLEAN
    BY IdleCall DEF KeeperInv, Types
  <2>2. CASE LogoutArrives
    BY <2>1, <2>2 DEF LogoutArrives, tokenVars
  <2>3. CASE Expire
    BY <2>1, <2>3 DEF Expire, familyVars
  <2>4. CASE FamilyEnds
    BY <2>1, <2>4 DEF FamilyEnds, tokenVars
  <2> QED BY <2>2, <2>3, <2>4
<1>2. Types'
  BY <1>1 DEF KeeperInv, Types, historyVars
<1>3. MutexInv' /\ EmptyInv' /\ ActsInv'
  BY <1>1 DEF KeeperInv, MutexInv, EmptyInv, ActsInv, At, historyVars
<1>4. NewestInv'
  BY <1>1 DEF KeeperInv, NewestInv, At, historyVars
<1>5. GenerationInv'
  BY <1>1 DEF KeeperInv, GenerationInv, At, historyVars
<1> QED BY <1>2, <1>3, <1>4, <1>5 DEF KeeperInv

\* Another process begins with the token that was persisted, and no call.
LEMMA ResumeKeeps ==
    ASSUME KeeperInv, Resume
    PROVE  KeeperInv'
<1>1. /\ tok' = stored /\ stored # 0 /\ acc' = 0 /\ fresh' = FALSE /\ gen' = 0 /\ mu' = Free
      /\ refused' = {} /\ ~loggedOut
      /\ UNCHANGED <<familyVars, bye, stored, lost, rejected, loggedOut>>
  BY DEF Resume
<1>2. /\ call' \in [Callers -> Calls]
      /\ \A d \in Callers : call'[d] = Idle
  BY IdleCall DEF Resume
<1>3. resumedBehind' = (resumedBehind \/ stored # head)
  BY DEF Resume
<1>4. resumedBehind' \in BOOLEAN /\ (~resumedBehind' => ~resumedBehind /\ tok' = head')
  BY <1>1, <1>3 DEF KeeperInv, Types, familyVars
<1>5. Types'
  BY <1>1, <1>2, <1>4, IdleCall DEF KeeperInv, Types, familyVars
<1>6. MutexInv' /\ EmptyInv' /\ ActsInv'
  BY <1>1, <1>2, IdleCall, KeeperAssumption DEF MutexInv, EmptyInv, ActsInv, At, Locked
<1>7. NewestInv'
  BY <1>1, <1>2, <1>4, IdleCall DEF KeeperInv, NewestInv, At, familyVars
<1>8. GenerationInv'
  BY <1>2, IdleCall DEF GenerationInv, At, WithCredential
<1> QED BY <1>5, <1>6, <1>7, <1>8 DEF KeeperInv

LEMMA KeeperStutters ==
    ASSUME KeeperInv, UNCHANGED keeperVars
    PROVE  KeeperInv'
BY DEF KeeperInv, Types, MutexInv, NewestInv, GenerationInv, EmptyInv, ActsInv, At, keeperVars,
   familyVars, tokenVars, historyVars

LEMMA KeeperStep == KeeperInv /\ [KeeperNext]_keeperVars => KeeperInv'
BY StartKeeps, CredentialKeeps, SessionRefreshKeeps, ReturnsKeeps, AgainKeeps, UnauthorizedKeeps,
   RedeemKeeps, ApplyKeeps, RoundTripEndsKeeps, CallbackKeeps, LogoutKeeps, OutsideKeeps,
   ResumeKeeps, KeeperStutters DEF KeeperNext

\* Whatever the goroutines of a program do with one session: the family is ended
\* as reused only after a lost answer or an older token resumed, a token is
\* refreshed once, a refused one is dropped, a logout is final, and an unsafe
\* call acts once.
THEOREM SessionCorrect == KeeperSpec => []KeeperCorrect
<1>1. KeeperInv => KeeperCorrect
  <2> SUFFICES ASSUME KeeperInv PROVE KeeperCorrect
    OBVIOUS
  <2>1. KeeperTypeOK
    BY DEF KeeperInv, Types, MutexInv, Locked, KeeperTypeOK
  <2>2. ReuseNeedsLoss
    BY DEF KeeperInv, NewestInv, ReuseNeedsLoss
  <2>3. OneRefreshPerExpiry
    BY DEF KeeperInv, GenerationInv, OneRefreshPerExpiry
  <2>4. RefusedIsDropped
    BY KeeperAssumption DEF KeeperInv, MutexInv, EmptyInv, RefusedIsDropped, At, Locked
  <2>5. LogoutIsFinal
    BY DEF KeeperInv, EmptyInv, LogoutIsFinal
  <2>6. ActsOnce
    BY DEF KeeperInv, Types, Calls, ActsOnce
  <2> QED BY <2>1, <2>2, <2>3, <2>4, <2>5, <2>6 DEF KeeperCorrect
<1> QED BY <1>1, KeeperInitial, KeeperStep, PTL DEF KeeperSpec
=============================================================================
