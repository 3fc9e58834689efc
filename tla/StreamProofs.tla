---------------------------- MODULE StreamProofs ----------------------------
(***************************************************************************)
(* Proofs about the SDK's stream: of two events in a row the second starts  *)
(* where the first stopped, Close leaves no connection behind, the failure  *)
(* Close causes is not reported as a loss, and what the callers, however   *)
(* many at once, want is held once nothing is under way.                    *)
(***************************************************************************)
EXTENDS GatewayProofs, StreamClient

\* The callers' variables are spelled out throughout.
USE DEF callVars

-----------------------------------------------------------------------------
(* The hub's invariant under the stream's steps *)

\* The client hangs up, and the server tears the connection down.
LEMMA HangsUpHub ==
    ASSUME HubInv, NEW c \in Conns, HangsUp(c)
    PROVE  HubInv'
<1>1. /\ RoutingInv /\ SlateInv /\ TypesInv
      /\ Shape /\ RoutesExact /\ LiveExact /\ HeldLive /\ JobsLive
      /\ ConnTypes /\ Counted /\ JobsFit /\ Restoring
  BY DEF HubInv, RoutingInv, TypesInv
<1>2. /\ phase' = [phase EXCEPT ![c] = "gone"]
      /\ link' = [link EXCEPT ![c] = [seq |-> 0, queue |-> <<>>, wire |-> <<>>]]
      /\ up' = [up EXCEPT ![c] = <<>>]
      /\ job' = [job EXCEPT ![c] = NoJob]
      /\ live' = live \ {c}
      /\ RemoveRoutes(c, held[c])
      /\ UNCHANGED slateVars
  BY DEF HangsUp
<1>3. held' = [held EXCEPT ![c] = @ \ held[c]]
  BY <1>2 DEF RemoveRoutes
<1>4. RoutingInv'
  <2>1. Shape'
    BY <1>1, <1>2, <1>3 DEF Shape
  <2>2. RoutesExact'
    BY <1>1, <1>2, RemoveRoutesExact
  <2>3. LiveExact'
    BY <1>1, <1>2 DEF LiveExact, LivePhases, Shape
  <2>4. HeldLive'
    BY <1>1, <1>2, <1>3 DEF HeldLive, Shape
  <2>5. JobsLive'
    BY <1>1, <1>2 DEF JobsLive, Shape, NoJob
  <2> QED BY <2>1, <2>2, <2>3, <2>4, <2>5 DEF RoutingInv
<1>5. SlateInv'
  BY <1>1, <1>2, SlateKept
<1>6. Counted'
  BY <1>1, <1>2, RemoveRoutesCounted
<1>7. \A x \in Conns \ {c} : held'[x] = held[x]
  BY <1>1, <1>3 DEF Counted
<1>8. JobsFit' /\ job' \in [Conns -> [op : JobOps, channels : Seq(Channels)]]
  BY <1>1, <1>2, <1>7, JobDone
<1>9. Restoring'
  BY <1>1, <1>2 DEF Restoring, ConnTypes
<1>10. ConnTypes'
  <2>1. [seq |-> 0, queue |-> <<>>, wire |-> <<>>] \in Links
    <3>1. <<>> \in Seq(Frames) /\ Len(<<>>) = 0 /\ 0 <= Capacity
      BY CapacitiesAssumption
    <3> QED BY <3>1 DEF Links, LinksOf, Frames
  <2>2. "gone" \in Phases
    BY DEF Phases
  <2> QED BY <1>1, <1>2, <1>8, <2>1, <2>2 DEF ConnTypes
<1> QED BY <1>4, <1>5, <1>6, <1>8, <1>9, <1>10 DEF HubInv, TypesInv

\* A request reaches the server, or is lost.
LEMMA WrittenHub ==
    ASSUME HubInv, NEW c \in Conns, NEW req \in Asked, Written(c, req),
           UNCHANGED <<slateVars, hubVars, link, phase, job>>
    PROVE  HubInv'
<1>1. RoutingInv /\ SlateInv /\ TypesInv /\ Shape /\ JobsLive /\ ConnTypes
  BY DEF HubInv, RoutingInv, TypesInv
<1>2. UNCHANGED <<subs, subCount, live, held, denied>>
  BY DEF hubVars
<1>3. RoutingInv'
  <2>1. Shape' /\ JobsLive'
    BY <1>1, <1>2 DEF Shape, JobsLive
  <2> QED BY <1>1, <1>2, <2>1, RoutingKept
<1>4. up' \in [Conns -> Seq(Asked)]
  <2>1. up \in [Conns -> Seq(Asked)]
    BY <1>1 DEF ConnTypes
  <2>2. Append(up[c], req) \in Seq(Asked)
    BY <2>1
  <2> QED BY <2>1, <2>2 DEF Written
<1>5. TypesInv'
  BY <1>1, <1>2, <1>4, LinkStepTypes DEF ConnTypes
<1> QED BY <1>1, <1>3, <1>5, SlateKept DEF HubInv

-----------------------------------------------------------------------------
(* The invariant of types *)

EventKinds == {"hello", "ack", "snapshot", "delta", "removal", "resync", "error", "gap"}
Told == [kind : EventKinds, from : Nat, upTo : Nat, why : {"none"}]
Parted == [kind : {"disconnected"}, from : {0}, upTo : {0}, why : Failures \ {"own"}]

Wanted == {Ask(op, <<ch>>) : op \in {"subscribe", "unsubscribe"}, ch \in Restorable}
Calls == {NoCall} \cup [at : {"amended"}, req : Wanted, to : {None}]
                  \cup [at : {"sending"}, req : Wanted, to : Conns]
Stages == {"no", "marked", "cancelled", "waiting", "returned"}

CallTypes ==
    /\ events \in Seq(Told \cup Parted)
    /\ call \in [Callers -> Calls]
    /\ closer \in [at : Stages, holds : Conns \cup {None}]
    /\ at \notin {"ending", "over"} => attempt <= MaxAttempts

\* The last event told ends a connection, or there is none.
Apart == events = <<>> \/ events[Len(events)].kind = "disconnected"

\* An event that starts at n may come next.
Joins(n) == Apart \/ events[Len(events)].upTo + 1 = n

\* What run still owes while it serves: what serve made of a frame, or the end of it.
Serving ==
    \/ owed = <<>> /\ Joins(expect)
    \/ \E e \in Told :
        /\ owed = <<Emit(e)>> \/ owed = <<Write(ResyncAll), Emit(e)>>
        /\ e.upTo + 1 = expect /\ Joins(e.from)
    \/ \E g, e \in Told :
        /\ owed = <<Emit(g), Emit(e)>> \/ owed = <<Emit(g), Write(ResyncAll), Emit(e)>>
        /\ Joins(g.from) /\ g.upTo + 1 = e.from /\ e.upTo + 1 = expect

\* What run owes, where it is.
OwedInv ==
    /\ at \in {"dialing", "greeting", "ended", "refused", "over", "unborn"} => owed = <<>>
    /\ at = "applying" => \/ owed = <<>>
                          \/ \E q \in Seq(Channels) : owed = <<Write(Ask("subscribe", q))>>
    /\ at \in {"waiting", "ending"} => owed = <<>> \/ \E e \in Parted : owed = <<Emit(e)>>
    /\ at = "serving" => Serving
    /\ at \in {"dialing", "greeting", "applying"} => Apart
    /\ at = "waiting" => owed # <<>> \/ Apart
    /\ at \in {"applying", "serving"} => expect >= 1

AccountInv == OwedInv /\ NumbersAccounted

\* Where sockets are.
SocketInv ==
    /\ sock # None => sock = mine /\ at \in {"applying", "serving", "ended"}
    /\ mine # None => at \in {"greeting", "applying", "serving", "ended", "over"}
    /\ \A c \in Conns : c \in shut \/ c \in {mine, closer.holds} => phase[c] # "idle"
    /\ \A g \in Callers : call[g].to # None => phase[call[g].to] # "idle"
    /\ \A c \in Conns : phase[c] # "idle" => c \in shut \/ c = mine
    /\ mine \in shut => cancelled

\* What Close has done, and what run can therefore hold.
CloserInv ==
    /\ (closer.at = "no" /\ at # "over") => err = "none"
    /\ (closer.at = "no" /\ at \in {"applying", "serving"}) => sock = mine
    /\ closer.at # "no" => err # "none"
    /\ (closer.at # "no" /\ (at \in {"applying", "serving"} \/ (at = "over" /\ mine # None)))
        => closer.holds = mine
    /\ (at = "over" /\ mine # None) => closer.at # "no"
    /\ cancelled <=> closer.at \in {"cancelled", "waiting", "returned"}
    /\ (closer.at \in {"waiting", "returned"} /\ closer.holds # None) => closer.holds \in shut
    /\ closer.at = "returned" => at = "over"

\* run calls a failure its own only if the context was cancelled.
OwnInv ==
    /\ (at = "ended" /\ last = "own") => cancelled
    /\ at = "refused" => last \in {"closed", "lost"}

\* What a caller or run asks is a request.
LEMMA WantedAsked ==
    /\ Wanted \subseteq Asked /\ ResyncAll \in Asked
    /\ \A q \in Seq(Channels) : Ask("subscribe", q) \in Asked
<1>1. Wanted \subseteq Asked
  <2> SUFFICES ASSUME NEW r \in Wanted PROVE r \in Asked
    OBVIOUS
  <2>1. PICK op \in {"subscribe", "unsubscribe"}, ch \in Restorable : r = Ask(op, <<ch>>)
    BY DEF Wanted
  <2>2. <<ch>> \in Seq(Channels)
    BY RestorableAssumption
  <2> QED BY <2>1, <2>2 DEF Ask, Asked, RequestOps
<1>2. ResyncAll \in Asked
  <2>1. <<>> \in Seq(Channels)
    OBVIOUS
  <2> QED BY <2>1 DEF ResyncAll, Ask, Asked, RequestOps
<1> QED BY <1>1, <1>2 DEF Ask, Asked, RequestOps

\* Where run is when it owes something.
LEMMA OwedPlaces ==
    ASSUME OwedInv, owed # <<>>, at \in Places
    PROVE  /\ at \in {"applying", "waiting", "ending", "serving"}
           /\ Head(owed).do = "send" => /\ at \in {"applying", "serving"} /\ Head(owed).req \in Asked
                                        /\ Head(owed).req.op # "unsubscribe"
           /\ Head(owed).do = "emit" => at \in {"waiting", "ending", "serving"}
<1>1. at \in {"applying", "waiting", "ending", "serving"}
  BY DEF OwedInv, Places
<1>2. CASE at = "applying"
  <2>1. PICK q \in Seq(Channels) : owed = <<Write(Ask("subscribe", q))>>
    BY <1>2 DEF OwedInv
  <2>2. Head(owed) = Write(Ask("subscribe", q))
    BY <2>1
  <2> QED BY <1>2, <2>2, WantedAsked DEF Write, Ask
<1>3. CASE at \in {"waiting", "ending"}
  <2>1. PICK e \in Parted : owed = <<Emit(e)>>
    BY <1>3 DEF OwedInv
  <2>2. Head(owed) = Emit(e)
    BY <2>1
  <2> QED BY <1>3, <2>2 DEF Emit
<1>4. CASE at = "serving"
  <2>1. Serving
    BY <1>4 DEF OwedInv
  <2>2. Head(owed) = Write(ResyncAll) \/ \E e \in Told : Head(owed) = Emit(e)
    BY <2>1 DEF Serving
  <2> QED BY <1>4, <2>2, WantedAsked DEF Write, Emit, ResyncAll, Ask
<1> QED BY <1>1, <1>2, <1>3, <1>4

\* Every step of a stream is a step of the hub, or keeps what holds of it.
LEMMA StreamHub ==
    ASSUME HubInv, StreamTypeOK, CallTypes, OwedInv, [StreamNext]_streamGatewayVars
    PROVE  HubInv'
<1>1. CASE HubNext
  BY <1>1, HubStep DEF GatewayNext
<1>2. CASE UNCHANGED gatewayVars
  BY <1>2, HubStep
<1>3. ASSUME NEW c \in Conns, Dials(c) PROVE HubInv'
  <2>1. Upgrade(c)
    BY <1>3 DEF Dials, Upgrade
  <2> QED BY <2>1, HubStep DEF GatewayNext
<1>4. at \in {"greeting", "applying", "serving", "ended"} => mine \in Conns
  BY DEF StreamTypeOK
<1>5. CASE GreetingFails \/ GreetedTooLate \/ Ended
  <2>1. HangsUp(mine) /\ mine \in Conns
    BY <1>4, <1>5 DEF GreetingFails, GreetedTooLate, Ended, HangsUp
  <2> QED BY <2>1, HangsUpHub
<1>6. CASE Greeted \/ Reads
  <2>1. Receives(mine) /\ mine \in Conns
    BY <1>4, <1>6 DEF Greeted, Installs, Greeting, Reads, Receives
  <2> QED BY <2>1, HubStep DEF GatewayNext
<1>7. CASE Sends
  <2>1. at \in Places /\ owed # <<>> /\ Head(owed).do = "send"
    BY <1>7 DEF Sends, StreamTypeOK
  <2>2. at \in {"applying", "serving"} /\ Head(owed).req \in Asked /\ mine \in Conns
    BY <1>4, <2>1, OwedPlaces
  <2>3. CASE \E why \in {"closed", "lost"} : SendFails(why)
    BY <1>2, <2>2, <2>3, HangsUpHub DEF SendFails
  <2>4. CASE /\ Written(mine, Head(owed).req)
             /\ UNCHANGED <<slateVars, hubVars, link, phase, job>>
    BY <2>2, <2>4, WrittenHub
  <2> QED BY <1>7, <2>3, <2>4 DEF Sends
<1>8. ASSUME NEW g \in Callers, Writes(g) PROVE HubInv'
  <2>1. call[g].to \in Conns /\ call[g].req \in Asked
    <3>1. call[g] \in Calls
      BY DEF CallTypes
    <3> QED BY <1>8, <3>1, WantedAsked DEF Writes, Calls, NoCall
  <2>2. Written(call[g].to, call[g].req) /\ UNCHANGED <<slateVars, hubVars, link, phase, job>>
    BY <1>8 DEF Writes
  <2> QED BY <2>1, <2>2, WrittenHub
<1>9. CASE UNCHANGED <<slateVars, hubVars, connVars>>
  BY <1>9, HubRests
<1>10. ASSUME NEW g, NEW op, NEW ch, Amends(g, op, ch) PROVE HubInv'
  BY <1>9, <1>10 DEF Amends
<1>11. CASE \/ DialFails \/ Adopts \/ Retries \/ GivesUp \/ ReceiveFails \/ Emits \/ EmitFails
            \/ Refused \/ (\E g \in Callers : PicksSocket(g) \/ WriteFails(g)) \/ Takes \/ Closing
  BY <1>2, <1>11 DEF DialFails, Adopts, ServesFrom, Retries, GivesUp, ReceiveFails, Emits, EmitFails,
                     Refused, PicksSocket, WriteFails, Takes, Closing, Marks, Cancels, Hangs, Returns
<1> QED BY <1>1, <1>2, <1>3, <1>5, <1>6, <1>7, <1>8, <1>10, <1>11
        DEF StreamNext, Running, streamGatewayVars

-----------------------------------------------------------------------------
(* Types *)

\* The first frame on a wire.
LEMMA WireHead ==
    ASSUME HubInv, NEW c \in Conns, link[c].wire # <<>>
    PROVE  /\ Head(link[c].wire).seq \in Nat
           /\ Head(link[c].wire).body.kind \in EventKinds
<1>1. link[c].wire \in Seq(Frames)
  BY DEF HubInv, TypesInv, ConnTypes, Links, LinksOf, Frames
<1>2. Head(link[c].wire) \in Frames
  BY <1>1
<1>3. Head(link[c].wire).seq \in Nat /\ Head(link[c].wire).body \in Bodies
  BY <1>2 DEF Frames, FramesOf
<1> QED BY <1>3 DEF Bodies, EventKinds

\* The next event is of a type, and the last one if there is no room.
LEMMA OwedEvents ==
    ASSUME OwedInv, owed # <<>>, at \in Places, Head(owed).do = "emit"
    PROVE  Head(owed).ev \in Told \cup Parted
<1>1. at \in {"waiting", "ending", "serving"}
  BY OwedPlaces
<1>2. CASE at \in {"waiting", "ending"}
  <2>1. PICK e \in Parted : owed = <<Emit(e)>>
    BY <1>2 DEF OwedInv
  <2>2. Head(owed) = Emit(e)
    BY <2>1
  <2> QED BY <2>2 DEF Emit
<1>3. CASE at = "serving"
  <2>1. Serving
    BY <1>3 DEF OwedInv
  <2>2. Head(owed) = Write(ResyncAll) \/ \E e \in Told : Head(owed) = Emit(e)
    BY <2>1 DEF Serving
  <2>3. Write(ResyncAll).do = "send"
    BY DEF Write
  <2>4. PICK e \in Told : Head(owed) = Emit(e)
    BY <2>2, <2>3
  <2> QED BY <2>4 DEF Emit
<1> QED BY <1>1, <1>2, <1>3

LEMMA StreamTypes ==
    ASSUME HubInv, StreamTypeOK, CallTypes, OwedInv, OwnInv, [StreamNext]_streamGatewayVars
    PROVE  StreamTypeOK' /\ CallTypes'
<1>1. /\ at \in Places /\ {mine, sock} \subseteq Conns \cup {None}
      /\ at \in {"greeting", "applying", "serving", "ended"} => mine \in Conns
      /\ {last, err} \subseteq Failures /\ expect \in Nat
      /\ {pending, born, cancelled} \subseteq BOOLEAN
      /\ attempt \in 0..MaxAttempts + 1 /\ MaxAttempts \in Nat /\ MaxAttempts >= 1
      /\ desired \in SUBSET Restorable /\ shut \in SUBSET Conns
      /\ Len(events) <= Buffer /\ Buffer \in Nat
      /\ events \in Seq(Told \cup Parted)
      /\ call \in [Callers -> Calls]
      /\ closer \in [at : Stages, holds : Conns \cup {None}]
      /\ at \notin {"ending", "over"} => attempt <= MaxAttempts
      /\ None \notin Conns
  BY StreamAssumption DEF StreamTypeOK, CallTypes
<1>2. CASE UNCHANGED streamVars
  BY <1>1, <1>2 DEF streamVars, runVars, sharedVars, StreamTypeOK, CallTypes
<1>3. ASSUME NEW c \in Conns, Dials(c) PROVE StreamTypeOK' /\ CallTypes'
  BY <1>1, <1>3 DEF Dials, sharedVars, StreamTypeOK, CallTypes, Places
<1>4. ASSUME NEW why \in {"dial", "greeting", "closed"}, ConnectFails(why), at \in {"dialing", "greeting"},
             shut' \in SUBSET Conns,
             UNCHANGED <<expect, pending, born, desired, cancelled, events, call, closer>>
      PROVE  StreamTypeOK' /\ CallTypes'
  <2>1. /\ at' \in {"unborn", "over", "waiting", "ending"} /\ mine' = None
        /\ last' \in Failures /\ err' \in Failures /\ sock' \in {sock, None}
        /\ attempt' \in {attempt, attempt + 1}
        /\ at' # "over" => (attempt' = attempt \/ attempt' <= MaxAttempts \/ at' = "ending")
    BY <1>1, <1>4 DEF ConnectFails, Finish, Again, Recorded, Failures
  <2> QED BY <1>1, <1>4, <2>1 DEF StreamTypeOK, CallTypes, Places
<1>5. CASE DialFails
  BY <1>1, <1>4, <1>5 DEF DialFails
<1>6. CASE GreetingFails \/ GreetedTooLate
  BY <1>1, <1>4, <1>6 DEF GreetingFails, GreetedTooLate, HangsUp
<1>7. CASE Greeted
  <2>1. at = "greeting" /\ Greeting /\ mine \in Conns
    BY <1>1, <1>7 DEF Greeted, Installs
  <2>2. expect' \in Nat
    BY <1>7, <2>1, WireHead DEF Greeted, Installs, Greeting
  <2>3. at' = "applying" /\ pending' = FALSE /\ sock' = mine
    BY <1>7 DEF Greeted, Installs
  <2>4. UNCHANGED <<mine, last, attempt, born, desired, err, cancelled, shut, events, call, closer>>
    BY <1>7 DEF Greeted, Installs
  <2> QED BY <1>1, <2>1, <2>2, <2>3, <2>4 DEF StreamTypeOK, CallTypes, Places
<1>8. CASE Adopts
  BY <1>1, <1>8 DEF Adopts, ServesFrom, StreamTypeOK, CallTypes, Places
<1>9. CASE Retries \/ GivesUp
  BY <1>1, <1>9 DEF Retries, GivesUp, Finish, Recorded, Failures, StreamTypeOK, CallTypes, Places
<1>10. CASE Reads
  <2>1. at = "serving" /\ mine \in Conns /\ link[mine].wire # <<>>
    BY <1>1, <1>10 DEF Reads
  <2> DEFINE f == Head(link[mine].wire)
  <2>2. f.seq \in Nat
    BY <2>1, WireHead
  <2>3. /\ at' \in {"serving", "ended"} /\ last' \in {last, "protocol"}
        /\ expect' \in {expect, f.seq + 1}
        /\ pending' \in BOOLEAN
    <3> HIDE DEF f
    <3>1. pending' = pending
            \/ pending' = (f.body.kind # "snapshot"
                                /\ (pending \/ f.body.kind = "resync"
                                      \/ (expect # 0 /\ f.seq > expect)))
      BY <1>10 DEF Reads, f
    <3>2. at' \in {"serving", "ended"} /\ last' \in {last, "protocol"} /\ expect' \in {expect, f.seq + 1}
      BY <1>10, <2>1 DEF Reads, f
    <3> QED BY <1>1, <3>1, <3>2
  <2>4. UNCHANGED <<mine, attempt, born, sock, desired, err, cancelled, shut, events, call, closer>>
    BY <1>10 DEF Reads, sharedVars
  <2> HIDE DEF f
  <2> QED BY <1>1, <2>1, <2>2, <2>3, <2>4 DEF StreamTypeOK, CallTypes, Places, Failures
<1>11. CASE ReceiveFails
  BY <1>1, <1>11 DEF ReceiveFails, sharedVars, StreamTypeOK, CallTypes, Places, Failures
<1>12. CASE Ended
  BY <1>1, <1>12 DEF Ended, HangsUp, Finish, Again, Recorded, StreamTypeOK, CallTypes, Places, Failures
<1>13. CASE Emits
  <2>1. Head(owed).ev \in Told \cup Parted
    BY <1>1, <1>13, OwedEvents DEF Emits
  <2>2. events' \in Seq(Told \cup Parted) /\ Len(events') = Len(events) + 1 /\ Len(events) < Buffer
    BY <1>1, <1>13, <2>1 DEF Emits
  <2> QED BY <1>1, <1>13, <2>2 DEF Emits, StreamTypeOK, CallTypes
<1>14. CASE EmitFails
  BY <1>1, <1>14 DEF EmitFails, Finish, Recorded, StreamTypeOK, CallTypes, Places, Failures
<1>15. CASE Sends
  BY <1>1, <1>15 DEF Sends, SendFails, HangsUp, gatewayVars, StreamTypeOK, CallTypes, Places, Failures
<1>16. CASE Refused
  BY <1>1, <1>16 DEF Refused, Finish, Again, Recorded, StreamTypeOK, CallTypes, Places, Failures
<1>17. ASSUME NEW g \in Callers, NEW op \in {"subscribe", "unsubscribe"}, NEW ch \in Restorable,
              Amends(g, op, ch)
       PROVE  StreamTypeOK' /\ CallTypes'
  <2>1. Ask(op, <<ch>>) \in Wanted
    BY DEF Wanted
  <2>2. [at |-> "amended", req |-> Ask(op, <<ch>>), to |-> None] \in Calls
    BY <2>1 DEF Calls
  <2>3. call' \in [Callers -> Calls]
    BY <1>1, <1>17, <2>2 DEF Amends
  <2> QED BY <1>1, <1>17, <2>3 DEF Amends, runVars, StreamTypeOK, CallTypes
<1>18. ASSUME NEW g \in Callers, PicksSocket(g) PROVE StreamTypeOK' /\ CallTypes'
  <2>1. call[g].at = "amended" /\ call[g].req \in Wanted
    <3>1. call[g] \in Calls
      BY <1>1
    <3> QED BY <1>18, <3>1 DEF PicksSocket, Calls, NoCall
  <2>2. call' \in [Callers -> Calls]
    BY <1>1, <1>18, <2>1 DEF PicksSocket, Calls
  <2> QED BY <1>1, <1>18, <2>2 DEF PicksSocket, runVars, sharedVars, StreamTypeOK, CallTypes
<1>19. ASSUME NEW g \in Callers, Writes(g) \/ WriteFails(g) PROVE StreamTypeOK' /\ CallTypes'
  <2>1. call' \in [Callers -> Calls]
    BY <1>1, <1>19 DEF Writes, WriteFails, Calls
  <2> QED BY <1>1, <1>19, <2>1 DEF Writes, WriteFails, runVars, sharedVars, StreamTypeOK, CallTypes
<1>20. CASE Takes
  <2>1. events' \in Seq(Told \cup Parted) /\ Len(events') = Len(events) - 1 /\ Len(events) \in Nat
    BY <1>1, <1>20 DEF Takes
  <2> QED BY <1>1, <1>20, <2>1 DEF Takes, runVars, StreamTypeOK, CallTypes
<1>21. CASE Marks
  BY <1>1, <1>21 DEF Marks, Recorded, runVars, StreamTypeOK, CallTypes, Stages, Failures
<1>22. CASE Cancels \/ Hangs \/ Returns
  <2>1. closer' \in [at : Stages, holds : Conns \cup {None}]
    BY <1>1, <1>22 DEF Cancels, Hangs, Returns, Stages
  <2>2. shut' \in SUBSET Conns
    BY <1>1, <1>22 DEF Cancels, Hangs, Returns, sharedVars
  <2> QED BY <1>1, <1>22, <2>1, <2>2 DEF Cancels, Hangs, Returns, runVars, sharedVars, StreamTypeOK, CallTypes
<1> QED BY <1>2, <1>3, <1>5, <1>6, <1>7, <1>8, <1>9, <1>10, <1>11, <1>12, <1>13, <1>14, <1>15, <1>16,
           <1>17, <1>18, <1>19, <1>20, <1>21, <1>22
        DEF StreamNext, Running, Closing, streamGatewayVars

-----------------------------------------------------------------------------
(* Sockets *)

LEMMA SocketStep ==
    ASSUME ConnTypes, StreamTypeOK, CallTypes, OwedInv, SocketInv, CloserInv, OwnInv,
           [StreamNext]_streamGatewayVars
    PROVE  SocketInv' /\ OwnInv'
<1>1. /\ at \in Places /\ {mine, sock} \subseteq Conns \cup {None}
      /\ at \in {"greeting", "applying", "serving", "ended"} => mine \in Conns
      /\ shut \in SUBSET Conns
      /\ call \in [Callers -> Calls]
      /\ closer \in [at : Stages, holds : Conns \cup {None}]
      /\ None \notin Conns
      /\ phase \in [Conns -> Phases]
  BY StreamAssumption DEF StreamTypeOK, CallTypes, ConnTypes
<1>2. CASE UNCHANGED streamVars /\ (HubNext \/ UNCHANGED gatewayVars)
  <2>1. \A c \in Conns : phase'[c] = "idle" <=> phase[c] = "idle"
    BY <1>2, HubPhases DEF gatewayVars, connVars
  <2>2. UNCHANGED <<sock, mine, at, closer, shut, call, cancelled, last>>
    BY <1>2 DEF streamVars, runVars, sharedVars
  <2>3. \A g \in Callers : call[g].to # None => call[g].to \in Conns
    BY <1>1 DEF Calls, NoCall
  <2>4. \A g \in Callers : call'[g].to # None => phase'[call'[g].to] # "idle"
    BY <2>1, <2>2, <2>3 DEF SocketInv
  <2> QED BY <1>1, <2>1, <2>2, <2>4 DEF SocketInv, OwnInv
<1>3. ASSUME NEW c \in Conns, Dials(c) PROVE SocketInv' /\ OwnInv'
  <2>1. mine = None /\ sock = None
    BY <1>1, <1>3 DEF Dials, SocketInv
  <2> QED BY <1>1, <1>3, <2>1 DEF Dials, sharedVars, SocketInv, OwnInv
<1>4. ASSUME mine \in Conns, HangsUp(mine), mine' = None, sock' = None \/ (sock = None /\ sock' = sock),
             UNCHANGED <<call, closer, cancelled>>
      PROVE  SocketInv'
  BY <1>1, <1>4 DEF HangsUp, SocketInv
<1>5. CASE DialFails
  <2>1. mine = None /\ sock = None
    BY <1>1, <1>5 DEF DialFails, SocketInv
  <2> QED BY <1>1, <1>5, <2>1 DEF DialFails, ConnectFails, Again, Finish, gatewayVars, connVars, SocketInv, OwnInv
<1>6. CASE GreetingFails \/ GreetedTooLate
  <2>1. sock = None /\ sock' = None /\ HangsUp(mine) /\ mine' = None /\ mine \in Conns
    BY <1>1, <1>6 DEF GreetingFails, GreetedTooLate, ConnectFails, Finish, SocketInv
  <2>2. OwnInv'
    BY <1>1, <1>6 DEF GreetingFails, GreetedTooLate, ConnectFails, Again, Finish, OwnInv
  <2> QED BY <1>4, <1>6, <2>1, <2>2 DEF GreetingFails, GreetedTooLate
<1>7. CASE Greeted
  BY <1>1, <1>7 DEF Greeted, Installs, SocketInv, OwnInv
<1>8. CASE Adopts
  BY <1>1, <1>8 DEF Adopts, ServesFrom, gatewayVars, connVars, SocketInv, OwnInv
<1>9. CASE Retries \/ GivesUp
  BY <1>1, <1>9 DEF Retries, GivesUp, Finish, gatewayVars, connVars, SocketInv, OwnInv
<1>10. CASE Reads
  BY <1>1, <1>10 DEF Reads, sharedVars, SocketInv, OwnInv
<1>11. CASE ReceiveFails
  BY <1>1, <1>11 DEF ReceiveFails, gatewayVars, connVars, sharedVars, SocketInv, OwnInv
<1>12. CASE Ended
  <2>1. sock' = None /\ HangsUp(mine) /\ mine' = None /\ mine \in Conns
    BY <1>1, <1>12 DEF Ended, Finish
  <2>2. OwnInv'
    BY <1>1, <1>12 DEF Ended, Again, Finish, OwnInv
  <2> QED BY <1>4, <1>12, <2>1, <2>2 DEF Ended
<1>13. CASE Emits
  BY <1>1, <1>13 DEF Emits, gatewayVars, connVars, SocketInv, OwnInv
<1>14. CASE EmitFails
  <2>1. at \in {"waiting", "ending", "serving"}
    BY <1>1, <1>14, OwedPlaces DEF EmitFails
  <2> QED BY <1>1, <1>14, <2>1 DEF EmitFails, Finish, gatewayVars, connVars, SocketInv, OwnInv
<1>15. CASE Sends
  <2>1. at \in {"applying", "serving"}
    BY <1>1, <1>15, OwedPlaces DEF Sends
  <2>2. CASE at = "applying" /\ \E why \in {"closed", "lost"} : SendFails(why)
    <3>1. sock' = None /\ HangsUp(mine) /\ mine' = None /\ mine \in Conns
      BY <1>1, <2>2 DEF SendFails
    <3>2. OwnInv'
      BY <1>1, <2>2 DEF SendFails, OwnInv
    <3> QED BY <1>4, <1>15, <3>1, <3>2 DEF Sends
  <2>3. CASE at = "serving" /\ \E why \in {"closed", "lost"} : SendFails(why)
    BY <1>1, <1>15, <2>3 DEF Sends, SendFails, gatewayVars, connVars, SocketInv, OwnInv
  <2>4. CASE UNCHANGED <<phase, at, mine, last, shut, sock>>
    BY <1>1, <1>15, <2>4 DEF Sends, SocketInv, OwnInv
  <2> QED BY <1>15, <2>1, <2>2, <2>3, <2>4 DEF Sends
<1>16. CASE Refused
  BY <1>1, <1>16 DEF Refused, Finish, Again, gatewayVars, connVars, SocketInv, OwnInv
<1>17. ASSUME NEW g \in Callers,
              \/ \E op \in {"subscribe", "unsubscribe"}, ch \in Restorable : Amends(g, op, ch)
              \/ PicksSocket(g) \/ Writes(g) \/ WriteFails(g)
       PROVE  SocketInv' /\ OwnInv'
  <2>1. /\ call'[g].to \in {None, sock} /\ \A h \in Callers \ {g} : call'[h] = call[h]
        /\ UNCHANGED <<at, mine, sock, shut, closer, cancelled, last, phase>>
    <3>1. CASE \E op \in {"subscribe", "unsubscribe"}, ch \in Restorable : Amends(g, op, ch)
      BY <1>1, <3>1 DEF Amends, runVars, connVars
    <3>2. CASE PicksSocket(g)
      BY <1>1, <3>2 DEF PicksSocket, NoCall, runVars, sharedVars, gatewayVars, connVars
    <3>3. CASE Writes(g) \/ WriteFails(g)
      BY <1>1, <3>3 DEF Writes, WriteFails, NoCall, runVars, sharedVars, gatewayVars, connVars
    <3> QED BY <1>17, <3>1, <3>2, <3>3
  <2>2. sock # None => sock \in Conns /\ phase[sock] # "idle"
    BY <1>1 DEF SocketInv
  <2>3. \A h \in Callers : call'[h].to # None => phase[call'[h].to] # "idle"
    BY <2>1, <2>2 DEF SocketInv
  <2> QED BY <1>1, <2>1, <2>3 DEF SocketInv, OwnInv
<1>20. CASE Takes
  BY <1>1, <1>20 DEF Takes, runVars, gatewayVars, connVars, SocketInv, OwnInv
<1>21. CASE Marks
  BY <1>1, <1>21 DEF Marks, runVars, gatewayVars, connVars, SocketInv, OwnInv
<1>22. CASE Cancels \/ Returns
  <2>1. closer'.holds = closer.holds /\ (cancelled => cancelled')
    BY <1>1, <1>22 DEF Cancels, Returns, sharedVars
  <2> QED BY <1>1, <1>22, <2>1 DEF Cancels, Returns, runVars, sharedVars, gatewayVars, connVars, SocketInv, OwnInv
<1>23. CASE Hangs
  <2>1. /\ closer'.holds = closer.holds /\ cancelled'
        /\ shut' = shut \cup (IF closer.holds = None THEN {} ELSE {closer.holds})
    BY <1>1, <1>23 DEF Hangs
  <2> QED BY <1>1, <1>23, <2>1 DEF Hangs, runVars, gatewayVars, connVars, SocketInv, OwnInv
<1> QED BY <1>2, <1>3, <1>5, <1>6, <1>7, <1>8, <1>9, <1>10, <1>11, <1>12, <1>13, <1>14, <1>15, <1>16,
           <1>17, <1>20, <1>21, <1>22, <1>23
        DEF StreamNext, Running, Closing, streamGatewayVars

LEMMA CloserStep ==
    ASSUME StreamTypeOK, CallTypes, OwedInv, SocketInv, CloserInv, [StreamNext]_streamGatewayVars
    PROVE  CloserInv'
<1>1. /\ at \in Places /\ {mine, sock} \subseteq Conns \cup {None}
      /\ at \in {"greeting", "applying", "serving", "ended"} => mine \in Conns
      /\ shut \in SUBSET Conns
      /\ closer \in [at : Stages, holds : Conns \cup {None}]
      /\ None \notin Conns
      /\ err \in Failures /\ cancelled \in BOOLEAN
  BY StreamAssumption DEF StreamTypeOK, CallTypes
<1>2. CASE UNCHANGED streamVars
  BY <1>2 DEF streamVars, runVars, sharedVars, CloserInv
<1>3. ASSUME NEW c \in Conns, Dials(c) PROVE CloserInv'
  BY <1>1, <1>3 DEF Dials, sharedVars, CloserInv
<1>4. CASE DialFails \/ GreetingFails \/ GreetedTooLate
  <2>1. /\ closer' = closer /\ cancelled' = cancelled /\ mine' = None
        /\ shut \subseteq shut'
        /\ at' \in {"unborn", "over", "waiting", "ending"} /\ at \in {"dialing", "greeting"}
        /\ err' = err \/ at' = "over"
        /\ err # "none" => err' = err
    BY <1>4 DEF DialFails, GreetingFails, GreetedTooLate, HangsUp, ConnectFails, Finish, Again, Recorded
  <2> QED BY <1>1, <2>1 DEF CloserInv
<1>5. CASE Greeted
  BY <1>1, <1>5 DEF Greeted, Installs, CloserInv
<1>6. CASE Adopts
  BY <1>1, <1>6 DEF Adopts, ServesFrom, CloserInv
<1>7. CASE Retries \/ GivesUp
  <2>1. mine = None
    BY <1>7 DEF Retries, GivesUp, SocketInv
  <2>2. /\ UNCHANGED <<closer, cancelled, mine, shut>>
        /\ at \in {"waiting", "ending"} /\ at' \in {"over", "dialing"}
        /\ err' = err \/ at' = "over"
        /\ err # "none" => err' = err
    BY <1>1, <1>7 DEF Retries, GivesUp, Finish, Recorded
  <2> QED BY <1>1, <2>1, <2>2 DEF CloserInv
<1>8. CASE Reads \/ ReceiveFails
  BY <1>1, <1>8 DEF Reads, ReceiveFails, sharedVars, CloserInv
<1>9. CASE Ended
  <2>1. /\ closer' = closer /\ cancelled' = cancelled /\ mine' = None
        /\ shut \subseteq shut'
        /\ at' \in {"over", "waiting", "ending"} /\ at = "ended"
        /\ err' = err \/ at' = "over"
        /\ err # "none" => err' = err
    BY <1>9 DEF Ended, HangsUp, Finish, Again, Recorded
  <2> QED BY <1>1, <2>1 DEF CloserInv
<1>10. CASE Emits
  BY <1>1, <1>10 DEF Emits, CloserInv
<1>11. CASE EmitFails
  <2>1. at \in {"waiting", "ending", "serving"}
    BY <1>1, <1>11, OwedPlaces DEF EmitFails
  <2>2. at # "serving" => mine = None
    BY <2>1 DEF SocketInv
  <2>3. /\ UNCHANGED <<closer, cancelled, mine, shut>> /\ cancelled
        /\ at' \in {"over", "ended", "ending"} /\ (at' = "ending" => at = "ending")
        /\ err' = err \/ at' = "over"
        /\ err # "none" => err' = err
    BY <1>11 DEF EmitFails, Finish, Recorded
  <2> QED BY <1>1, <2>1, <2>2, <2>3 DEF CloserInv
<1>12. CASE Sends
  BY <1>1, <1>12 DEF Sends, SendFails, HangsUp, CloserInv
<1>13. CASE Refused
  <2>1. mine = None
    BY <1>13 DEF Refused, SocketInv
  <2>2. /\ UNCHANGED <<closer, cancelled, mine, shut>>
        /\ at = "refused" /\ at' \in {"over", "waiting", "ending"}
        /\ err' = err \/ at' = "over"
        /\ err # "none" => err' = err
    BY <1>13 DEF Refused, Finish, Again, Recorded
  <2> QED BY <1>1, <2>1, <2>2 DEF CloserInv, Recorded
<1>14. ASSUME NEW g, NEW op, NEW ch, Amends(g, op, ch) PROVE CloserInv'
  BY <1>14 DEF Amends, runVars, CloserInv
<1>15. CASE (\E g \in Callers : PicksSocket(g) \/ Writes(g) \/ WriteFails(g)) \/ Takes
  BY <1>15 DEF PicksSocket, Writes, WriteFails, Takes, runVars, sharedVars, CloserInv
<1>16. CASE Marks
  <2>1. closer'.at = "marked" /\ closer'.holds = sock /\ closer.at = "no"
    BY <1>16 DEF Marks
  <2>2. /\ UNCHANGED <<at, mine, cancelled, shut>> /\ err' = Recorded("closed") /\ sock' = None
    BY <1>16 DEF Marks, runVars
  <2> QED BY <1>1, <2>1, <2>2 DEF CloserInv, Recorded
<1>17. CASE Cancels
  BY <1>1, <1>17 DEF Cancels, runVars, CloserInv
<1>18. CASE Hangs
  BY <1>1, <1>18 DEF Hangs, runVars, CloserInv
<1>19. CASE Returns
  BY <1>1, <1>19 DEF Returns, runVars, sharedVars, CloserInv
<1> QED BY <1>2, <1>3, <1>4, <1>5, <1>6, <1>7, <1>8, <1>9, <1>10, <1>11, <1>12, <1>13, <1>14, <1>15, <1>16,
           <1>17, <1>18, <1>19
        DEF StreamNext, Running, Closing, streamGatewayVars

-----------------------------------------------------------------------------
(* Accounting *)

\* One more event.
LEMMA OneMore ==
    ASSUME events \in Seq(Told \cup Parted), NumbersAccounted, NEW e \in Told \cup Parted,
           e \in Parted \/ Joins(e.from), events' = Append(events, e)
    PROVE  /\ NumbersAccounted'
           /\ e \in Parted => Apart'
           /\ \A n : (e.upTo + 1 = n) => Joins(n)'
<1> DEFINE N == Len(events)
<1>1. /\ N \in Nat /\ Len(events') = N + 1
      /\ events'[N + 1] = e /\ \A i \in 1 .. N : events'[i] = events[i]
      /\ events' # <<>>
  OBVIOUS
<1>2. e \in Parted => e.kind = "disconnected"
  BY DEF Parted
<1>3. NumbersAccounted'
  <2> SUFFICES ASSUME NEW i \in 1 .. Len(events') - 1,
                      events'[i].kind # "disconnected", events'[i + 1].kind # "disconnected"
               PROVE  events'[i + 1].from = events'[i].upTo + 1
    BY DEF NumbersAccounted
  <2>1. CASE i = N
    <3>1. events # <<>> /\ events'[i] = events[Len(events)] /\ events'[i + 1] = e
      BY <1>1, <2>1
    <3>2. ~Apart /\ e \notin Parted
      BY <1>2, <3>1 DEF Apart
    <3> QED BY <3>1, <3>2 DEF Joins
  <2>2. CASE i # N
    <3>1. i \in 1 .. Len(events) - 1 /\ i \in 1 .. N /\ i + 1 \in 1 .. N
      BY <1>1, <2>2
    <3>2. events'[i] = events[i] /\ events'[i + 1] = events[i + 1]
      BY <1>1, <3>1
    <3> QED BY <3>1, <3>2 DEF NumbersAccounted
  <2> QED BY <2>1, <2>2
<1>4. events'[Len(events')] = e
  BY <1>1
<1> QED BY <1>2, <1>3, <1>4 DEF Apart, Joins

\* One fewer: the caller took the first.
LEMMA OneTaken ==
    ASSUME events \in Seq(Told \cup Parted), NumbersAccounted, events # <<>>, events' = Tail(events)
    PROVE  /\ NumbersAccounted' /\ (Apart => Apart')
           /\ \A n : Joins(n) => Joins(n)'
<1> DEFINE N == Len(events)
<1>1. /\ N \in Nat /\ N >= 1 /\ Len(events') = N - 1 /\ \A i \in 1 .. N - 1 : events'[i] = events[i + 1]
  OBVIOUS
<1>2. NumbersAccounted'
  <2> SUFFICES ASSUME NEW i \in 1 .. Len(events') - 1,
                      events'[i].kind # "disconnected", events'[i + 1].kind # "disconnected"
               PROVE  events'[i + 1].from = events'[i].upTo + 1
    BY DEF NumbersAccounted
  <2>1. /\ i \in 1 .. N - 1 /\ i + 1 \in 1 .. N - 1 /\ i + 1 \in 1 .. Len(events) - 1
        /\ (i + 1) + 1 = i + 2
    BY <1>1
  <2>2. events'[i] = events[i + 1] /\ events'[i + 1] = events[(i + 1) + 1]
    BY <1>1, <2>1
  <2> QED BY <2>1, <2>2 DEF NumbersAccounted
<1>3. events' = <<>> \/ events'[Len(events')] = events[Len(events)]
  <2>1. CASE N = 1
    <3>1. Len(events') = 0 /\ events' \in Seq(Told \cup Parted)
      BY <1>1, <2>1
    <3> QED BY <3>1
  <2>2. CASE N # 1
    <3>1. N - 1 \in 1 .. N - 1 /\ (N - 1) + 1 = N
      BY <1>1, <2>2
    <3> QED BY <1>1, <3>1
  <2> QED BY <2>1, <2>2
<1> QED BY <1>2, <1>3 DEF Apart, Joins

\* The sequences that Consequences puts together.
LEMMA PutTogether ==
    ASSUME NEW a, NEW b, NEW w
    PROVE  /\ ((<<a>> \o <<w>>) \o <<>>) \o <<b>> = <<a, w, b>>
           /\ ((<<a>> \o <<>>) \o <<>>) \o <<b>> = <<a, b>>
           /\ (<<>> \o <<w>>) \o <<b>> = <<w, b>>
           /\ (<<>> \o <<>>) \o <<b>> = <<b>>
<1> DEFINE S == {a, b, w}
<1>1. \A s \in Seq(S) : s \o <<>> = s /\ <<>> \o s = s
  OBVIOUS
<1>2. /\ <<a>> \in Seq(S) /\ <<b>> \in Seq(S) /\ <<w>> \in Seq(S) /\ <<a, b>> \in Seq(S)
      /\ <<w, b>> \in Seq(S) /\ <<a, w>> \in Seq(S) /\ <<a, w, b>> \in Seq(S)
  OBVIOUS
<1>3. ASSUME NEW x \in S, NEW y \in S PROVE <<x>> \o <<y>> = <<x, y>>
  <2> DEFINE s == <<x>> \o <<y>>
             t == <<x, y>>
  <2>1. /\ s \in Seq(S) /\ Len(s) = 2 /\ s[1] = x /\ s[2] = y
        /\ t \in Seq(S) /\ Len(t) = 2 /\ t[1] = x /\ t[2] = y
    OBVIOUS
  <2> HIDE DEF s, t, S
  <2>2. \A i \in 1 .. 2 : s[i] = t[i]
    BY <2>1
  <2>3. s = t
    BY <2>1, <2>2, SameSeq
  <2> QED BY <2>3 DEF s, t
<1>4. <<a, w>> \o <<b>> = <<a, w, b>>
  <2> DEFINE s == <<a, w>> \o <<b>>
             t == <<a, w, b>>
  <2>1. /\ s \in Seq(S) /\ Len(s) = 3 /\ s[1] = a /\ s[2] = w /\ s[3] = b
        /\ t \in Seq(S) /\ Len(t) = 3 /\ t[1] = a /\ t[2] = w /\ t[3] = b
    OBVIOUS
  <2> HIDE DEF s, t, S
  <2>2. \A i \in 1 .. 3 : s[i] = t[i]
    BY <2>1
  <2>3. s = t
    BY <2>1, <2>2, SameSeq
  <2> QED BY <2>3 DEF s, t
<1> HIDE DEF S
<1>5. a \in S /\ b \in S /\ w \in S /\ <<>> \in Seq(S)
  BY DEF S
<1>6. /\ <<a>> \o <<w>> = <<a, w>> /\ <<a, w>> \o <<>> = <<a, w>>
      /\ <<a>> \o <<>> = <<a>> /\ <<a>> \o <<b>> = <<a, b>>
      /\ <<>> \o <<w>> = <<w>> /\ <<w>> \o <<b>> = <<w, b>>
      /\ <<>> \o <<>> = <<>> /\ <<>> \o <<b>> = <<b>>
  BY <1>1, <1>2, <1>3, <1>5
<1> QED BY <1>4, <1>6

\* What serve makes of a frame.
LEMMA FrameOwes ==
    ASSUME HubInv, StreamTypeOK, OwedInv, Reads, at' = "serving"
    PROVE  Serving' /\ expect' >= 1
<1> DEFINE f == Head(link[mine].wire)
<1>1. at = "serving" /\ owed = <<>> /\ mine \in Conns /\ link[mine].wire # <<>>
  BY StreamAssumption DEF Reads, StreamTypeOK
<1>2. f.seq \in Nat /\ f.body.kind \in EventKinds /\ expect \in Nat /\ expect >= 1
  BY <1>1, WireHead DEF StreamTypeOK, OwedInv
<1>3. Joins(expect)
  BY <1>1 DEF OwedInv, Serving
<1>4. f.seq >= expect /\ owed' = Consequences(f) /\ expect' = f.seq + 1 /\ UNCHANGED events
  BY <1>1, <1>2 DEF Reads, sharedVars
<1> HIDE DEF f
<1>5. PICK n, e, g : n = f.seq /\ e = FrameEvent(f) /\ g = GapEvent(expect, n - 1)
  BY <1>2
<1>6. e \in Told /\ e.from = n /\ e.upTo = n
  BY <1>2, <1>5 DEF FrameEvent, Told
<1>7. \A m : Joins(m) => Joins(m)'
  BY <1>4 DEF Joins, Apart
<1>8. CASE n > expect
  <2>1. g \in Told /\ g.from = expect /\ g.upTo = n - 1
    BY <1>2, <1>8, <1>5 DEF GapEvent, Told, EventKinds
  <2>2. owed' = <<Emit(g), Emit(e)>> \/ owed' = <<Emit(g), Write(ResyncAll), Emit(e)>>
    <3>1. owed' = ((<<Emit(g)>> \o (IF pending THEN <<>> ELSE <<Write(ResyncAll)>>)) \o <<>>) \o <<Emit(e)>>
      BY <1>2, <1>4, <1>8, <1>5 DEF Consequences
    <3> QED BY <3>1, PutTogether
  <2>3. /\ g.upTo + 1 = e.from /\ e.upTo + 1 = expect' /\ Joins(g.from)'
    BY <1>2, <1>3, <1>4, <1>6, <1>7, <1>5, <2>1
  <2> QED BY <1>2, <1>4, <1>6, <2>1, <2>2, <2>3 DEF Serving
<1>9. CASE ~(n > expect)
  <2>1. owed' = <<Emit(e)>> \/ owed' = <<Write(ResyncAll), Emit(e)>>
    <3>1. \/ owed' = (<<>> \o <<Write(ResyncAll)>>) \o <<Emit(e)>>
          \/ owed' = (<<>> \o <<>>) \o <<Emit(e)>>
      BY <1>2, <1>4, <1>9, <1>5 DEF Consequences
    <3> QED BY <3>1, PutTogether
  <2>2. n = expect
    BY <1>2, <1>4, <1>9, <1>5
  <2>3. e.upTo + 1 = expect' /\ Joins(e.from)'
    BY <1>3, <1>4, <1>6, <1>7, <1>5, <2>2
  <2> QED BY <1>2, <1>4, <1>6, <2>1, <2>3 DEF Serving
<1> QED BY <1>8, <1>9

\* One of the things owed is done.
LEMMA OwedDone ==
    ASSUME events \in Seq(Told \cup Parted), NumbersAccounted, Serving, owed # <<>>, owed' = Tail(owed),
           expect' = expect, expect \in Nat,
           \/ Head(owed).do = "send" /\ events' = events
           \/ Head(owed).do = "emit" /\ events' = Append(events, Head(owed).ev)
    PROVE  Serving' /\ NumbersAccounted'
<1>1. \A r : Write(r).do = "send" /\ \A e : Emit(e).do = "emit" /\ Emit(e).ev = e
  BY DEF Write, Emit
<1>2. events' = events => NumbersAccounted'
  BY DEF NumbersAccounted
<1>3. ASSUME events' = events PROVE \A n : Joins(n) => Joins(n)'
  BY <1>3 DEF Joins, Apart
<1>4. ASSUME NEW e \in Told, owed = <<Emit(e)>>, e.upTo + 1 = expect, Joins(e.from)
      PROVE  Serving' /\ NumbersAccounted'
  <2>1. events' = Append(events, e) /\ owed' = <<>>
    BY <1>1, <1>4
  <2>2. NumbersAccounted' /\ Joins(expect)'
    BY <1>4, <2>1, OneMore
  <2> QED BY <2>1, <2>2 DEF Serving
<1>5. ASSUME NEW e \in Told, owed = <<Write(ResyncAll), Emit(e)>>, e.upTo + 1 = expect, Joins(e.from)
      PROVE  Serving' /\ NumbersAccounted'
  <2>1. events' = events /\ owed' = <<Emit(e)>>
    BY <1>1, <1>5
  <2>2. Joins(e.from)'
    BY <1>3, <1>5, <2>1
  <2> QED BY <1>2, <1>5, <2>1, <2>2 DEF Serving
<1>6. ASSUME NEW g \in Told, NEW e \in Told, g.upTo + 1 = e.from, e.upTo + 1 = expect, Joins(g.from),
             owed = <<Emit(g), Emit(e)>> \/ owed = <<Emit(g), Write(ResyncAll), Emit(e)>>
      PROVE  Serving' /\ NumbersAccounted'
  <2>1. Head(owed) = Emit(g) /\ (owed' = <<Emit(e)>> \/ owed' = <<Write(ResyncAll), Emit(e)>>)
    <3>1. CASE owed = <<Emit(g), Emit(e)>>
      BY <3>1
    <3>2. CASE owed = <<Emit(g), Write(ResyncAll), Emit(e)>>
      BY <3>2
    <3> QED BY <1>6, <3>1, <3>2
  <2>2. events' = Append(events, g)
    BY <1>1, <2>1
  <2>3. NumbersAccounted' /\ Joins(e.from)'
    BY <1>6, <2>2, OneMore
  <2> QED BY <1>6, <2>1, <2>3 DEF Serving
<1> QED BY <1>4, <1>5, <1>6 DEF Serving

LEMMA AccountStep ==
    ASSUME HubInv, StreamTypeOK, CallTypes, AccountInv, OwnInv, CloserInv, [StreamNext]_streamGatewayVars
    PROVE  AccountInv'
<1>1. /\ at \in Places /\ OwedInv /\ NumbersAccounted
      /\ events \in Seq(Told \cup Parted) /\ expect \in Nat
      /\ at \in {"greeting", "applying", "serving", "ended"} => mine \in Conns
      /\ last \in Failures /\ desired \subseteq Restorable
  BY StreamAssumption DEF StreamTypeOK, CallTypes, AccountInv
<1>2. events' = events => NumbersAccounted' /\ (Apart => Apart') /\ \A n : Joins(n) => Joins(n)'
  BY <1>1 DEF NumbersAccounted, Apart, Joins
<1>3. CASE UNCHANGED <<at, owed, expect, events>>
  BY <1>1, <1>3 DEF AccountInv, OwedInv, Serving, NumbersAccounted, Apart, Joins
<1>4. CASE Takes
  <2>1. /\ UNCHANGED <<at, owed, expect>> /\ NumbersAccounted' /\ (Apart => Apart')
        /\ \A n : Joins(n) => Joins(n)'
    BY <1>1, <1>4, OneTaken DEF Takes, runVars
  <2>2. Serving => Serving'
    BY <2>1 DEF Serving
  <2> QED BY <1>1, <2>1, <2>2 DEF AccountInv, OwedInv
<1>5. \A why \in Failures \ {"own"} : Disconnected(why) \in Parted
  BY DEF Disconnected, Parted
<1>6. ASSUME NEW why \in Failures \ {"own"}, NEW n, Again(why, n), UNCHANGED events
      PROVE  AccountInv'
  <2>1. owed' = <<Emit(Disconnected(why))>> /\ at' \in {"waiting", "ending"}
    BY <1>6 DEF Again
  <2>2. owed' # <<>> /\ \E e \in Parted : owed' = <<Emit(e)>>
    BY <1>5, <2>1
  <2> QED BY <1>2, <1>6, <2>1, <2>2 DEF AccountInv, OwedInv
<1>7. ASSUME at' \in {"over", "unborn", "ended"}, owed' = <<>>, events' = events
      PROVE  AccountInv'
  BY <1>2, <1>7 DEF AccountInv, OwedInv
<1>8. ASSUME NEW c \in Conns, Dials(c) PROVE AccountInv'
  BY <1>1, <1>2, <1>8 DEF Dials, sharedVars, AccountInv, OwedInv
<1>9. CASE DialFails \/ GreetingFails \/ GreetedTooLate
  <2>1. owed = <<>> /\ events' = events
    BY <1>1, <1>9 DEF DialFails, GreetingFails, GreetedTooLate, OwedInv
  <2>2. PICK why \in {"dial", "greeting", "closed"} : ConnectFails(why)
    BY <1>9 DEF DialFails, GreetingFails, GreetedTooLate
  <2> QED BY <1>6, <1>7, <2>1, <2>2 DEF ConnectFails, Finish, Failures
<1>10. CASE Greeted
  <2>1. at = "greeting" /\ mine \in Conns /\ link[mine].wire # <<>> /\ at' = "applying" /\ events' = events
    BY <1>1, <1>10 DEF Greeted, Installs, Greeting
  <2>2. expect' >= 1
    BY <1>10, <2>1, WireHead DEF Greeted, Installs
  <2>3. owed' = <<>> \/ \E q \in Seq(Channels) : owed' = <<Write(Ask("subscribe", q))>>
    <3>1. PICK want : /\ want \subseteq desired
                      /\ owed' = IF want = {} THEN <<>> ELSE <<Write(Ask("subscribe", Sq!SetToSeq(want)))>>
      BY <1>10 DEF Greeted, Installs
    <3>2. IsFiniteSet(want) /\ want \subseteq Channels
      BY <1>1, <3>1, RestorableAssumption, FS_Subset
    <3>3. Sq!SetToSeq(want) \in Seq(Channels)
      <4>1. Sq!SetToSeq(want) \in Seq(want)
        BY <3>2, ListedFacts
      <4> QED BY <3>2, <4>1
    <3> QED BY <3>1, <3>3
  <2> QED BY <1>1, <1>2, <2>1, <2>2, <2>3 DEF AccountInv, OwedInv
<1>11. CASE Adopts
  <2>1. at = "applying" /\ at' = "serving" /\ expect' = expect /\ events' = events
    BY <1>11 DEF Adopts, ServesFrom
  <2>2. Apart /\ expect >= 1
    BY <1>1, <2>1 DEF OwedInv
  <2>3. PICK e : e = [kind |-> "hello", from |-> expect - 1, upTo |-> expect - 1, why |-> "none"]
    OBVIOUS
  <2>4. owed' = <<Emit(e)>>
    BY <1>11, <2>3 DEF Adopts, ServesFrom
  <2>5. e \in Told /\ e.upTo + 1 = expect
    BY <1>1, <2>2, <2>3 DEF Told, EventKinds
  <2>6. Joins(e.from)'
    BY <1>2, <2>1, <2>2 DEF Joins
  <2>7. Serving'
    BY <2>1, <2>4, <2>5, <2>6 DEF Serving
  <2> QED BY <1>2, <2>1, <2>2, <2>7 DEF AccountInv, OwedInv
<1>12. CASE Retries
  <2>1. at = "waiting" /\ owed = <<>> /\ owed' = owed /\ events' = events /\ at' \in {"over", "dialing"}
    BY <1>12 DEF Retries, Finish
  <2>2. Apart
    BY <1>1, <2>1 DEF OwedInv
  <2> QED BY <1>2, <1>7, <2>1, <2>2 DEF AccountInv, OwedInv
<1>13. CASE GivesUp
  BY <1>7, <1>13 DEF GivesUp, Finish
<1>14. CASE Reads
  <2>1. at = "serving" /\ owed = <<>> /\ events' = events /\ at' \in {"ended", "serving"}
        /\ (at' = "ended" => owed' = owed)
    BY <1>14 DEF Reads, sharedVars
  <2>2. CASE at' = "ended"
    BY <1>7, <2>1, <2>2
  <2>3. CASE at' = "serving"
    <3>1. Serving' /\ expect' >= 1
      BY <1>1, <1>14, <2>3, FrameOwes
    <3> QED BY <1>2, <2>1, <2>3, <3>1 DEF AccountInv, OwedInv
  <2> QED BY <2>1, <2>2, <2>3
<1>15. CASE ReceiveFails
  BY <1>7, <1>15 DEF ReceiveFails, sharedVars
<1>16. CASE Ended
  <2>1. at = "ended" /\ owed = <<>> /\ events' = events
    BY <1>1, <1>16 DEF Ended, OwedInv
  <2>2. CASE cancelled
    BY <1>7, <1>16, <2>1, <2>2 DEF Ended, Finish
  <2>3. CASE ~cancelled
    <3>1. last \in Failures \ {"own"}
      BY <1>1, <2>1, <2>3 DEF OwnInv
    <3>2. CASE last = "protocol"
      <4>1. at' = "ending" /\ owed' = <<Emit(Disconnected(last))>>
        BY <1>16, <2>3, <3>2 DEF Ended
      <4>2. \E e \in Parted : owed' = <<Emit(e)>>
        BY <1>5, <3>1, <4>1
      <4> QED BY <1>2, <2>1, <4>1, <4>2 DEF AccountInv, OwedInv
    <3>3. CASE last # "protocol"
      <4>1. PICK n \in {0, attempt} : Again(last, n)
        BY <1>16, <2>3, <3>3 DEF Ended
      <4> QED BY <1>6, <2>1, <3>1, <4>1
    <3> QED BY <3>2, <3>3
  <2> QED BY <2>2, <2>3
<1>17. ASSUME owed # <<>>, owed' = Tail(owed), UNCHANGED <<at, expect>>,
              \/ Head(owed).do = "send" /\ events' = events
              \/ Head(owed).do = "emit" /\ events' = Append(events, Head(owed).ev)
       PROVE  AccountInv'
  <2>1. at \in {"applying", "waiting", "ending", "serving"}
    BY <1>1, <1>17, OwedPlaces
  <2>2. CASE at = "serving"
    <3>1. Serving' /\ NumbersAccounted'
      BY <1>1, <1>17, <2>2, OwedDone DEF OwedInv
    <3> QED BY <1>1, <1>17, <2>2, <3>1 DEF AccountInv, OwedInv
  <2>3. CASE at = "applying"
    <3>1. PICK q \in Seq(Channels) : owed = <<Write(Ask("subscribe", q))>>
      BY <1>1, <1>17, <2>3 DEF OwedInv
    <3>2. owed' = <<>> /\ Head(owed).do = "send"
      BY <1>17, <3>1 DEF Write
    <3>3. events' = events
      BY <1>17, <3>2
    <3> QED BY <1>1, <1>2, <1>17, <2>3, <3>2, <3>3 DEF AccountInv, OwedInv
  <2>4. CASE at \in {"waiting", "ending"}
    <3>1. PICK e \in Parted : owed = <<Emit(e)>>
      BY <1>1, <1>17, <2>4 DEF OwedInv
    <3>2. owed' = <<>> /\ Head(owed).do = "emit" /\ Head(owed).ev = e
      BY <1>17, <3>1 DEF Emit
    <3>3. events' = Append(events, e)
      BY <1>17, <3>2
    <3>4. NumbersAccounted' /\ Apart'
      BY <1>1, <3>3, OneMore
    <3> QED BY <1>1, <1>17, <2>4, <3>2, <3>4 DEF AccountInv, OwedInv
  <2> QED BY <2>1, <2>2, <2>3, <2>4
<1>18. CASE Emits
  BY <1>17, <1>18 DEF Emits
<1>19. CASE EmitFails
  <2>1. owed' = <<>> /\ events' = events /\ at' \in {"ended", "over", "ending"}
    BY <1>19 DEF EmitFails, Finish
  <2> QED BY <1>2, <1>7, <2>1 DEF AccountInv, OwedInv
<1>20. CASE Sends
  <2>1. CASE \E why \in {"closed", "lost"} : SendFails(why)
    <3>1. owed' = <<>> /\ events' = events /\ at' \in {"refused", "unborn", "ended"}
      BY <1>20, <2>1 DEF Sends, SendFails
    <3> QED BY <1>2, <1>7, <3>1 DEF AccountInv, OwedInv
  <2>2. CASE owed' = Tail(owed) /\ at' = at
    BY <1>17, <1>20, <2>2 DEF Sends
  <2> QED BY <1>20, <2>1, <2>2 DEF Sends
<1>21. CASE Refused
  <2>1. at = "refused" /\ owed = <<>> /\ events' = events /\ last \in {"closed", "lost"}
    BY <1>1, <1>21 DEF Refused, OwedInv, OwnInv
  <2>2. CASE cancelled
    BY <1>7, <1>21, <2>1, <2>2 DEF Refused, Finish
  <2>3. CASE ~cancelled
    BY <1>6, <1>21, <2>1, <2>3 DEF Refused, Failures
  <2> QED BY <2>2, <2>3
<1>22. ASSUME NEW g, NEW op, NEW ch, Amends(g, op, ch) PROVE AccountInv'
  BY <1>3, <1>22 DEF Amends, runVars
<1>23. CASE \/ \E g \in Callers : PicksSocket(g) \/ Writes(g) \/ WriteFails(g)
            \/ Marks \/ Cancels \/ Hangs \/ Returns \/ UNCHANGED streamVars
  BY <1>3, <1>23 DEF PicksSocket, Writes, WriteFails, Marks, Cancels, Hangs, Returns, streamVars, runVars, sharedVars
<1> QED BY <1>4, <1>8, <1>9, <1>10, <1>11, <1>12, <1>13, <1>14, <1>15, <1>16, <1>18, <1>19, <1>20,
           <1>21, <1>22, <1>23
        DEF StreamNext, Running, Closing, streamGatewayVars

\* No event carries the failure Close causes.
LEMMA NotMistaken == CallTypes => CloseNotMistaken
BY DEF CallTypes, CloseNotMistaken, Told, Parted

\* When Close has returned, run is over, and every socket it ever opened is shut.
LEMMA NothingLeaks == StreamTypeOK /\ CallTypes /\ SocketInv /\ CloserInv => NoSocketLeaked
BY StreamAssumption DEF StreamTypeOK, CallTypes, SocketInv, CloserInv, NoSocketLeaked

-----------------------------------------------------------------------------
(* The last word: what the caller wants is asked for, or was answered *)

\* A request for the channel is on its way to the socket of this connection.
Coming(ch) ==
    \/ \E g \in Callers : call[g].at = "amended" /\ AsksFor(call[g].req, ch)
    \/ \E g \in Callers : call[g].at = "sending" /\ call[g].to = mine /\ AsksFor(call[g].req, ch)
    \/ at = "applying" /\ owed # <<>> /\ AsksFor(Head(owed).req, ch)

WordInv ==
    (at \in {"applying", "serving"} /\ err = "none" /\ Open(mine)) =>
        \A ch \in desired \ doubtful : Coming(ch) \/ Heeded(mine, ch)

\* What is wanted and yet to be taken off by a call under way is known to be in doubt.
CallInv == \A ch \in desired : Dropping(ch) => ch \in doubtful

\* The bodies a connection may carry while it holds the channels of its hello.
Greetings(c) == {b \in Bodies : b.kind = "hello" => Sq!ToSet(b.channels) \subseteq held[c]}

\* Until the hello is read nothing was asked on the connection.
GreetInv ==
    /\ at = "greeting" => /\ up[mine] = <<>> /\ \A g \in Callers : call[g].to # mine
                          /\ Open(mine) => job[mine] = NoJob /\ link[mine] \in LinksOf(Greetings(mine))
    /\ at \in {"applying", "serving"} => phase[mine] \notin Early

LEMMA CallStep ==
    ASSUME StreamTypeOK, CallTypes, SocketInv, EarlyInv, GreetInv, CallInv, HubInv,
           [StreamNext]_streamGatewayVars
    PROVE  CallInv'
<1>1. /\ call \in [Callers -> Calls] /\ at \in Places
      /\ {mine, sock} \subseteq Conns \cup {None} /\ None \notin Conns
  BY StreamAssumption DEF CallTypes, StreamTypeOK
<1>2. ASSUME UNCHANGED <<call, desired>>, doubtful' = doubtful \/ doubtful' = {ch \in doubtful : Dropping(ch)},
             mine' = mine \/ mine' = None \/ \A g \in Callers : call[g].to # mine'
      PROVE  CallInv'
  <2>1. \A g \in Callers : call[g].at = "sending" => call[g].to # None
    BY <1>1 DEF Calls, NoCall
  <2>2. ASSUME NEW ch, Dropping(ch)' PROVE Dropping(ch)
    BY <1>2, <2>1, <2>2 DEF Dropping
  <2> QED BY <1>2, <2>2 DEF CallInv
<1>3. ASSUME NEW g \in Callers, NEW op \in {"subscribe", "unsubscribe"}, NEW ch \in Restorable, Amends(g, op, ch)
      PROVE  CallInv'
  <2>1. /\ call'[g] = [at |-> "amended", req |-> Ask(op, <<ch>>), to |-> None]
        /\ \A h \in Callers \ {g} : call'[h] = call[h]
        /\ desired' = IF op = "subscribe" THEN desired \cup {ch} ELSE desired \ {ch}
        /\ doubtful' = IF op = "subscribe" /\ Dropping(ch) THEN doubtful \cup {ch} ELSE doubtful \ {ch}
        /\ mine' = mine
    BY <1>1, <1>3 DEF Amends, runVars
  <2>2. Sq!ToSet(<<ch>>) = {ch}
    BY DEF Sq!ToSet
  <2>3. ASSUME NEW x \in desired', Dropping(x)' PROVE x \in doubtful'
    <3>1. PICK h \in Callers : /\ call'[h].at = "amended" \/ (call'[h].at = "sending" /\ call'[h].to = mine')
                               /\ call'[h].req.op = "unsubscribe" /\ x \in Sq!ToSet(call'[h].req.channels)
      BY <2>3 DEF Dropping
    <3>2. CASE h = g
      BY <2>1, <2>2, <2>3, <3>1, <3>2 DEF Ask
    <3>3. CASE h # g
      <4>1. Dropping(x)
        BY <2>1, <3>1, <3>3 DEF Dropping
      <4> QED BY <2>1, <2>3, <4>1 DEF CallInv
    <3> QED BY <3>2, <3>3
  <2> QED BY <2>3 DEF CallInv
<1>4. ASSUME NEW g \in Callers, PicksSocket(g) \/ Writes(g) \/ WriteFails(g) PROVE CallInv'
  <2>1. /\ desired' = desired /\ mine' = mine /\ doubtful \subseteq doubtful'
        /\ call'[g].at = "idle" \/ (call'[g].req = call[g].req /\ call[g].at = "amended")
        /\ \A h \in Callers \ {g} : call'[h] = call[h]
    BY <1>1, <1>4 DEF PicksSocket, Writes, WriteFails, runVars, sharedVars, NoCall
  <2>2. ASSUME NEW x \in desired, Dropping(x)' PROVE Dropping(x)
    BY <2>1, <2>2 DEF Dropping
  <2> QED BY <2>1, <2>2 DEF CallInv
<1>5. ASSUME NEW c \in Conns, Dials(c) PROVE CallInv'
  <2>1. phase[c] = "idle" /\ mine' = c /\ UNCHANGED <<call, desired, doubtful>>
    BY <1>5 DEF Dials, sharedVars, callVars
  <2>2. \A g \in Callers : call[g].to # c
    BY <1>1, <2>1 DEF SocketInv
  <2> QED BY <1>2, <2>1, <2>2
<1>6. CASE Running
  <2>1. CASE Greeted
    BY <1>2, <2>1 DEF Greeted, Installs
  <2>2. CASE Sends
    BY <1>2, <2>2 DEF Sends, SendFails, callVars
  <2>3. CASE GreetingFails \/ GreetedTooLate \/ DialFails
    BY <1>2, <2>3 DEF GreetingFails, GreetedTooLate, DialFails, ConnectFails, callVars
  <2>4. CASE \/ Adopts \/ Retries \/ GivesUp \/ Reads \/ ReceiveFails \/ Ended \/ Emits \/ EmitFails
             \/ Refused
    BY <1>2, <2>4 DEF sharedVars, callVars,
     Adopts, ServesFrom, Retries, GivesUp, Reads, ReceiveFails, Ended, Emits, EmitFails, Refused
  <2> QED BY <1>5, <1>6, <2>1, <2>2, <2>3, <2>4 DEF Running
<1>7. CASE Takes \/ Closing \/ UNCHANGED streamVars
  BY <1>2, <1>7 DEF Takes, Closing, Marks, Cancels, Hangs, Returns, streamVars, runVars, sharedVars, callVars
<1> QED BY <1>3, <1>4, <1>6, <1>7 DEF StreamNext, streamGatewayVars

\* What run does to the hub, but for what the hub does by itself.
LEMMA RunMoves ==
    ASSUME \/ Running \/ Takes \/ Closing
           \/ \E g \in Callers :
                \/ \E op \in {"subscribe", "unsubscribe"}, ch \in Restorable : Amends(g, op, ch)
                \/ PicksSocket(g) \/ Writes(g) \/ WriteFails(g)
    PROVE  \/ UNCHANGED <<held, denied, connVars>>
           \/ \E c \in Conns : Dials(c)
           \/ HangsUp(mine) /\ mine' = None /\ (at \in {"greeting", "ended", "applying"})
                /\ at' \notin {"greeting", "applying", "serving"}
           \/ (Greeted \/ Reads) /\ link' = [link EXCEPT ![mine].wire = Tail(@)]
                /\ UNCHANGED <<held, denied, phase, job, up>>
           \/ /\ \/ Sends /\ at' = at /\ Written(mine, Head(owed).req)
                 \/ \E g \in Callers : Writes(g) /\ Written(call[g].to, call[g].req)
              /\ UNCHANGED <<held, denied, phase, job, link>>
<1>1. CASE UNCHANGED gatewayVars \/ UNCHANGED <<slateVars, hubVars, connVars, folds, shutdown>>
  BY <1>1 DEF gatewayVars, hubVars
<1>2. CASE GreetingFails \/ GreetedTooLate
  BY <1>2 DEF GreetingFails, GreetedTooLate, ConnectFails, Finish, Again
<1>3. CASE Ended
  BY <1>3 DEF Ended, Finish, Again
<1>4. CASE Greeted \/ Reads
  BY <1>4 DEF Greeted, Installs, Reads, hubVars
<1>5. CASE Sends
  <2>1. CASE \E why \in {"closed", "lost"} : SendFails(why)
    BY <1>1, <2>1 DEF SendFails
  <2>2. CASE at' = at /\ Written(mine, Head(owed).req) /\ UNCHANGED <<hubVars, link, phase, job>>
    BY <1>5, <2>2 DEF hubVars
  <2> QED BY <1>5, <2>1, <2>2 DEF Sends
<1>6. CASE \E g \in Callers : Writes(g)
  BY <1>6 DEF Writes, hubVars
<1>7. CASE \/ DialFails \/ Adopts \/ Retries \/ GivesUp \/ ReceiveFails \/ Emits \/ EmitFails
           \/ Refused \/ (\E g \in Callers : PicksSocket(g) \/ WriteFails(g)) \/ Takes \/ Closing
  BY <1>1, <1>7 DEF DialFails, Adopts, ServesFrom, Retries, GivesUp, ReceiveFails, Emits, EmitFails,
                    Refused, PicksSocket, WriteFails, Takes, Closing, Marks, Cancels, Hangs, Returns
<1>8. ASSUME NEW g, NEW op, NEW ch, Amends(g, op, ch) PROVE UNCHANGED <<held, denied, connVars>>
  BY <1>8 DEF Amends, hubVars
<1> QED BY <1>2, <1>3, <1>4, <1>5, <1>6, <1>7, <1>8 DEF Running

\* A connection's phases only go on.
\* What the hub publishes, and what it answers, is no hello.
LEMMA NoHellos ==
    ASSUME NEW c, NEW res, NEW s \in Seq(Bodies),
           s = Fanout(c, res) \/ \E chs \in Seq(Channels) : s = [i \in DOMAIN chs |-> SnapshotOf(chs[i])]
    PROVE  \A i \in 1 .. Len(s) : s[i] \in Bodies /\ s[i].kind # "hello"
<1>1. DOMAIN s = 1 .. Len(s) /\ \A i \in 1 .. Len(s) : s[i] \in Bodies
  OBVIOUS
<1>2. CASE s = Fanout(c, res)
  <2>1. PICK kinds : s = [i \in DOMAIN kinds |-> BodyFor(res, ChannelOfKind(res.channels, kinds[i]))]
    BY <1>2 DEF Fanout
  <2>2. \A ch : BodyFor(res, ch).kind \in {"delta", "removal"}
    BY DEF BodyFor, Delta, Removal
  <2>3. \A i \in DOMAIN s : s[i] = BodyFor(res, ChannelOfKind(res.channels, kinds[i]))
    BY <2>1
  <2> QED BY <1>1, <2>2, <2>3
<1>3. ASSUME NEW chs \in Seq(Channels), s = [i \in DOMAIN chs |-> SnapshotOf(chs[i])]
      PROVE  \A i \in DOMAIN s : s[i].kind = "snapshot"
  BY <1>3 DEF SnapshotOf
<1> QED BY <1>1, <1>2, <1>3

\* Until it is greeted a connection holds what its hello will say.
Fresher(c) ==
    /\ up[c] = <<>>
    /\ Open(c) => job[c] = NoJob /\ link[c] \in LinksOf(Greetings(c))

LEMMA GreetsHub ==
    ASSUME HubInv, EarlyInv, HubNext, NEW c \in Conns, Fresher(c)
    PROVE  Fresher(c)'
<1>1. /\ up \in [Conns -> Seq(Asked)] /\ held \in [Conns -> SUBSET Channels]
      /\ job \in [Conns -> [op : JobOps, channels : Seq(Channels)]]
      /\ link \in [Conns -> Links] /\ phase \in [Conns -> Phases]
      /\ SlateInv /\ SlateTypeOK /\ RoutingInv /\ Restoring
  BY DEF HubInv, TypesInv, ConnTypes, Counted, SlateInv
<1>2. ASSUME up'[c] = up[c],
             Open(c)' => Open(c) /\ job'[c] = job[c] /\ link'[c] = link[c] /\ held'[c] = held[c]
      PROVE  Fresher(c)'
  <2>1. CASE Open(c)'
    <3>1. Greetings(c)' = Greetings(c)
      BY <1>2, <2>1 DEF Greetings
    <3> QED BY <1>2, <2>1, <3>1 DEF Fresher
  <2>2. CASE ~Open(c)'
    BY <1>2, <2>2 DEF Fresher
  <2> QED BY <2>1, <2>2
<1>3. ASSUME NEW d \in Deliveries, Publish(d) PROVE Fresher(c)'
  <2>1. Fold(d) /\ UNCHANGED <<held, phase, job, up>>
    BY <1>3 DEF Publish, hubVars
  <2>2. CASE ~Changed(result') \/ ~Open(c)
    BY <1>2, <1>3, <2>1, <2>2 DEF Publish, Open
  <2>3. CASE Changed(result') /\ Open(c)
    <3>1. PICK B : B = Greetings(c)
      OBVIOUS
    <3>2. Greetings(c)' = B
      BY <2>1, <3>1 DEF Greetings
    <3>3. PICK s : s = Fanout(c, result')
      OBVIOUS
    <3>4. s \in Seq(Bodies)
      BY <1>1, <2>1, <2>3, <3>3, FanoutType
    <3>5. \A i \in 1 .. Len(s) : s[i] \in Bodies /\ s[i].kind # "hello"
      BY <3>3, <3>4, NoHellos
    <3>6. \A i \in 1 .. Len(s) : s[i] \in B
      BY <3>1, <3>5 DEF Greetings
    <3>7. s \in Seq(B)
      BY <3>4, <3>6, Narrowed
    <3>8. ResyncNotice \in B
      BY <3>1, LinkBodies DEF Greetings, ResyncNotice
    <3>9. link'[c] \in EnqueueAll(link[c], s, phase[c] = "serving")
      BY <1>3, <2>3, <3>3 DEF Publish, Queued
    <3>10. link[c] \in LinksOf(B)
      BY <2>3, <3>1 DEF Fresher
    <3>11. link'[c] \in LinksOf(B)
      BY <3>7, <3>8, <3>9, <3>10, EnqueueAllOf
    <3> QED BY <2>1, <3>2, <3>11 DEF Fresher, Open
  <2> QED BY <2>2, <2>3
<1>4. ASSUME NEW x \in Conns \ {c},
             \/ Restore(x) \/ Register(x) \/ Serve(x) \/ Close(x) \/ Unregister(x)
             \/ Handling(x) \/ Transmit(x)
      PROVE  Fresher(c)'
  <2>1. held'[c] = held[c] /\ up'[c] = up[c] /\ job'[c] = job[c] /\ phase'[c] = phase[c]
    BY <1>1, <1>4 DEF Restore, Register, Serve, Close, Unregister, Handling, Unsubscribe, ClassifySubscribe,
                      AttachSubscribe, PickResync, AttachResync, Transmit, AddRoutes, RemoveRoutes, hubVars
  <2>2. link'[c] = link[c]
    <3>1. ASSUME NEW bodies, Send(x, bodies) PROVE link'[c] = link[c]
      BY <1>1, <1>4, <3>1 DEF Send
    <3> QED BY <1>1, <1>4, <3>1 DEF Restore, Register, Serve, Close, Unregister, Handling, Unsubscribe,
                ClassifySubscribe, AttachSubscribe, PickResync, AttachResync, Transmit
  <2> QED BY <1>2, <2>1, <2>2 DEF Open
<1>5. CASE Serve(c)
  BY <1>1, <1>2, <1>5 DEF Serve, Open, hubVars
<1>6. CASE Restore(c) \/ Close(c)
  BY <1>1, <1>2, <1>6 DEF Restore, Close, Open
<1>7. CASE Unregister(c)
  <2>1. phase'[c] = "gone" /\ up'[c] = <<>>
    BY <1>1, <1>7 DEF Unregister
  <2> QED BY <2>1 DEF Fresher, Open
<1>8. CASE Handling(c)
  <2>1. up[c] = <<>>
    BY DEF Fresher
  <2>2. AttachSubscribe(c) \/ AttachResync(c)
    BY <1>8, <2>1 DEF Handling, Unsubscribe, ClassifySubscribe, PickResync, Requested
  <2>3. job[c].op \in {"subscribe", "resync"} /\ UNCHANGED <<phase, up>>
    BY <2>2 DEF AttachSubscribe, AttachResync
  <2>4. ~Open(c)
    BY <2>3 DEF Fresher, NoJob
  <2> QED BY <1>2, <2>3, <2>4 DEF Open
<1>9. CASE Transmit(c)
  <2>1. UNCHANGED <<held, job, phase, up>>
    BY <1>9 DEF Transmit, hubVars
  <2>2. PICK B : B = Greetings(c)
    OBVIOUS
  <2>3. Greetings(c)' = B
    BY <2>1, <2>2 DEF Greetings
  <2>4. ASSUME Open(c) PROVE link'[c] \in LinksOf(B)
    <3>1. link[c] \in LinksOf(B)
      BY <2>2, <2>4 DEF Fresher
    <3>2. PICK l : l = [link[c] EXCEPT !.queue = Tail(@), !.wire = Append(@, Head(link[c].queue))]
      OBVIOUS
    <3>3. link[c].queue # <<>> /\ link'[c] = l
      BY <1>1, <1>9, <3>2 DEF Transmit
    <3>4. l \in LinksOf(B)
      BY <3>1, <3>2, <3>3, MoveOf
    <3> QED BY <3>3, <3>4
  <2> QED BY <2>1, <2>3, <2>4 DEF Fresher, Open
<1>10. CASE Register(c)
  <2>1. up' = up /\ job'[c] = NoJob /\ phase[c] = "restored"
    BY <1>1, <1>10 DEF Register
  <2>2. CASE Closed
    BY <1>1, <1>2, <1>10, <2>2 DEF Register, Open
  <2>3. CASE ~Closed
    <3> DEFINE chs == job[c].channels
               fill == [i \in DOMAIN chs |-> SnapshotOf(chs[i])]
    <3>1. chs \in Seq(Channels)
      BY <1>1
    <3>2. fill \in Seq(Bodies)
      BY <1>1, <3>1, SnapshotsType
    <3>3. \A i \in 1 .. Len(fill) : fill[i] \in Bodies /\ fill[i].kind # "hello"
      BY <3>1, <3>2, NoHellos
    <3>4. held'[c] = held[c] \cup Sq!ToSet(chs)
      BY <1>1, <1>10, <2>3 DEF Register, AddRoutes
    <3>5. PICK l \in EnqueueAll(link[c], <<Hello(chs)>> \o fill, FALSE) : link' = [link EXCEPT ![c] = l]
      BY <1>10, <2>3 DEF Register
    <3> HIDE DEF chs, fill
    <3>6. PICK B : B = Greetings(c)'
      OBVIOUS
    <3>7. B = {b \in Bodies : b.kind = "hello" => Sq!ToSet(b.channels) \subseteq held'[c]}
      BY <3>6 DEF Greetings
    <3>8. fill \in Seq(B)
      <4>1. \A i \in 1 .. Len(fill) : fill[i] \in B
        BY <3>3, <3>7
      <4> QED BY <3>2, <4>1, Narrowed
    <3>9. Hello(chs) \in B
      <4>1. Hello(chs) \in Bodies /\ Hello(chs).channels = chs
        BY <3>1 DEF Hello, Bodies
      <4> QED BY <3>4, <3>7, <4>1
    <3>10. <<Hello(chs)>> \o fill \in Seq(B)
      BY <3>8, <3>9
    <3>11. ResyncNotice \in B
      BY <3>7, LinkBodies DEF ResyncNotice
    <3>12. link[c] \in LinksOf(B)
      <4>1. link[c].queue = <<>> /\ link[c].wire = <<>>
        BY <2>1 DEF EarlyInv, Early
      <4>2. link[c] = [seq |-> link[c].seq, queue |-> <<>>, wire |-> <<>>] /\ link[c].seq \in Nat
            /\ Len(link[c].queue) <= Capacity
        BY <1>1, <4>1 DEF Links, LinksOf
      <4>3. <<>> \in Seq(FramesOf(B))
        OBVIOUS
      <4>4. [seq |-> link[c].seq, queue |-> <<>>, wire |-> <<>>]
              \in [seq : Nat, queue : Seq(FramesOf(B)), wire : Seq(FramesOf(B))]
        BY <4>2, <4>3
      <4>5. link[c] \in [seq : Nat, queue : Seq(FramesOf(B)), wire : Seq(FramesOf(B))]
        BY <4>2, <4>4
      <4> QED BY <4>2, <4>5 DEF LinksOf
    <3>13. l \in LinksOf(B)
      BY <3>5, <3>10, <3>11, <3>12, EnqueueAllOf
    <3>14. link'[c] \in LinksOf(B)
      BY <1>1, <3>5, <3>13
    <3> QED BY <2>1, <3>6, <3>14 DEF Fresher
  <2> QED BY <2>2, <2>3
<1> QED BY <1>3, <1>4, <1>5, <1>6, <1>7, <1>8, <1>9, <1>10 DEF HubNext

\* Only a dial leaves run waiting for a hello, and only a hello makes it serve.
LEMMA Whereabouts ==
    ASSUME [StreamNext]_streamGatewayVars, at \in Places, call \in [Callers -> Calls]
    PROVE  \/ \E c \in Conns : Dials(c)
           \/ Greeted
           \/ /\ at' = "greeting" => /\ at = "greeting" /\ mine' = mine
                                     /\ \A g \in Callers : call'[g].to \in {call[g].to, None, sock}
              /\ at' \in {"applying", "serving"} => at \in {"applying", "serving"} /\ mine' = mine
<1>1. CASE UNCHANGED streamVars
  BY <1>1 DEF streamVars, runVars, callVars
<1>2. CASE \/ DialFails \/ GreetingFails \/ GreetedTooLate \/ Adopts \/ Retries \/ GivesUp
           \/ Reads \/ ReceiveFails \/ Ended \/ Emits \/ EmitFails \/ Refused
  BY <1>2 DEF DialFails, GreetingFails, GreetedTooLate, ConnectFails, Again, Finish, Adopts, ServesFrom,
              Retries, GivesUp, Reads, ReceiveFails, Ended, Emits, EmitFails, Refused, callVars
<1>3. CASE Sends
  BY <1>3 DEF Sends, SendFails, callVars
<1>4. CASE \E g \in Callers : PicksSocket(g) \/ Writes(g) \/ WriteFails(g)
  BY <1>4 DEF PicksSocket, Writes, WriteFails, runVars, NoCall
<1>5. CASE Takes \/ Closing
  BY <1>5 DEF Takes, Closing, Marks, Cancels, Hangs, Returns, runVars, callVars
<1>6. ASSUME NEW g \in Callers, NEW op, NEW ch, Amends(g, op, ch)
      PROVE  UNCHANGED <<at, mine>> /\ \A h \in Callers : call'[h].to \in {call[h].to, None}
  BY <1>6 DEF Amends, runVars
<1> QED BY <1>1, <1>2, <1>3, <1>4, <1>5, <1>6 DEF StreamNext, Running, streamGatewayVars

LEMMA EarlyStep ==
    ASSUME HubInv, StreamTypeOK, EarlyInv, [StreamNext]_streamGatewayVars
    PROVE  EarlyInv'
<1>1. /\ link \in [Conns -> Links] /\ phase \in [Conns -> Phases] /\ up \in [Conns -> Seq(Asked)]
      /\ ConnTypes
      /\ at \in {"greeting", "serving"} => mine \in Conns
  BY StreamAssumption DEF HubInv, TypesInv, ConnTypes, StreamTypeOK
<1>2. CASE HubNext
  BY <1>1, <1>2, EarlyHub
<1>3. CASE UNCHANGED gatewayVars \/ UNCHANGED <<held, denied, connVars>>
  BY <1>3 DEF gatewayVars, connVars, EarlyInv
<1>4. ASSUME NEW c \in Conns, Dials(c) PROVE EarlyInv'
  BY <1>1, <1>4 DEF Dials, EarlyInv, Early
<1>5. CASE HangsUp(mine)
  BY <1>1, <1>5 DEF HangsUp, EarlyInv, Early
<1>6. CASE (Greeted \/ Reads) /\ link' = [link EXCEPT ![mine].wire = Tail(@)] /\ UNCHANGED <<phase, up>>
  <2>1. mine \in Conns /\ link[mine].wire # <<>>
    BY <1>1, <1>6 DEF Greeted, Installs, Greeting, Reads
  <2>2. phase[mine] \notin Early /\ \A c \in Conns \ {mine} : link'[c] = link[c]
    BY <1>1, <1>6, <2>1 DEF EarlyInv
  <2> QED BY <1>6, <2>2 DEF EarlyInv
<1>7. ASSUME NEW c, NEW req, Written(c, req), UNCHANGED <<phase, link>> PROVE EarlyInv'
  BY <1>1, <1>7 DEF Written, EarlyInv
<1> QED BY <1>2, <1>3, <1>4, <1>5, <1>6, <1>7, RunMoves DEF StreamNext, streamGatewayVars

LEMMA GreetStep ==
    ASSUME HubInv, StreamTypeOK, CallTypes, OwedInv, SocketInv, EarlyInv, GreetInv,
           [StreamNext]_streamGatewayVars
    PROVE  GreetInv'
<1>1. /\ link \in [Conns -> Links] /\ phase \in [Conns -> Phases] /\ up \in [Conns -> Seq(Asked)]
      /\ ConnTypes
      /\ at \in {"greeting", "applying", "serving"} => mine \in Conns
      /\ at \in Places /\ None \notin Conns
  BY StreamAssumption DEF HubInv, TypesInv, ConnTypes, StreamTypeOK
<1>2. ASSUME NEW c \in Conns, Dials(c) PROVE GreetInv'
  <2>1. /\ at' = "greeting" /\ mine' = c /\ phase'[c] = "upgraded" /\ up'[c] = <<>> /\ call' = call
        /\ phase[c] = "idle"
    BY <1>1, <1>2 DEF Dials, EarlyInv, callVars
  <2>2. \A g \in Callers : call[g].to # c
    BY <1>1, <2>1 DEF SocketInv
  <2> QED BY <2>1, <2>2 DEF GreetInv, Open
<1>3. CASE Greeted
  <2>1. at = "greeting" /\ at' = "applying" /\ mine' = mine /\ link[mine].wire # <<>> /\ phase' = phase
    BY <1>3 DEF Greeted, Installs, Greeting
  <2>2. phase[mine] \notin Early
    BY <1>1, <2>1 DEF EarlyInv
  <2> QED BY <2>1, <2>2 DEF GreetInv
<1>4. CASE /\ at' = "greeting" => /\ at = "greeting" /\ mine' = mine
                                  /\ \A g \in Callers : call'[g].to \in {call[g].to, None, sock}
           /\ at' \in {"applying", "serving"} => at \in {"applying", "serving"} /\ mine' = mine
  <2>1. PICK c : c = mine
    OBVIOUS
  <2>2. ASSUME at' = "greeting" PROVE c \in Conns /\ mine' = c /\ (\A g \in Callers : call'[g].to # c) /\ Fresher(c)
    <3>1. at = "greeting" /\ mine' = c /\ c \in Conns /\ sock = None /\ \A g \in Callers : call[g].to # c
      BY <1>1, <1>4, <2>1, <2>2 DEF SocketInv, GreetInv
    <3> QED BY <1>1, <1>4, <2>1, <2>2, <3>1 DEF GreetInv, Fresher
  <2>3. ASSUME at' \in {"applying", "serving"} PROVE c \in Conns /\ mine' = c /\ phase[c] \notin Early
    BY <1>1, <1>4, <2>1, <2>3 DEF GreetInv
  <2>4. ASSUME at' = "greeting" => Fresher(c)', at' \in {"applying", "serving"} => phase'[c] \notin Early
        PROVE  GreetInv'
    BY <2>2, <2>3, <2>4 DEF GreetInv, Fresher, Open, Greetings
  <2>5. CASE HubNext
    BY <1>1, <2>2, <2>3, <2>4, <2>5, GreetsHub, HubAdvances
  <2>6. CASE UNCHANGED gatewayVars \/ UNCHANGED <<held, denied, connVars>>
    <3>1. UNCHANGED <<held, up, job, phase, link>>
      BY <2>6 DEF gatewayVars, hubVars, connVars
    <3>2. Greetings(c)' = Greetings(c)
      BY <3>1 DEF Greetings
    <3>3. Fresher(c) => Fresher(c)'
      BY <3>1, <3>2 DEF Fresher, Open
    <3> QED BY <2>2, <2>3, <2>4, <3>1, <3>3
  <2>7. CASE at' \notin {"greeting", "applying", "serving"}
    BY <2>7 DEF GreetInv
  <2>8. CASE Reads /\ UNCHANGED phase
    <3>1. at' # "greeting"
      BY <2>8 DEF Reads
    <3> QED BY <2>3, <2>4, <2>8, <3>1
  <2>9. ASSUME NEW x, NEW req, Written(x, req), at' = "greeting" => x # c, UNCHANGED <<held, phase, job, link>>
        PROVE  GreetInv'
    <3>1. at' = "greeting" => up'[c] = up[c]
      BY <1>1, <2>2, <2>9 DEF Written
    <3>2. Greetings(c)' = Greetings(c)
      BY <2>9 DEF Greetings
    <3>3. at' = "greeting" => Fresher(c)'
      BY <2>2, <2>9, <3>1, <3>2 DEF Fresher, Open
    <3> QED BY <2>3, <2>4, <2>9, <3>3
  <2>10. CASE (Sends /\ at' = at /\ Written(mine, Head(owed).req)) /\ UNCHANGED <<held, phase, job, link>>
    <3>1. at' # "greeting"
      <4>1. owed # <<>> /\ Head(owed).do = "send"
        BY <2>10 DEF Sends
      <4> QED BY <1>1, <2>10, <4>1, OwedPlaces
    <3> QED BY <2>9, <2>10, <3>1
  <2>11. ASSUME NEW g \in Callers, Written(call[g].to, call[g].req), UNCHANGED <<held, phase, job, link>>
         PROVE  GreetInv'
    <3>1. at' = "greeting" => call[g].to # c
      BY <1>4, <2>1 DEF GreetInv
    <3> QED BY <2>9, <2>11, <3>1
  <2>12. ASSUME NEW x \in Conns, Dials(x) PROVE GreetInv'
    BY <1>2, <2>12
  <2> QED BY <1>3, <2>5, <2>6, <2>7, <2>8, <2>10, <2>11, <2>12, RunMoves DEF StreamNext, streamGatewayVars
<1> QED BY <1>1, <1>2, <1>3, <1>4, Whereabouts DEF CallTypes

\* What run does while it applies and serves keeps every request on its way, and
\* what the hub has heeded.
LEMMA WordStep ==
    ASSUME HubInv, StreamTypeOK, CallTypes, OwedInv, SocketInv, CloserInv, CallInv, GreetInv, WordInv,
           [StreamNext]_streamGatewayVars
    PROVE  WordInv'
<1> SUFFICES ASSUME at' \in {"applying", "serving"}, err' = "none", Open(mine)', NEW ch \in desired' \ doubtful'
             PROVE  Coming(ch)' \/ Heeded(mine, ch)'
  BY DEF WordInv
<1>1. /\ up \in [Conns -> Seq(Asked)] /\ phase \in [Conns -> Phases] /\ ConnTypes
      /\ held \in [Conns -> SUBSET Channels]
      /\ call \in [Callers -> Calls]
      /\ at \in Places /\ None \notin Conns
      /\ desired \subseteq Restorable
  BY StreamAssumption DEF HubInv, TypesInv, ConnTypes, Counted, StreamTypeOK, CallTypes
<1>2. at \in {"greeting", "applying", "serving"} => mine \in Conns
  BY StreamAssumption DEF StreamTypeOK
<1>3. ASSUME NEW c \in Conns, Dials(c) PROVE FALSE
  BY <1>3 DEF Dials
<1>4. CASE Greeted
  <2>1. /\ at = "greeting" /\ at' = "applying" /\ mine' = mine /\ desired' = desired /\ mine \in Conns
        /\ Greeting /\ UNCHANGED <<phase, job, up, held, denied>>
    BY <1>2, <1>4 DEF Greeted, Installs, Greeting, hubVars
  <2>2. PICK hello : hello = Head(link[mine].wire)
    OBVIOUS
  <2>3. PICK want : want = desired \ Sq!ToSet(hello.body.channels)
    OBVIOUS
  <2>4. owed' = IF want = {} THEN <<>> ELSE <<Write(Ask("subscribe", Sq!SetToSeq(want)))>>
    BY <1>4, <2>2, <2>3 DEF Greeted, Installs
  <2>5. CASE ch \in want
    <3>1. IsFiniteSet(want)
      BY <1>1, <2>3, RestorableAssumption, FS_Subset
    <3>2. Sq!ToSet(Sq!SetToSeq(want)) = want
      BY <3>1, ListedFacts
    <3>3. owed' # <<>> /\ Head(owed') = Write(Ask("subscribe", Sq!SetToSeq(want)))
      BY <2>4, <2>5
    <3>4. AsksFor(Head(owed').req, ch)
      BY <2>5, <3>2, <3>3 DEF AsksFor, Write, Ask
    <3> QED BY <2>1, <3>3, <3>4 DEF Coming
  <2>6. CASE ch \notin want
    <3>1. ch \in Sq!ToSet(hello.body.channels)
      BY <2>1, <2>3, <2>6
    <3>2. Open(mine)
      BY <2>1 DEF Open
    <3>3. up[mine] = <<>> /\ link[mine] \in LinksOf(Greetings(mine))
      BY <2>1, <3>2 DEF GreetInv
    <3>4. link[mine].wire \in Seq(FramesOf(Greetings(mine))) /\ link[mine].wire # <<>> /\ hello.body.kind = "hello"
      BY <2>1, <2>2, <3>3 DEF LinksOf, Greeting
    <3>5. hello \in FramesOf(Greetings(mine))
      BY <2>2, <3>4
    <3>6. ch \in held[mine]
      BY <3>1, <3>4, <3>5 DEF FramesOf, Greetings
    <3> QED BY <2>1, <3>3, <3>6 DEF Heeded, Silent, Granted
  <2> QED BY <2>5, <2>6
<1>5. CASE at \in {"applying", "serving"} /\ mine' = mine
  <2>1. mine \in Conns /\ phase[mine] \notin Early
    BY <1>2, <1>5 DEF GreetInv
  <2>2. PICK c \in Conns : c = mine
    BY <2>1
  <2>3. err = "none" /\ closer.at = "no" /\ sock = c /\ c \notin shut
    <3>1. err = "none"
      <4>1. err' = err \/ err' = "closed" \/ at' = "over"
        BY DEF StreamNext, Running, DialFails, GreetingFails, GreetedTooLate, ConnectFails, Again, Finish, Adopts,
           ServesFrom, Retries, GivesUp, Reads, ReceiveFails, Ended, Emits, EmitFails, Refused, Sends, SendFails,
           Dials, Greeted, Installs, PicksSocket, Writes, WriteFails, Takes, Closing, Marks, Cancels, Hangs, Returns, Amends,
           sharedVars, streamVars, streamGatewayVars, Recorded
      <4>2. err # "none" => err' # "none"
        BY <1>5, <4>1 DEF StreamNext
      <4> QED BY <4>2
    <3>2. closer.at = "no" /\ sock = mine /\ ~cancelled
      BY <1>5, <3>1 DEF CloserInv
    <3> QED BY <2>2, <3>1, <3>2 DEF SocketInv
  <2>4. ASSUME Open(c) PROVE \A x \in desired \ doubtful : Coming(x) \/ Heeded(c, x)
    BY <1>5, <2>2, <2>3, <2>4 DEF WordInv
  <2>5. CASE HubNext /\ UNCHANGED streamVars
    <3>1. ch \in desired \ doubtful /\ mine' = c /\ Coming(ch)' = Coming(ch) /\ Open(c)'
      BY <1>5, <2>2, <2>5 DEF streamVars, runVars, sharedVars, Coming, Open
    <3>2. Open(c)
      BY <1>1, <2>1, <2>2, <2>5, <3>1, HubAdvances
    <3>3. Heeded(c, ch) => Heeded(c, ch)'
      BY <2>1, <2>2, <2>5, <3>1, HeededHub
    <3>4. Heeded(c, ch)' => Heeded(mine, ch)'
      BY <3>1 DEF Heeded, Granted
    <3> QED BY <2>4, <3>1, <3>2, <3>3, <3>4
  <2>6. ASSUME UNCHANGED phase PROVE Open(c) /\ mine' = c /\ \A x \in desired \ doubtful : Coming(x) \/ Heeded(c, x)
    BY <1>5, <2>2, <2>4, <2>6 DEF Open
  <2>7. ASSUME UNCHANGED <<held, denied, up, job, phase>>, Heeded(c, ch) PROVE Heeded(mine, ch)'
    BY <1>5, <2>2, <2>7 DEF Heeded, Granted
  <2>8. CASE /\ UNCHANGED <<held, denied, up, job, phase, call, desired, doubtful>>
             /\ at = "applying" => owed = <<>> \/ (at' = at /\ owed' = owed)
    <3>1. Coming(ch) => Coming(ch)'
      BY <1>5, <2>8 DEF Coming
    <3> QED BY <2>6, <2>7, <2>8, <3>1
  <2>9. ASSUME NEW g \in Callers, NEW op \in {"subscribe", "unsubscribe"}, NEW x \in Restorable,
               Amends(g, op, x)
        PROVE  Coming(ch)' \/ Heeded(mine, ch)'
    <3>1. /\ UNCHANGED <<held, denied, up, job, phase, at, mine, owed>> /\ call[g] = NoCall
          /\ call'[g] = [at |-> "amended", req |-> Ask(op, <<x>>), to |-> None]
          /\ \A h \in Callers \ {g} : call'[h] = call[h]
          /\ desired' = IF op = "subscribe" THEN desired \cup {x} ELSE desired \ {x}
          /\ doubtful' = IF op = "subscribe" /\ Dropping(x) THEN doubtful \cup {x} ELSE doubtful \ {x}
      BY <1>1, <2>9 DEF Amends, hubVars, connVars, runVars
    <3>2. CASE op = "subscribe" /\ ch = x
      <4>1. ch \in Sq!ToSet(<<x>>)
        BY <3>2 DEF Sq!ToSet
      <4>2. AsksFor(call'[g].req, ch)
        BY <3>1, <3>2, <4>1 DEF AsksFor, Ask
      <4> QED BY <3>1, <4>2 DEF Coming
    <3>3. CASE ch \in desired \ doubtful
      <4>1. Coming(ch) => Coming(ch)'
        <5>1. \A h \in Callers : call[h].at \in {"amended", "sending"} => call'[h] = call[h]
          BY <3>1 DEF NoCall
        <5> QED BY <3>1, <5>1 DEF Coming
      <4> QED BY <2>6, <2>7, <3>1, <3>3, <4>1
    <3> QED BY <3>1, <3>2, <3>3
  <2>10. ASSUME NEW g \in Callers, PicksSocket(g) PROVE Coming(ch)' \/ Heeded(mine, ch)'
    <3>1. /\ UNCHANGED <<held, denied, up, job, phase, at, mine, owed, desired, doubtful>>
          /\ call[g].at = "amended"
      BY <2>10 DEF PicksSocket, gatewayVars, hubVars, connVars, runVars, sharedVars
    <3>2. /\ call'[g] = [at |-> "sending", req |-> call[g].req, to |-> c]
          /\ \A h \in Callers \ {g} : call'[h] = call[h]
      BY <1>1, <2>3, <2>10 DEF PicksSocket
    <3>3. Coming(ch) => Coming(ch)'
      <4>1. ASSUME NEW h \in Callers, call[h].at = "amended", AsksFor(call[h].req, ch) PROVE Coming(ch)'
        BY <2>2, <3>1, <3>2, <4>1 DEF Coming
      <4>2. ASSUME NEW h \in Callers, call[h].at = "sending", call[h].to = mine, AsksFor(call[h].req, ch)
            PROVE  Coming(ch)'
        BY <2>2, <3>1, <3>2, <4>2 DEF Coming
      <4> QED BY <3>1, <4>1, <4>2 DEF Coming
    <3> QED BY <2>6, <2>7, <3>1, <3>3
  <2>11. ASSUME NEW req \in Asked, Written(c, req), UNCHANGED <<held, denied, job, phase, desired>>
         PROVE  /\ AsksFor(req, ch) => Heeded(mine, ch)'
                /\ ~Drops(req, ch) /\ Heeded(c, ch) => Heeded(mine, ch)'
    <3>1. Open(c) /\ mine' = c
      BY <2>6, <2>11
    <3>2. up'[c] = Append(up[c], req) /\ up[c] \in Seq(Asked)
      BY <1>1, <2>3, <2>11, <3>1 DEF Written, Open
    <3>3. Granted(c, ch)' = Granted(c, ch)
      BY <2>11 DEF Granted
    <3>4. Heeded(c, ch)' => Heeded(mine, ch)'
      BY <3>1 DEF Heeded, Granted
    <3> QED BY <2>11, <3>2, <3>3, <3>4, WordAppended DEF Heeded
  <2>12. CASE Sends
    <3>1. /\ owed # <<>> /\ Head(owed).do = "send" /\ at' = at /\ Written(c, Head(owed).req)
          /\ UNCHANGED <<held, denied, job, phase, desired, doubtful, call>>
      BY <1>5, <2>2, <2>12 DEF Sends, SendFails, hubVars
    <3>2. Head(owed).req \in Asked /\ ~Drops(Head(owed).req, ch)
      BY <1>1, <3>1, OwedPlaces DEF Drops
    <3>3. Coming(ch) => AsksFor(Head(owed).req, ch) \/ Coming(ch)'
      BY <1>5, <3>1 DEF Coming
    <3> QED BY <2>6, <2>11, <3>1, <3>2, <3>3
  <2>13. ASSUME NEW g \in Callers, Writes(g) PROVE Coming(ch)' \/ Heeded(mine, ch)'
    <3>1. /\ call[g].at = "sending" /\ Written(call[g].to, call[g].req)
          /\ \A h \in Callers \ {g} : call'[h] = call[h]
          /\ UNCHANGED <<held, denied, job, phase, desired, doubtful, at, mine, owed>>
      BY <1>1, <2>13 DEF Writes, hubVars, runVars, sharedVars
    <3>2. call[g].req \in Asked
      <4>1. call[g] \in Calls
        BY <1>1
      <4> QED BY <3>1, <4>1, WantedAsked DEF Calls, NoCall
    <3>3. \/ Coming(ch) => Coming(ch)'
          \/ call[g].to = mine /\ AsksFor(call[g].req, ch)
      BY <3>1 DEF Coming
    <3>4. CASE call[g].to = c
      <4>1. ~Drops(call[g].req, ch)
        BY <2>2, <3>1, <3>4 DEF CallInv, Dropping, Drops
      <4> QED BY <2>6, <2>11, <3>1, <3>2, <3>3, <3>4, <4>1
    <3>5. CASE call[g].to # c
      <4>1. up'[c] = up[c]
        BY <1>1, <3>1, <3>5 DEF Written
      <4>2. Heeded(c, ch) => Heeded(mine, ch)'
        BY <1>5, <2>2, <3>1, <4>1 DEF Heeded, Granted
      <4> QED BY <2>2, <2>6, <3>1, <3>3, <3>5, <4>2
    <3> QED BY <3>4, <3>5
  <2>18. ASSUME NEW g \in Callers, WriteFails(g) PROVE Coming(ch)' \/ Heeded(mine, ch)'
    <3>1. /\ call[g].at = "sending" /\ \A h \in Callers \ {g} : call'[h] = call[h]
          /\ UNCHANGED <<held, denied, up, job, phase, desired, at, mine, owed>>
          /\ doubtful' = IF call[g].to = mine THEN doubtful \cup Sq!ToSet(call[g].req.channels) ELSE doubtful
      BY <1>1, <2>18 DEF WriteFails, gatewayVars, hubVars, connVars, runVars, sharedVars
    <3>2. ch \in desired \ doubtful
      BY <3>1
    <3>3. ~(call[g].to = mine /\ AsksFor(call[g].req, ch))
      BY <3>1 DEF AsksFor
    <3>4. Coming(ch) => Coming(ch)'
      BY <3>1, <3>3 DEF Coming
    <3> QED BY <2>6, <2>7, <3>1, <3>2, <3>4
  <2>14. CASE Adopts \/ Reads
    <3>1. UNCHANGED <<held, denied, up, job, phase, call, desired, doubtful>> /\ owed = <<>>
      BY <2>14 DEF Adopts, ServesFrom, Reads, gatewayVars, hubVars, connVars, sharedVars
    <3> QED BY <2>8, <3>1
  <2>15. CASE Emits \/ EmitFails
    <3>1. at # "applying"
      BY <1>1, <2>15, OwedPlaces DEF Emits, EmitFails
    <3>2. UNCHANGED <<held, denied, up, job, phase, call, desired, doubtful>>
      BY <2>15 DEF Emits, EmitFails, gatewayVars, hubVars, connVars
    <3> QED BY <2>8, <3>1, <3>2
  <2>16. CASE Takes \/ Closing \/ UNCHANGED streamGatewayVars
    <3>1. UNCHANGED <<held, denied, up, job, phase, call, desired, doubtful, at, owed>>
      BY <2>16 DEF Takes, Closing, Marks, Cancels, Hangs, Returns, streamGatewayVars, streamVars, runVars,
                   sharedVars, gatewayVars, hubVars, connVars
    <3> QED BY <2>8, <3>1
  <2>17. CASE \/ DialFails \/ GreetingFails \/ GreetedTooLate \/ Greeted \/ Retries \/ GivesUp
              \/ ReceiveFails \/ Ended \/ Refused
    BY <1>5, <2>17 DEF DialFails, GreetingFails, GreetedTooLate, Greeted, Installs, Retries, GivesUp,
                       ReceiveFails, Ended, Refused
  <2> QED BY <1>3, <2>5, <2>9, <2>10, <2>12, <2>13, <2>14, <2>15, <2>16, <2>17, <2>18
           DEF StreamNext, Running
<1> QED BY <1>1, <1>3, <1>4, <1>5, Whereabouts

\* Once nothing is under way, what is wanted was answered.
LEMMA LastWord == StreamTypeOK /\ WordInv => DesiredHeld
<1> SUFFICES ASSUME StreamTypeOK, WordInv, StreamSettled, NEW ch \in desired \ doubtful
             PROVE  ch \in held[mine] \cup denied[mine]
  BY DEF DesiredHeld
<1>1. /\ at = "serving" /\ (\A g \in Callers : call[g] = NoCall) /\ err = "none" /\ phase[mine] = "serving"
      /\ job[mine] = NoJob /\ up[mine] = <<>>
  BY DEF StreamSettled, Ready
<1>2. Heeded(mine, ch)
  BY <1>1 DEF WordInv, Open, Coming, NoCall
<1>3. ~Final(up[mine], ch)
  BY <1>1 DEF Final
<1> QED BY <1>1, <1>2, <1>3 DEF Heeded, Granted, NoJob

\* The invariant of the stream and the hub together.
StreamInv ==
    /\ HubInv /\ StreamTypeOK /\ CallTypes /\ AccountInv /\ SocketInv /\ CloserInv /\ OwnInv
    /\ CallInv /\ EarlyInv /\ GreetInv /\ WordInv

LEMMA StreamStarts == StreamInit => StreamInv
<1> SUFFICES ASSUME StreamInit PROVE StreamInv
  OBVIOUS
<1>1. GatewayInit
  BY DEF StreamInit
<1>2. HubInv
  BY <1>1, HubInit
<1>3. /\ phase = [c \in Conns |-> "idle"] /\ up = [c \in Conns |-> <<>>]
      /\ link = [c \in Conns |-> [seq |-> 0, queue |-> <<>>, wire |-> <<>>]]
  BY <1>1 DEF GatewayInit
<1>4. /\ at = "dialing" /\ mine = None /\ owed = <<>> /\ last = "none" /\ expect = 0 /\ pending = FALSE
      /\ attempt = 0 /\ born = FALSE /\ sock = None /\ desired \in SUBSET Restorable /\ err = "none"
      /\ cancelled = FALSE /\ shut = {} /\ events = <<>> /\ call = [g \in Callers |-> NoCall]
      /\ doubtful = {}
      /\ closer = [at |-> "no", holds |-> None]
  BY DEF StreamInit
<1>5. Len(events) = 0 /\ MaxAttempts \in Nat /\ Buffer \in Nat /\ None \notin Conns
  BY <1>4, StreamAssumption
<1>6. StreamTypeOK
  <2>1. attempt \in 0 .. MaxAttempts + 1 /\ Len(events) <= Buffer /\ expect \in Nat
    BY <1>4, <1>5
  <2>2. at \in Places /\ {last, err} \subseteq Failures
    BY <1>4 DEF Places, Failures
  <2> QED BY <1>4, <2>1, <2>2 DEF StreamTypeOK
<1>7. CallTypes
  BY <1>4, <1>5 DEF CallTypes, Calls, Stages
<1>8. AccountInv
  BY <1>4, <1>5 DEF AccountInv, OwedInv, NumbersAccounted, Apart
<1>9. SocketInv /\ CloserInv /\ OwnInv
  BY <1>3, <1>4, <1>5 DEF SocketInv, CloserInv, OwnInv, NoCall
<1>10. CallInv /\ EarlyInv /\ GreetInv /\ WordInv
  BY <1>3, <1>4 DEF CallInv, Dropping, EarlyInv, GreetInv, WordInv, NoCall
<1> QED BY <1>2, <1>6, <1>7, <1>8, <1>9, <1>10 DEF StreamInv

LEMMA StreamStep == StreamInv /\ [StreamNext]_streamGatewayVars => StreamInv'
<1> SUFFICES ASSUME StreamInv, [StreamNext]_streamGatewayVars PROVE StreamInv'
  OBVIOUS
<1>1. /\ HubInv /\ StreamTypeOK /\ CallTypes /\ AccountInv /\ OwedInv /\ SocketInv /\ CloserInv /\ OwnInv
      /\ CallInv /\ EarlyInv /\ GreetInv /\ WordInv /\ ConnTypes
  BY DEF StreamInv, AccountInv, HubInv, TypesInv
<1>2. HubInv' /\ StreamTypeOK' /\ CallTypes'
  BY <1>1, StreamHub, StreamTypes
<1>3. AccountInv' /\ SocketInv' /\ CloserInv' /\ OwnInv'
  BY <1>1, AccountStep, SocketStep, CloserStep
<1>4. CallInv' /\ EarlyInv' /\ GreetInv' /\ WordInv'
  BY <1>1, CallStep, EarlyStep, GreetStep, WordStep
<1> QED BY <1>2, <1>3, <1>4 DEF StreamInv

\* What the SDK promises of a stream, against any hub that behaves as ours does and
\* whatever the network drops: the sequence numbers it hands on leave no gap untold,
\* Close leaves no socket open and its own closing is not reported as a loss, and what
\* any number of callers subscribed to at once is held once nothing is under way, but
\* for a channel last subscribed while an Unsubscribe of it was under way, or in vain.
THEOREM StreamPromises == StreamSpec => []StreamCorrect
<1>1. StreamInv => StreamCorrect
  BY NotMistaken, NothingLeaks, LastWord DEF StreamInv, AccountInv, StreamCorrect
<1> QED BY <1>1, StreamStarts, StreamStep, PTL DEF StreamSpec
=============================================================================
