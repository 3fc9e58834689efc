------------------------------ MODULE Delivery ------------------------------
(***************************************************************************)
(* A consumer group over internal/platform/kafka/consumer.go: polling,      *)
(* handling in partition order, the commit of what was handled, and the     *)
(* rebalance callbacks.  What a handler does is left to the module that     *)
(* composes with it (Normalizer); here it succeeds or fails.                *)
(*                                                                          *)
(* The group coordinator is the broker's: it assigns partitions, and         *)
(* refuses a commit of a member it has dropped.  The client library blocks  *)
(* the callbacks from a poll to AllowRebalance (BlockRebalanceOnPoll).       *)
(***************************************************************************)
EXTENDS Naturals, Sequences, FiniteSets

CONSTANTS
    Members,
    Parts,
    LogLen,        \* records of each partition, all written already
    MaxPoll,       \* MaxPollRecords
    Undecodable,   \* records no build can decode: <<part, offset>>
    MaxTrouble,    \* bound: failures of handlers, commits, sessions and
                   \* processes, and orderly revocations
    Nobody

ASSUME DeliveryAssumption ==
    /\ LogLen \in Nat /\ MaxPoll \in Nat \ {0} /\ MaxTrouble \in Nat
    /\ Undecodable \subseteq Parts \X (1..LogLen)
    /\ Nobody \notin Members

VARIABLES
    policy,     \* ErrorPolicy, the same for every member
    committed,  \* the group's offset: records 1..committed[p] are done with
    holder,     \* the member the coordinator has given each partition to
    session,    \* what each member is to the coordinator, and to itself
    loop,       \* where Run is
    told,       \* the context of Run is cancelled
    next,       \* next offset to fetch of each partition, 0 if not assigned
    batch,      \* what the poll returned and is not handled
    marks,      \* partitionState.pending: newest handled, not committed; 0 if none
    tried,      \* records a handler was called for (history)
    done,       \* records a handler succeeded for, less those given up on since
                \* (history)
    faults,
    moves

groupVars == <<committed, holder, session>>
memberVars == <<loop, told, next, batch, marks>>
countVars == <<policy, faults, moves>>
deliveryVars == <<groupVars, memberVars, tried, done, countVars>>

Rec(p, n) == [part |-> p, offset |-> n]
Unassigned == [p \in Parts |-> 0]
Assigned(m) == {p \in Parts : next[m][p] > 0}

Troubled == faults + moves >= MaxTrouble
Faulty == ~Troubled /\ faults' = faults + 1
Faultless == UNCHANGED faults

-----------------------------------------------------------------------------
(* Commits *)

\* Variant: what was fetched is committed, as CommitUncommittedOffsets does.
Reached_Fetched(m, p) == IF next[m][p] > 0 THEN next[m][p] - 1 ELSE 0

\* The newest handled record of the partition, 0 if none is pending.
Reached(m, p) == marks[m][p]

\* The offsets once the coordinator has accepted the commit.
Accepted(m) == [p \in Parts |-> IF Reached(m, p) > 0 THEN Reached(m, p) ELSE committed[p]]

\* The marks of a member that forgets the partitions of ps.
Forgetting(m, ps) == [p \in Parts |-> IF p \in ps THEN 0 ELSE marks[m][p]]

\* commitPending, before the partitions of ps are forgotten: a commit that
\* succeeds clears the marks.  One that fails keeps them, whether the coordinator
\* refused it or took it and the answer was lost.
CommitsThenForgets(m, ps) ==
    \/ /\ session[m] = "in" \/ marks[m] = Unassigned
       /\ committed' = Accepted(m)
       /\ marks' = [marks EXCEPT ![m] = Unassigned]
       /\ Faultless
    \/ /\ session[m] # "in"
       /\ marks' = [marks EXCEPT ![m] = Forgetting(m, ps)]
       /\ UNCHANGED committed
       /\ Faultless
    \/ /\ marks[m] # Unassigned
       /\ committed' \in {committed, IF session[m] = "in" THEN Accepted(m) ELSE committed}
       /\ marks' = [marks EXCEPT ![m] = Forgetting(m, ps)]
       /\ Faulty

Commits(m) == CommitsThenForgets(m, {})

-----------------------------------------------------------------------------
(* The group *)

\* A process starts, and its client asks to join.
Starts(m) ==
    /\ session[m] = "down"
    /\ session' = [session EXCEPT ![m] = "out"]
    /\ UNCHANGED <<committed, holder, memberVars, tried, done, countVars>>

\* The coordinator gives a free partition; the client fetches from the group's
\* offset (onAssigned keeps no marks).
Assigns(m, p) ==
    /\ holder[p] = Nobody
    /\ session[m] \in {"out", "in"}
    /\ loop[m] = "poll"
    /\ holder' = [holder EXCEPT ![p] = m]
    /\ session' = [session EXCEPT ![m] = "in"]
    /\ next' = [next EXCEPT ![m][p] = committed[p] + 1]
    /\ UNCHANGED <<committed, loop, told, batch, marks, tried, done, countVars>>

\* Where the callbacks may run: not between a poll and AllowRebalance.
CallbacksAllowed(m) == loop[m] \in {"poll", "failed", "closing"}

\* onRevoked: commit everything pending while the partition is still owned, then
\* forget the partition.
Revokes(m, p) ==
    /\ holder[p] = m
    /\ session[m] = "in"
    /\ CallbacksAllowed(m)
    /\ ~Troubled /\ moves' = moves + 1
    /\ CommitsThenForgets(m, {p})
    /\ next' = [next EXCEPT ![m][p] = 0]
    /\ holder' = [holder EXCEPT ![p] = Nobody]
    /\ UNCHANGED <<policy, session, loop, told, batch, tried, done>>

\* The session expires: the coordinator drops the member, which does not know.
Expires(m) ==
    /\ session[m] = "in"
    /\ Faulty
    /\ session' = [session EXCEPT ![m] = "dropped"]
    /\ holder' = [p \in Parts |-> IF holder[p] = m THEN Nobody ELSE holder[p]]
    /\ UNCHANGED <<policy, moves, committed, memberVars, tried, done>>

\* Variant: the partitions go and the marks stay.
Loses_KeepsMarks(m) ==
    /\ session[m] = "dropped"
    /\ CallbacksAllowed(m)
    /\ session' = [session EXCEPT ![m] = "out"]
    /\ next' = [next EXCEPT ![m] = Unassigned]
    /\ UNCHANGED <<committed, holder, loop, told, batch, marks, tried, done, countVars>>

\* onLost: nothing is committed, everything forgotten.
Loses(m) ==
    /\ session[m] = "dropped"
    /\ CallbacksAllowed(m)
    /\ session' = [session EXCEPT ![m] = "out"]
    /\ next' = [next EXCEPT ![m] = Unassigned]
    /\ marks' = [marks EXCEPT ![m] = Unassigned]
    /\ UNCHANGED <<committed, holder, loop, told, batch, tried, done, countVars>>

-----------------------------------------------------------------------------
(* Run *)

\* The records of the assigned partitions from the next to fetch up to upto.
Fetchable(m, upto) ==
    {rec \in [part : Assigned(m), offset : 1..LogLen] :
        next[m][rec.part] <= rec.offset /\ rec.offset < upto[rec.part]}

\* PollRecords: up to MaxPoll records, partition by partition and each in order.
Polls(m) ==
    /\ loop[m] = "poll"
    /\ session[m] # "down" /\ ~told[m]
    /\ \E upto \in [Assigned(m) -> 1..LogLen + 1], n \in 1..MaxPoll :
        /\ \A p \in Assigned(m) : next[m][p] <= upto[p]
        /\ Cardinality(Fetchable(m, upto)) = n
        /\ \E recs \in [1..n -> Fetchable(m, upto)] :
            /\ {recs[i] : i \in 1..n} = Fetchable(m, upto)
            /\ \A i, j \in 1..n : i < j /\ recs[i].part = recs[j].part =>
                  recs[j].offset = recs[i].offset + (j - i)
            /\ batch' = [batch EXCEPT ![m] = recs]
        /\ next' = [next EXCEPT ![m] =
                       [p \in Parts |-> IF p \in Assigned(m) THEN upto[p] ELSE 0]]
    /\ loop' = [loop EXCEPT ![m] = "handle"]
    /\ UNCHANGED <<groupVars, told, marks, tried, done, countVars>>

Handling(m) == loop[m] = "handle" /\ batch[m] # <<>>
Current(m) == Head(batch[m])
Decodable(rec) == <<rec.part, rec.offset>> \notin Undecodable

\* mark, with the record dealt with.
Advances(m, rec) ==
    /\ marks' = [marks EXCEPT ![m][rec.part] = IF rec.offset > @ THEN rec.offset ELSE @]
    /\ batch' = [batch EXCEPT ![m] = Tail(@)]
    /\ UNCHANGED loop

With(sets, rec) == [sets EXCEPT ![rec.part] = @ \cup {rec.offset}]
Without(sets, rec) == [sets EXCEPT ![rec.part] = @ \ {rec.offset}]

\* handleRecord, when the record could be decoded and the handler succeeded.
Succeeds(m) ==
    /\ Handling(m) /\ Decodable(Current(m))
    /\ Advances(m, Current(m))
    /\ tried' = With(tried, Current(m)) /\ done' = With(done, Current(m))
    /\ UNCHANGED <<groupVars, told, next, countVars>>

\* Variant: a failure is an end only of the batch.
Stops_Advancing(m, rec) ==
    /\ marks' = [marks EXCEPT ![m][rec.part] = IF rec.offset > @ THEN rec.offset ELSE @]
    /\ batch' = [batch EXCEPT ![m] = <<>>]
    /\ loop' = [loop EXCEPT ![m] = "erring"]

\* The end of the batch at a failure, under ErrorPolicyStop.
Stops(m, rec) ==
    /\ batch' = [batch EXCEPT ![m] = <<>>]
    /\ loop' = [loop EXCEPT ![m] = "erring"]
    /\ UNCHANGED marks

\* handleRecord, when it could not be decoded or the handler failed.
Declined(m) ==
    /\ tried' = With(tried, Current(m))
    /\ IF policy = "stop"
         THEN Stops(m, Current(m)) /\ UNCHANGED done
         ELSE Advances(m, Current(m)) /\ done' = Without(done, Current(m))
    /\ UNCHANGED <<groupVars, told, next, policy, moves>>

\* A handler fails for good reason, or because its context is cancelled.
Fails(m) ==
    /\ Handling(m)
    /\ Declined(m)
    /\ IF ~Decodable(Current(m)) \/ told[m] THEN Faultless ELSE Faulty

\* handleFetches: the commit at the end of a batch, then AllowRebalance.
CommitsBatch(m) ==
    /\ loop[m] \in {"handle", "erring"}
    /\ batch[m] = <<>>
    /\ Commits(m)
    /\ loop' = [loop EXCEPT ![m] = IF loop[m] = "erring" THEN "failed" ELSE "poll"]
    /\ UNCHANGED <<policy, moves, holder, session, told, next, batch, tried, done>>

\* Run's own commit, after a failure or when it is told to stop.
CommitsLast(m) ==
    /\ session[m] # "down"
    /\ loop[m] = "failed" \/ (loop[m] = "poll" /\ told[m])
    /\ Commits(m)
    /\ loop' = [loop EXCEPT ![m] = "closing"]
    /\ UNCHANGED <<policy, moves, holder, session, told, next, batch, tried, done>>

\* Variant: the client is closed without leaving the group.
Fresh_Stays(m) ==
    /\ session' = [session EXCEPT ![m] = "down"]
    /\ loop' = [loop EXCEPT ![m] = "poll"]
    /\ told' = [told EXCEPT ![m] = FALSE]
    /\ next' = [next EXCEPT ![m] = Unassigned]
    /\ batch' = [batch EXCEPT ![m] = <<>>]
    /\ UNCHANGED holder

\* A process that is gone: its partitions are free.
Fresh(m) ==
    /\ session' = [session EXCEPT ![m] = "down"]
    /\ holder' = [p \in Parts |-> IF holder[p] = m THEN Nobody ELSE holder[p]]
    /\ loop' = [loop EXCEPT ![m] = "poll"]
    /\ told' = [told EXCEPT ![m] = FALSE]
    /\ next' = [next EXCEPT ![m] = Unassigned]
    /\ batch' = [batch EXCEPT ![m] = <<>>]

\* Close: leaving the group revokes what is left, and commits once more.
Closes(m) ==
    /\ loop[m] = "closing"
    /\ CommitsThenForgets(m, Parts)
    /\ Fresh(m)
    /\ UNCHANGED <<policy, moves, tried, done>>

\* The process is told to stop, or is gone; the coordinator notices sooner or
\* later, and nothing depends on when.
Tells(m) ==
    /\ session[m] # "down" /\ ~told[m]
    /\ Faulty
    /\ told' = [told EXCEPT ![m] = TRUE]
    /\ UNCHANGED <<policy, moves, groupVars, loop, next, batch, marks, tried, done>>

Crashes(m) ==
    /\ session[m] # "down"
    /\ Faulty
    /\ Fresh(m)
    /\ marks' = [marks EXCEPT ![m] = Unassigned]
    /\ UNCHANGED <<policy, moves, committed, tried, done>>

DeliveryInit ==
    /\ policy \in {"stop", "skip"}
    /\ committed = [p \in Parts |-> 0]
    /\ holder = [p \in Parts |-> Nobody]
    /\ session = [m \in Members |-> "down"]
    /\ loop = [m \in Members |-> "poll"]
    /\ told = [m \in Members |-> FALSE]
    /\ next = [m \in Members |-> Unassigned]
    /\ batch = [m \in Members |-> <<>>]
    /\ marks = [m \in Members |-> Unassigned]
    /\ tried = [p \in Parts |-> {}] /\ done = tried
    /\ faults = 0 /\ moves = 0

\* What changes no more than who holds what.
Group(m) == Starts(m) \/ Expires(m) \/ Loses(m) \/ Tells(m)
              \/ \E p \in Parts : Assigns(m, p) \/ Revokes(m, p)
Looping(m) == Polls(m) \/ CommitsBatch(m) \/ CommitsLast(m)

DeliveryNext ==
    \E m \in Members : Group(m) \/ Looping(m) \/ Succeeds(m) \/ Fails(m) \/ Closes(m) \/ Crashes(m)

DeliverySpec == DeliveryInit /\ [][DeliveryNext]_deliveryVars

-----------------------------------------------------------------------------
(* Properties *)

Offsets == 0..LogLen

\* The type of the group's and the members' state.
DeliveryTypeOK ==
    /\ policy \in {"stop", "skip"}
    /\ committed \in [Parts -> Offsets]
    /\ holder \in [Parts -> Members \cup {Nobody}]
    /\ session \in [Members -> {"down", "out", "in", "dropped"}]
    /\ loop \in [Members -> {"poll", "handle", "erring", "failed", "closing"}]
    /\ next \in [Members -> [Parts -> 0..LogLen + 1]]
    /\ marks \in [Members -> [Parts -> Offsets]]
    /\ \A m \in Members : Len(batch[m]) <= MaxPoll
    /\ \A p \in Parts : holder[p] # Nobody => next[holder[p]][p] > 0

\* At least once: whoever crashes, expires or is revoked between a poll and a
\* commit, no offset is committed past a record no handler was called for, nor,
\* where a failure stops the consumer, past one whose handler failed (mark,
\* pendingRecords, commitPending).
NothingSkipped ==
    \A p \in Parts : \A n \in 1..committed[p] :
        n \in IF policy = "stop" THEN done[p] ELSE tried[p]

\* What is promised of a group at any moment.
DeliveryCorrect == DeliveryTypeOK /\ NothingSkipped

\* No commit of a member that lost a partition rewinds what its new owner
\* committed (onLost, forget, mark).
CommitsNeverRewind ==
    [][\A p \in Parts : committed'[p] >= committed[p]]_deliveryVars

\* A record whose handler failed is not committed, so it is redelivered.
FailuresRedelivered ==
    \A p \in Parts : \A n \in 1..committed[p] : Decodable(Rec(p, n)) => n \in done[p]
=============================================================================
