------------------------------- MODULE Replay -------------------------------
(***************************************************************************)
(* The two groupless readers of a compacted topic in                        *)
(* internal/platform/kafka: the Follower, which replays the log and then     *)
(* stays on it, and the Snapshotter, which stops at the offsets it listed    *)
(* when it began. Both fold records by key; both call themselves complete    *)
(* when every partition has reached its listed end.                         *)
(*                                                                         *)
(* The broker appends, and removes a record once a later one of its key is   *)
(* there. Tombstones and whole segments swept earlier are in the log a run   *)
(* begins with (delete.retention.ms is far above the replay's budget).       *)
(* Offsets count from 1: record i of a log has offset i.                     *)
(***************************************************************************)
EXTENDS Naturals, Sequences, FiniteSets, FiniteSetsExt

CONSTANTS
    Partitions,
    Topics,       \* the logs a run may begin with
    Fresh,        \* per partition: the records of its keys that may be appended
    Keys,
    MaxLog,       \* BOUND: records of one partition
    MaxPoll,      \* maxPollRecords
    Swept         \* what is left of a record that was removed

LogRecords == [key : Keys, garbled : BOOLEAN]

\* The producer's partitioner gives a key to one partition, always the same.
KeysApart(home) ==
    \A p \in Partitions :
        /\ \A r \in Fresh[p] : home[r.key] = p
        /\ \A t \in Topics : \A i \in DOMAIN t.log[p] : t.log[p][i] # Swept => home[t.log[p][i].key] = p

ASSUME ReplayAssumption ==
    /\ MaxLog \in Nat /\ MaxPoll \in Nat \ {0}
    /\ Swept \notin LogRecords
    /\ \A p \in Partitions : Fresh[p] \subseteq LogRecords
    /\ \A t \in Topics :
          /\ t.log \in [Partitions -> Seq(LogRecords \cup {Swept})] /\ t.start \in [Partitions -> Nat \ {0}]
          /\ \A p \in Partitions : /\ t.start[p] <= Len(t.log[p]) + 1
                                  /\ \A i \in 1 .. t.start[p] - 1 : t.log[p][i] = Swept
    /\ \E home \in [Keys -> Partitions] : KeysApart(home)

VARIABLES
    reader,       \* follower or snapshot, and its ErrorPolicy
    exists,       \* the topic has been created
    log,          \* per partition: the records, Swept ones among them
    start,        \* per partition: the log start offset
    at,           \* list, starts, poll, batch or returned
    outcome,      \* of a run that returned: clean, deadline or failed
    next,         \* per partition: the offset still to be read
    target,       \* per partition: where it must reach
    cursor,       \* per partition: where the client fetches
    batch,        \* per partition: the records a poll returned that are not handled
    caught,       \* CaughtUp is closed, or the snapshot is complete
    expired,      \* the catch-up deadline has passed
    stopped,      \* the caller's context is cancelled, or Close was called
    seen,         \* ghost: per key, the offset last handed to the handler
    owed,         \* ghost: per key, its last record when the ends were listed
    dropped,      \* ghost: keys a record of which failed and was tolerated
    waited        \* ghost: the deadline passed before the topic was created

brokerVars == <<exists, log, start>>
runVars == <<at, outcome, next, target, cursor, batch, caught>>
ghostVars == <<seen, owed, dropped, waited>>
replayVars == <<reader, brokerVars, runVars, expired, stopped, ghostVars>>

Follower == reader.kind = "follower"
There(p) == {i \in DOMAIN log[p] : log[p][i] # Swept}
OffsetsOf(k, p) == {i \in There(p) : log[p][i].key = k}
Latest(S) == IF S = {} THEN 0 ELSE CHOOSE i \in S : \A j \in S : j <= i

----------------------------------------------------------------------------
ReplayInit ==
    /\ reader \in [kind : {"follower"}, policy : {"stop", "skip"}]
                    \cup [kind : {"snapshot"}, policy : {"stop"}]
    /\ exists \in BOOLEAN
    /\ \E t \in Topics : log = t.log /\ start = t.start
    /\ exists \/ log = [p \in Partitions |-> <<>>]
    /\ at = "list" /\ outcome = "none"
    /\ next = [p \in Partitions |-> 0] /\ target = [p \in Partitions |-> 0]
    /\ cursor = [p \in Partitions |-> 0]
    /\ batch = [p \in Partitions |-> {}]
    /\ caught = FALSE /\ expired = FALSE /\ stopped = FALSE
    /\ seen = [k \in Keys |-> 0] /\ owed = [k \in Keys |-> 0]
    /\ dropped = {} /\ waited = FALSE

\* BOUND: nothing happens to a log any more once the run has returned.
On == at # "returned"

\* Terraform creates the topic, which nothing sequences against the start.
Created ==
    /\ ~exists /\ exists' = TRUE /\ On
    /\ UNCHANGED <<reader, log, start, runVars, expired, stopped, ghostVars>>

Appends(p, r) ==
    /\ exists /\ Len(log[p]) < MaxLog /\ On
    /\ log' = [log EXCEPT ![p] = Append(@, r)]
    /\ UNCHANGED <<reader, exists, start, runVars, expired, stopped, ghostVars>>

Compacts(p, i) ==
    /\ i \in There(p) /\ On
    /\ \E j \in There(p) : j > i /\ log[p][j].key = log[p][i].key
    /\ log' = [log EXCEPT ![p][i] = Swept]
    /\ UNCHANGED <<reader, exists, start, runVars, expired, stopped, ghostVars>>

\* The deadline is set when the run begins; completeCatchUp releases it.
DeadlinePasses ==
    /\ ~caught /\ ~expired /\ On
    /\ expired' = TRUE /\ waited' = ~exists
    /\ UNCHANGED <<reader, brokerVars, runVars, stopped, seen, owed, dropped>>

Stops ==
    /\ ~stopped /\ stopped' = TRUE /\ On
    /\ UNCHANGED <<reader, brokerVars, runVars, expired, ghostVars>>

----------------------------------------------------------------------------
(* A run.                                                                   *)

Returns(result) == at' = "returned" /\ outcome' = result
Running == UNCHANGED <<reader, brokerVars, expired, stopped, waited>>

\* A stop is a clean end of a follower, and an error of a snapshot read.
Stopping == Returns(IF Follower THEN "clean" ELSE "failed")

Complete(n, t) == \A p \in Partitions : t[p] <= n[p]

\* awaitCatchUpTargets: the topic that is not there yet is waited for, by a
\* follower. Both listings run under the replay's deadline.
ListsEnds ==
    /\ at = "list" /\ exists /\ ~expired /\ ~stopped
    /\ at' = "starts"
    /\ target' = [p \in Partitions |-> Len(log[p]) + 1]
    /\ owed' = [k \in Keys |-> Latest(UNION {OffsetsOf(k, p) : p \in Partitions})]
    /\ UNCHANGED <<outcome, next, cursor, batch, caught, seen, dropped>> /\ Running

\* An empty topic is complete before the first poll.
ListsStarts ==
    /\ at = "starts" /\ ~expired /\ ~stopped
    /\ next' = start
    /\ cursor' = start
    /\ caught' = Complete(start, target)
    /\ IF caught' /\ ~Follower THEN Returns("clean") ELSE at' = "poll" /\ UNCHANGED outcome
    /\ UNCHANGED <<target, batch, seen, owed, dropped>> /\ Running

ListingFails ==
    /\ at \in {"list", "starts"}
    /\ \/ expired /\ ~stopped /\ Returns("deadline")
       \/ stopped /\ Stopping
       \/ ~exists /\ ~Follower /\ ~expired /\ ~stopped /\ Returns("failed")
       \/ exists /\ ~expired /\ ~stopped /\ Returns("failed")
    /\ UNCHANGED <<next, target, cursor, batch, caught, seen, owed, dropped>> /\ Running

\* A poll takes the next records of any of the partitions, maxPollRecords in
\* all. A batch keeps its records though the log should lose them meanwhile.
Ahead(p) == {i \in There(p) : i >= cursor[p]}
Taken(p, upto) == {[offset |-> i, record |-> log[p][i]] : i \in Ahead(p) \cap 1 .. upto}

Polls ==
    /\ at = "poll" /\ ~stopped /\ (caught \/ ~expired)
    /\ \E upto \in [Partitions -> 0 .. MaxLog] :
          /\ \A p \in Partitions : upto[p] \in Ahead(p) \cup {0}
          /\ MapThenSumSet(LAMBDA p : Cardinality(Ahead(p) \cap 1 .. upto[p]), Partitions) \in 1 .. MaxPoll
          /\ batch' = [p \in Partitions |-> Taken(p, upto[p])]
          /\ cursor' = [p \in Partitions |-> IF upto[p] = 0 THEN cursor[p] ELSE upto[p] + 1]
    /\ at' = "batch"
    /\ UNCHANGED <<outcome, next, target, caught, seen, owed, dropped>> /\ Running

\* Before and after every poll; a batch that came with the deadline is dropped.
PollEnds ==
    /\ at = "poll"
    /\ \/ stopped /\ Stopping
       \/ ~stopped /\ ~caught /\ expired /\ Returns("deadline")
    /\ UNCHANGED <<next, target, cursor, batch, caught, seen, owed, dropped>> /\ Running

\* Variant: a follower too leaves out what came after the listing.
Chased_ByBoth(p, o) == o >= target[p]

\* A snapshot does not chase what was appended after the listing; a follower
\* delivers it.
Chased(p, o) == ~Follower /\ o >= target[p]

\* Until the replay is complete the policy has no say.
Tolerated == caught /\ reader.policy = "skip"

\* handleRecord for record r at offset o of a partition, and what its caller does with
\* the answer.
HandlesRecord(p, o, r) ==
    \/ /\ Chased(p, o)
       /\ UNCHANGED <<at, outcome, seen, next, dropped>>
    \/ /\ ~Chased(p, o) /\ ~r.garbled
       /\ seen' = [seen EXCEPT ![r.key] = o]
       /\ next' = IF caught THEN next ELSE [next EXCEPT ![p] = o + 1]
       /\ UNCHANGED <<at, outcome, dropped>>
    \/ /\ ~Chased(p, o)                       \* it will not decode, or its handler fails
       /\ IF Tolerated THEN dropped' = dropped \cup {r.key} /\ UNCHANGED <<at, outcome>>
          ELSE Returns("failed") /\ UNCHANGED dropped
       /\ UNCHANGED <<seen, next>>

\* In the order of the offsets. The partitions of a batch share nothing, so their order
\* is left open.
Handles(p) ==
    /\ at = "batch"
    /\ \E b \in batch[p] :
          /\ \A c \in batch[p] : b.offset <= c.offset
          /\ batch' = [batch EXCEPT ![p] = @ \ {b}]
          /\ HandlesRecord(p, b.offset, b.record)
    /\ UNCHANGED <<target, cursor, caught, owed>> /\ Running

Handled == \A p \in Partitions : batch[p] = {}

BatchEnds ==
    /\ at = "batch" /\ Handled
    /\ caught' = (caught \/ Complete(next, target))
    /\ IF caught' /\ ~Follower THEN Returns("clean") ELSE at' = "poll" /\ UNCHANGED outcome
    /\ UNCHANGED <<next, target, cursor, batch, seen, owed, dropped>> /\ Running

ReplayNext ==
    \/ Created
    \/ \E p \in Partitions : \/ \E r \in Fresh[p] : Appends(p, r)
                             \/ \E i \in 1 .. MaxLog : Compacts(p, i)
                             \/ Handles(p)
    \/ DeadlinePasses \/ Stops
    \/ ListsEnds \/ ListsStarts \/ ListingFails \/ Polls \/ PollEnds \/ BatchEnds

ReplaySpec == ReplayInit /\ [][ReplayNext]_replayVars

----------------------------------------------------------------------------
ReplayTypeOK ==
    /\ at \in {"list", "starts", "poll", "batch", "returned"}
    /\ outcome \in {"none", "clean", "deadline", "failed"}
    /\ (at = "returned") = (outcome # "none")
    /\ \A p \in Partitions :
          /\ cursor[p] \in 0 .. Len(log[p]) + 1
          /\ \A b \in batch[p] : b.offset < cursor[p]

InBatch(k, p) == {b.offset : b \in {c \in batch[p] : c.record.key = k}}

\* A replica that says it has caught up lacks nothing that was in the topic when
\* it began: each key's record of then, or a later one, has been handled, or has
\* been compacted away in favour of one that was appended since and is still to be
\* fetched or handled (or that failed afterwards, under a policy that tolerates it).
SlateWhole ==
    (Follower /\ caught /\ outcome \in {"none", "clean"}) =>
        \A k \in Keys : \/ seen[k] >= owed[k] \/ k \in dropped
                       \/ \E p \in Partitions : \E o \in OffsetsOf(k, p) :
                             o >= target[p] /\ (o \in Ahead(p) \/ o \in InBatch(k, p))

\* There is no seam between the replay and the live tail: but for what
\* failed and was tolerated, nothing that is in the log behind the reader's position was
\* passed over, whether it was there at the listing or came during the replay.
NoSeam ==
    (Follower /\ outcome \in {"none", "clean"}) =>
        \A p \in Partitions : \A o \in There(p) :
            (o < cursor[p] /\ log[p][o].key \notin dropped) =>
                seen[log[p][o].key] >= o \/ o \in InBatch(log[p][o].key, p)

\* A snapshot read that succeeds has, for each key, what the topic held when it
\* began, and nothing newer; a key it lacks has a record at or past the ends it
\* listed, which the ordinary consumer will bring.
SnapshotSound ==
    (~Follower /\ outcome = "clean") =>
        \A p \in Partitions, k \in Keys :
            OffsetsOf(k, p) # {} =>
                /\ seen[k] < target[p]
                /\ seen[k] >= owed[k] \/ \E o \in OffsetsOf(k, p) : o >= target[p]

\* What is promised of either reader at any moment.
ReplayCorrect == ReplayTypeOK /\ SlateWhole /\ NoSeam /\ SnapshotSound

\* "The catch-up budget does not start until the topic exists" (follower.go):
\* a follower whose run ends for its deadline had the topic when it passed.
WaitIsFree == (Follower /\ outcome = "deadline") => ~waited
=============================================================================
