----------------------------- MODULE Normalizer -----------------------------
(***************************************************************************)
(* The change detector of internal/ingest/normalizer as the handler of a    *)
(* consumer group (Delivery): odds.raw in, the compacted odds.normalized     *)
(* out.  A raw record is one event; each of its markets has a content and    *)
(* the instant it was observed at, which grows with the offset.  Records     *)
(* the handler drops without an error (a tombstone, a payload it cannot      *)
(* map) change nothing and are left out.                                     *)
(***************************************************************************)
EXTENDS Delivery

CONSTANTS
    MarketsOf,   \* the markets of the events keyed to each partition
    Contents,
    Raw,         \* Raw[p][n][k]: content of market k in the n-th record of p
    MaxWarm      \* WarmStartAttempts

AllMarkets == UNION {MarketsOf[p] : p \in Parts}

\* An entry of the topic: the content of a market, and the record it is of.
Entries == [fp : Contents, obs : 1..LogLen]

ASSUME NormalizerAssumption ==
    /\ MaxWarm \in Nat \ {0}
    /\ Nobody \notin Entries
    /\ \A p, q \in Parts : p # q => MarketsOf[p] \cap MarketsOf[q] = {}
    /\ \A p \in Parts : Raw[p] \in [1..LogLen -> [MarketsOf[p] -> Contents]]

VARIABLES
    latest,     \* odds.normalized: the newest record of each market
    trail,      \* every record of it: the cleaner need not have removed any
    memory,     \* each process's MemoryStore
    attempts,   \* warmAttempts
    warmed,     \* ensureWarm is over with
    ready,      \* ensureWarm was called for the record at hand
    cold,       \* some process handled a record without a complete read (history)
    behind,     \* markets this process's memory is overtaken on: another process
                \* published since, or a read that failed got to an older record
                \* (history)
    unsure      \* markets a process decided about while it could not judge, or whose
                \* failed publication reached the topic (history)

processVars == <<memory, attempts, warmed, ready>>
normalizerVars == <<latest, trail, processVars, cold, behind, unsure>>
feedVars == <<deliveryVars, normalizerVars>>

Entry(fp, obs) == [fp |-> fp, obs |-> obs]
NoMemory == [k \in AllMarkets |-> Nobody]

\* The entry a market of a raw record becomes.
ViewOf(rec, k) == Entry(Raw[rec.part][rec.offset][k], rec.offset)

-----------------------------------------------------------------------------
(* Warm start *)

\* Variant: the records of the topic are counted, not remembered.
Absorbed_Counted(m, read) == memory[m]

\* absorb, for each market the last record of it that the read got to.
Absorbed(m, read) ==
    [k \in AllMarkets |-> IF read[k] = Nobody THEN memory[m][k] ELSE read[k]]

\* The markets m is behind on after such a read.
Overtaken(m, read) ==
    {k \in AllMarkets : IF read[k] = Nobody THEN k \in behind[m] ELSE read[k] # latest[k]}

\* A read that fails has gone some way through a topic that is not compacted yet.
Partial(read) == \A k \in AllMarkets : read[k] \in trail[k] \cup {Nobody}

\* ensureWarm: a read of the topic that gets to its end, or one that fails on the
\* way and is tried again with the next record until the budget is spent.
Warms(m) ==
    /\ Handling(m) /\ Decodable(Current(m))
    /\ ~warmed[m] /\ ~ready[m]
    /\ ready' = [ready EXCEPT ![m] = TRUE]
    /\ attempts' = [attempts EXCEPT ![m] = @ + 1]
    /\ \/ /\ memory' = [memory EXCEPT ![m] = Absorbed(m, latest)]
          /\ warmed' = [warmed EXCEPT ![m] = TRUE]
          /\ behind' = [behind EXCEPT ![m] = {}]
          /\ UNCHANGED cold
       \/ /\ \E read \in [AllMarkets -> Entries \cup {Nobody}] :
                /\ Partial(read)
                /\ memory' = [memory EXCEPT ![m] = Absorbed(m, read)]
                /\ behind' = [behind EXCEPT ![m] = Overtaken(m, read)]
          /\ warmed' = [warmed EXCEPT ![m] = attempts[m] + 1 >= MaxWarm]
          /\ cold' = TRUE
    /\ UNCHANGED <<deliveryVars, latest, trail, unsure>>

Prepared(m) == Handling(m) /\ (warmed[m] \/ ready[m])

-----------------------------------------------------------------------------
(* emit *)

\* Variant: an older observation is not noticed.
Stale_Unnoticed(held, view) == FALSE

\* An observation older than the one last published is not published.
Stale(held, view) == held # Nobody /\ view.obs < held.obs

Unchanged(held, view) == held # Nobody /\ held.fp = view.fp

\* Markets of a record m publishes, and those it may: unchanged, but perhaps
\* past the refresh ceiling.
Fresher(m, rec) == {k \in MarketsOf[rec.part] : ~Stale(memory[m][k], ViewOf(rec, k))}
Moved(m, rec) == {k \in Fresher(m, rec) : ~Unchanged(memory[m][k], ViewOf(rec, k))}
Publications(m, rec) == {ks \in SUBSET Fresher(m, rec) : Moved(m, rec) \subseteq ks}

\* Markets of a record m cannot judge: those it is behind on and, once the group has
\* dropped it, those of a record its successor gave up on, and those the topic has
\* and its reads of it did not get to.
Misjudged(m, rec) ==
    {k \in MarketsOf[rec.part] :
        \/ k \in behind[m]
        \/ session[m] = "dropped" /\ (\/ memory[m][k] # latest[k]
                                     \/ rec.offset \in tried[rec.part] \ done[rec.part])}

\* The views of ks reach the topic.
Appends(rec, ks) ==
    /\ latest' = [k \in AllMarkets |-> IF k \in ks THEN ViewOf(rec, k) ELSE latest[k]]
    /\ trail' = [k \in AllMarkets |->
                     IF k \in ks THEN trail[k] \cup {ViewOf(rec, k)} ELSE trail[k]]

\* The views of ks reach the topic, and m remembers those of known.
Publishes(m, rec, ks, known) ==
    /\ Appends(rec, ks)
    /\ memory' = [memory EXCEPT ![m] =
                     [k \in AllMarkets |-> IF k \in known THEN ViewOf(rec, k) ELSE @[k]]]
    /\ behind' = [n \in Members |->
                     IF n = m THEN behind[n] \ known
                     ELSE IF session[n] = "down" THEN {} ELSE behind[n] \cup ks]
    /\ unsure' = unsure \cup (ks \ known) \cup Misjudged(m, rec)
    /\ ready' = [ready EXCEPT ![m] = FALSE]
    /\ UNCHANGED <<attempts, warmed, cold>>

\* HandleMessage, every market of the record suppressed or published.
Normalizes(m) ==
    /\ Prepared(m)
    /\ Succeeds(m)
    /\ \E ks \in Publications(m, Current(m)) : Publishes(m, Current(m), ks, ks)

\* Variant: a publication that failed is logged and the handler goes on.
Breaks_Swallowed(m) ==
    /\ Prepared(m)
    /\ Succeeds(m)
    /\ \E ks \in Publications(m, Current(m)) : \E sent \in SUBSET ks :
        Publishes(m, Current(m), sent, sent)

\* HandleMessage stops at a publication that fails, or whose answer is lost.
Breaks(m) ==
    /\ Prepared(m)
    /\ Decodable(Current(m))
    /\ Fails(m)
    /\ \E ks \in Publications(m, Current(m)) : \E sent \in SUBSET ks, f \in ks :
        /\ f \notin sent
        /\ \/ Publishes(m, Current(m), sent, sent)
           \/ Publishes(m, Current(m), sent \cup {f}, sent)

\* The process of m is gone, with its memory.
Forgets(m) ==
    /\ memory' = [memory EXCEPT ![m] = NoMemory]
    /\ attempts' = [attempts EXCEPT ![m] = 0]
    /\ warmed' = [warmed EXCEPT ![m] = FALSE]
    /\ ready' = [ready EXCEPT ![m] = FALSE]

\* A crash, perhaps in the middle of a record and behind some of its publications.
Dies(m) ==
    /\ Crashes(m)
    /\ Forgets(m)
    /\ UNCHANGED cold
    /\ \/ /\ UNCHANGED <<latest, trail, unsure>>
          /\ behind' = [behind EXCEPT ![m] = {}]
       \/ /\ Prepared(m) /\ Decodable(Current(m))
          /\ \E ks \in Publications(m, Current(m)) : \E sent \in SUBSET ks :
              /\ sent # {}
              /\ Appends(Current(m), sent)
              /\ behind' = [n \in Members |->
                              IF n = m \/ session[n] = "down" THEN {} ELSE behind[n] \cup sent]
              /\ unsure' = unsure \cup Misjudged(m, Current(m))

NormalizerInit ==
    /\ DeliveryInit
    /\ latest = NoMemory
    /\ trail = [k \in AllMarkets |-> {}]
    /\ memory = [m \in Members |-> NoMemory]
    /\ attempts = [m \in Members |-> 0]
    /\ warmed = [m \in Members |-> FALSE] /\ ready = warmed
    /\ cold = FALSE
    /\ behind = [m \in Members |-> {}]
    /\ unsure = {}

NormalizerNext ==
    \E m \in Members :
        \/ Group(m) /\ UNCHANGED normalizerVars
        \/ Looping(m) /\ UNCHANGED normalizerVars
        \/ Fails(m) /\ ~Decodable(Current(m)) /\ UNCHANGED normalizerVars
        \/ Warms(m)
        \/ Normalizes(m)
        \/ Breaks(m)
        \/ Closes(m) /\ Forgets(m) /\ behind' = [behind EXCEPT ![m] = {}]
             /\ UNCHANGED <<latest, trail, cold, unsure>>
        \/ Dies(m)

NormalizerSpec == NormalizerInit /\ [][NormalizerNext]_feedVars

\* Every loop goes on, a member that is free to be given a partition is given
\* it, and a process that ended is started again.
NormalizerFairness ==
    \A m \in Members :
        /\ WF_feedVars(Starts(m) /\ UNCHANGED normalizerVars)
        /\ WF_feedVars(Loses(m) /\ UNCHANGED normalizerVars)
        /\ WF_feedVars((\E p \in Parts : Assigns(m, p)) /\ UNCHANGED normalizerVars)
        /\ WF_feedVars(Looping(m) /\ UNCHANGED normalizerVars)
        /\ WF_feedVars(\/ Fails(m) /\ ~Decodable(Current(m)) /\ UNCHANGED normalizerVars
                       \/ Warms(m) \/ Normalizes(m))
        /\ WF_feedVars(Closes(m) /\ Forgets(m) /\ behind' = [behind EXCEPT ![m] = {}]
                         /\ UNCHANGED <<latest, trail, cold, unsure>>)

FairNormalizerSpec == NormalizerSpec /\ NormalizerFairness

-----------------------------------------------------------------------------
(* Properties *)

\* The type of the topic and of the processes' memories.  A process remembers nothing
\* of a market but what the topic has of it, unless it is overtaken there.
NormalizerTypeOK ==
    /\ latest \in [AllMarkets -> Entries \cup {Nobody}]
    /\ trail \in [AllMarkets -> SUBSET Entries]
    /\ memory \in [Members -> [AllMarkets -> Entries \cup {Nobody}]]
    /\ attempts \in [Members -> 0..MaxWarm]
    /\ \A m \in Members : \A k \in AllMarkets \ (unsure \cup behind[m]) :
        memory[m][k] # Nobody => memory[m][k] = latest[k]

\* What the handler answered for is on the topic: for every record that was
\* handled and committed, each of its markets has there a content as new, or the
\* same content; through crashes between publication and commit, redelivery, failed
\* publications, and reads of the topic that fail with the newest record of a market
\* or none of it read (emit, ensureWarm).  Not of a market somebody decided about while
\* overtaken: what such a decision suppresses may be missing (RebalanceSafe).
TopicCovers ==
    \A p \in Parts : \A n \in 1..committed[p] \cap done[p] : \A k \in MarketsOf[p] \ unsure :
        /\ latest[k] # Nobody
        /\ latest[k].obs >= n \/ latest[k].fp = Raw[p][n][k]

\* What is promised of the compacted topic at any moment.
NormalizerCorrect == NormalizerTypeOK /\ TopicCovers

\* A redelivered record never puts an older observation behind a newer one on
\* the compacted topic, as long as no process handled a record without a
\* complete read of it (Warm, emit).
TopicNeverRegresses ==
    [][\A k \in AllMarkets \ unsure' :
          (latest[k] # Nobody /\ ~cold') => latest'[k].obs >= latest[k].obs]_feedVars

\* What is promised of the consumer and the normalizer together: at any moment, and
\* of any step.
FeedCorrect == DeliveryCorrect /\ NormalizerCorrect
FeedSteps == CommitsNeverRewind /\ TopicNeverRegresses

\* The feed is never stuck: with a policy that skips what cannot be decoded,
\* every record is committed in the end, whoever crashes or is expired; or it is
\* handled, and its offset waits for a next batch because a commit failed.
EveryRecordCommitted ==
    policy = "skip" =>
    <>[](\A p \in Parts : committed[p] = LogLen \/ \E m \in Members : marks[m][p] = LogLen)

\* A rebalance is safe for the change detector, and so is a restart: the new owner
\* republishes what it inherits and suppresses nothing that moved; a warm start that
\* failed costs a publication too many of each market and no more (ensureWarm).
RebalanceSafe ==
    policy = "stop" =>
    \A p \in Parts : \A n \in 1..committed[p] \cap done[p] : \A k \in MarketsOf[p] :
        latest[k].obs >= n \/ latest[k].fp = Raw[p][n][k]
=============================================================================
