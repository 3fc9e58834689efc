------------------------------- MODULE Pricer -------------------------------
(***************************************************************************)
(* The service of internal/pricing: odds.normalized in, one record a market *)
(* out to the compacted price.computed. One market, so one key of each      *)
(* topic; the group (Delivery, with the details) gives its partition to one *)
(* replica at a time, from the committed offset on, and may move it. A      *)
(* replica that is dropped in the middle of a batch goes on with it, beside  *)
(* the new owner, until it is told.                                         *)
(*                                                                         *)
(* A replica tracks what it last published, by the input's fingerprint and  *)
(* the engine revision of its deployment, and rebuilds that from            *)
(* price.computed when it starts.                                          *)
(***************************************************************************)
EXTENDS Naturals, Sequences

CONSTANTS
    Pricers,        \* replicas
    Revisions,      \* 1..n, the newest deployed last
    Inputs,         \* the logs of odds.normalized to consider
    Unpriceable,    \* contents the engine refuses
    MaxWarmTries,   \* WarmStartAttempts
    MaxMishaps,     \* bound: crashes, moves, failed publishes and failed reads
    Gone,           \* the tombstone
    Untracked       \* no entry; no owner

ASSUME PricerAssumption ==
    /\ Revisions \subseteq Nat \ {0} /\ Revisions # {}
    /\ Untracked \notin Pricers
    /\ \A log \in Inputs :
        /\ Len(log) \in Nat
        /\ \A i \in 1 .. Len(log) : log[i] # Gone =>
            /\ log[i].at \in Nat
            /\ \A r \in Revisions : Untracked # [fp |-> log[i].fp, rev |-> r, at |-> log[i].at]
    /\ MaxWarmTries \in Nat \ {0}
    /\ MaxMishaps \in Nat

VARIABLES
    input,      \* odds.normalized, for this market: records [fp, at] and Gone
    priced,     \* price.computed: its newest value
    versions,   \* all its values: the cleaner need not have removed any
    skips,      \* ErrorPolicySkip, else ErrorPolicyStop
    pos,        \* records of input handled by the owner
    commit,     \* committed offset of the group
    owner,      \* the replica that has the partition
    stray,      \* replica -> records handled of the batch it had when the group
                \* dropped it; all of input, if it has none such
    tracked,    \* replica -> Service.tracked of the market
    warm,       \* replica -> "down", "cold" (ensureWarm to be tried), "tried" (with
                \* the record at hand), "warm"
    tries,      \* replica -> warmAttempts
    revision,   \* replica -> EngineRevision
    mishaps

\* History: the furthest record a handler was called for; a replica decides, or may,
\* without a complete and current memory of the topic; a replica that had been dropped
\* changed the topic by a record the group was past; records skipped after their publish
\* failed; a price was replaced by that of an older observation, by a replica whose
\* memory was current.
VARIABLES furthest, unsure, late, missed, regressed

partitionVars == <<pos, commit, owner, stray, furthest>>
topicVars == <<priced, versions, late>>
trackerVars == <<tracked, warm, tries, revision>>
pricerVars == <<input, skips, partitionVars, topicVars, trackerVars, mishaps, unsure, missed, regressed>>

Entry(rec, r) == [fp |-> rec.fp, rev |-> r, at |-> rec.at]

Troubled == mishaps >= MaxMishaps
Mishap == ~Troubled /\ mishaps' = mishaps + 1

-----------------------------------------------------------------------------
(* Warm start *)

\* absorb, record by record: the last value a whole read gets to.
Read == priced

\* Where a replica is in what it has of the partition.
Position(p) == IF owner = p THEN pos ELSE stray[p]
HasRecord(p) == Position(p) < Len(input)

\* Warm before the consumer runs, then the ensureWarm of a record: a whole read, or
\* a failed one that got to some value of the market or to none.  The budget spent, the
\* replica prices cold.
WarmStart(p) ==
    /\ warm[p] = "cold"
    /\ tries[p] = 0 \/ HasRecord(p)
    /\ tries' = [tries EXCEPT ![p] = @ + 1]
    /\ \/ /\ warm' = [warm EXCEPT ![p] = "warm"]
          /\ tracked' = [tracked EXCEPT ![p] = Read]
          /\ UNCHANGED <<mishaps, unsure>>
       \/ /\ Mishap
          /\ warm' = [warm EXCEPT ![p] = IF tries[p] = 0 THEN "cold"
                                           ELSE IF tries'[p] >= MaxWarmTries THEN "warm" ELSE "tried"]
          /\ \/ UNCHANGED tracked
             \/ \E v \in versions : tracked' = [tracked EXCEPT ![p] = v]
          /\ unsure' = (unsure \/ (owner = p /\ tries[p] > 0 /\ tracked'[p] # priced))
    /\ UNCHANGED <<input, skips, partitionVars, topicVars, revision, missed, regressed>>

-----------------------------------------------------------------------------
(* HandleMessage *)

Prepared(p) ==
    /\ HasRecord(p)
    /\ warm[p] \in {"tried", "warm"}

AtHand(p) == input[Position(p) + 1]

\* The next record calls ensureWarm again, if the budget is not spent.
Attempted(p) == furthest' = IF furthest > Position(p) THEN furthest ELSE Position(p) + 1

Advance(p) ==
    /\ Attempted(p)
    /\ IF owner = p THEN pos' = pos + 1 /\ UNCHANGED stray
                    ELSE stray' = [stray EXCEPT ![p] = @ + 1] /\ UNCHANGED pos
    /\ warm' = [warm EXCEPT ![p] = IF @ = "tried" THEN "cold" ELSE @]
    /\ UNCHANGED <<input, skips, commit, owner, tries, revision>>

\* A value, or a tombstone, is put on the topic.
PutsPrice(p, v) ==
    /\ priced' = v
    /\ versions' = versions \cup {v}
    /\ late' = (late \/ (owner # p /\ v # priced /\ Position(p) < pos))

\* Nobody's memory is known to be current after a replica that was dropped has written.
Intrudes(p) == unsure' = (unsure \/ (owner # p /\ priced' # priced))

\* shouldSkip: an observation older than the one held, then the same input under
\* the same engine.
\* Variants: an observation of the same instant is old; none is.
Outdated_OrSame(held, rec) == held # Untracked /\ rec.at <= held.at
Outdated_Never(held, rec) == FALSE

Outdated(held, rec) == held # Untracked /\ rec.at < held.at
Same(held, rec, r) == held # Untracked /\ held.fp = rec.fp /\ held.rev = r

Skipped(p, rec) ==
    \/ Outdated(tracked[p], rec)
    \/ Same(tracked[p], rec, revision[p])
    \/ rec.fp \in Unpriceable

\* A handler decides by what its replica remembers, which no other changes: the
\* decision, the engine and the publish are one step here, though the partition may move
\* between them (the replica is then stray).
Skips(p) ==
    /\ Prepared(p)
    /\ AtHand(p) # Gone
    /\ Skipped(p, AtHand(p))
    /\ Advance(p)
    /\ UNCHANGED <<topicVars, tracked, mishaps, unsure, missed, regressed>>

\* What the record at hand makes of the topic.
PublishOutcome(p) == IF AtHand(p) = Gone THEN Untracked ELSE Entry(AtHand(p), revision[p])

\* The synchronous publish, and what is remembered once it is acknowledged.
Publishes(p) ==
    /\ Prepared(p)
    /\ AtHand(p) # Gone
    /\ ~Skipped(p, AtHand(p))
    /\ PutsPrice(p, PublishOutcome(p)) /\ Intrudes(p)
    /\ tracked' = [tracked EXCEPT ![p] = PublishOutcome(p)]
    /\ regressed' = (regressed \/ (~unsure' /\ priced # Untracked /\ AtHand(p).at < priced.at))
    /\ Advance(p)
    /\ UNCHANGED <<mishaps, missed>>

\* Variant: the tombstone of a market that is not tracked is suppressed.
Deletes_Tracked(p) ==
    /\ Prepared(p)
    /\ AtHand(p) = Gone
    /\ IF tracked[p] = Untracked THEN UNCHANGED <<topicVars, unsure>>
       ELSE PutsPrice(p, PublishOutcome(p)) /\ Intrudes(p)
    /\ tracked' = [tracked EXCEPT ![p] = Untracked]
    /\ Advance(p)
    /\ UNCHANGED <<mishaps, missed, regressed>>

\* handleTombstone, whether the market is tracked or not.
Deletes(p) ==
    /\ Prepared(p)
    /\ AtHand(p) = Gone
    /\ PutsPrice(p, PublishOutcome(p)) /\ Intrudes(p)
    /\ tracked' = [tracked EXCEPT ![p] = Untracked]
    /\ Advance(p)
    /\ UNCHANGED <<mishaps, missed, regressed>>

\* The process of p is gone, and its memory with it.
Ends(p) ==
    /\ warm' = [warm EXCEPT ![p] = "down"]
    /\ tracked' = [tracked EXCEPT ![p] = Untracked]
    /\ tries' = [tries EXCEPT ![p] = 0]
    /\ stray' = [stray EXCEPT ![p] = Len(input)]

\* A publish or a tombstone that fails may be on the topic: the error may be of an
\* answer that was lost.  Under ErrorPolicySkip the record is marked as the handled ones
\* are; under ErrorPolicyStop the process ends and the record is redelivered.
PublishFails(p) ==
    /\ Prepared(p)
    /\ AtHand(p) # Gone => ~Skipped(p, AtHand(p))
    /\ Mishap
    /\ UNCHANGED topicVars \/ PutsPrice(p, PublishOutcome(p))
    /\ IF skips
         THEN /\ Advance(p)
              /\ missed' = IF owner = p THEN missed \cup {pos + 1} ELSE missed
              /\ unsure' = (unsure \/ priced' # priced)
              /\ UNCHANGED tracked
         ELSE /\ Ends(p)
              /\ Attempted(p) /\ Intrudes(p)
              /\ UNCHANGED <<input, skips, pos, commit, owner, revision, missed>>
    /\ UNCHANGED regressed

-----------------------------------------------------------------------------
(* The group and the deployments *)

CommitsGroup ==
    /\ commit < pos
    /\ commit' = pos
    /\ UNCHANGED <<input, skips, pos, owner, stray, furthest, topicVars, trackerVars, mishaps, unsure, missed, regressed>>

PricerDies(p) ==
    /\ warm[p] # "down"
    /\ Mishap
    /\ Ends(p)
    /\ UNCHANGED <<input, skips, pos, commit, owner, furthest, topicVars, revision, unsure, missed, regressed>>

\* A process of the same deployment, or of the next one.
StartsProcess(p) ==
    /\ warm[p] = "down"
    /\ warm' = [warm EXCEPT ![p] = "cold"]
    /\ \E r \in Revisions : r >= revision[p] /\ revision' = [revision EXCEPT ![p] = r]
    /\ pos' = IF owner = p THEN commit ELSE pos
    /\ UNCHANGED <<input, skips, commit, owner, stray, furthest, topicVars, tracked, tries, mishaps, unsure, missed, regressed>>

\* The owner gives its partition up between two records, or is dropped at any moment,
\* in the middle of a record too, and goes on with what it has fetched.
LetsGo ==
    \/ /\ owner # Untracked => warm[owner] # "tried"
       /\ UNCHANGED stray
    \/ /\ owner # Untracked /\ warm[owner] # "down"
       /\ stray' = [stray EXCEPT ![owner] = pos]

\* The first assignment, and a rebalance: another live replica fetches from the
\* committed offset, with what it remembers of the market from before.
Moves(p) ==
    /\ owner # p /\ warm[p] # "down" /\ stray[p] = Len(input)
    /\ IF owner = Untracked THEN UNCHANGED mishaps ELSE Mishap
    /\ LetsGo
    /\ owner' = p
    /\ pos' = commit
    /\ unsure' = (unsure \/ (warm[p] = "warm" /\ tracked[p] # priced))
    /\ UNCHANGED <<input, skips, commit, furthest, topicVars, trackerVars, missed, regressed>>

\* onLost: a replica that was dropped is told, once its batch is handled; its marks are
\* refused.
Learns(p) ==
    /\ owner # p /\ stray[p] < Len(input) /\ warm[p] # "tried"
    /\ stray' = [stray EXCEPT ![p] = Len(input)]
    /\ UNCHANGED <<input, skips, pos, commit, owner, furthest, topicVars, trackerVars, mishaps, unsure, missed, regressed>>

PricerInit ==
    /\ input \in Inputs
    /\ skips \in BOOLEAN
    /\ priced = Untracked /\ versions = {}
    /\ pos = 0 /\ commit = 0 /\ furthest = 0
    /\ owner = Untracked
    /\ stray = [p \in Pricers |-> Len(input)]
    /\ tracked = [p \in Pricers |-> Untracked]
    /\ warm = [p \in Pricers |-> "cold"]
    /\ tries = [p \in Pricers |-> 0]
    /\ revision = [p \in Pricers |-> CHOOSE r \in Revisions : \A q \in Revisions : r <= q]
    /\ mishaps = 0
    /\ unsure = FALSE /\ late = FALSE /\ missed = {} /\ regressed = FALSE

PricerNext ==
    \/ \E p \in Pricers :
        \/ WarmStart(p)
        \/ Skips(p) \/ Publishes(p) \/ Deletes(p) \/ PublishFails(p)
        \/ PricerDies(p) \/ StartsProcess(p) \/ Moves(p) \/ Learns(p)
    \/ CommitsGroup

PricerSpec == PricerInit /\ [][PricerNext]_pricerVars

-----------------------------------------------------------------------------
(* Properties *)

PricerTypeOK ==
    /\ \A p \in Pricers : stray[p] <= Len(input)
    /\ commit <= pos /\ pos <= furthest /\ furthest <= Len(input)
    /\ \A p \in Pricers : warm[p] = "down" => tracked[p] = Untracked
    /\ \A p \in Pricers : tries[p] \in 0 .. MaxWarmTries + Len(input)

OwnerRuns == owner # Untracked /\ warm[owner] # "down"

\* The records of the first n that have a price to show: none before a tombstone.
Tombs(n) == {i \in 1 .. n : input[i] = Gone}
Shown(n) == {i \in 1 .. n : /\ input[i] # Gone /\ input[i].fp \notin Unpriceable
                            /\ \A t \in Tombs(n) : t < i}

\* The newest of them: the last of the latest instant.
Newest(S) ==
    CHOOSE i \in S : \A j \in S : \/ input[j].at < input[i].at
                                  \/ input[j].at = input[i].at /\ j <= i

\* Once everything that was handled has been handled again, through crashes
\* between the publish and the commit, redelivery, moves of the partition and new
\* deployments, the price shown is that of the newest input that has one: unless a
\* replica priced without a current memory of the topic, one that had lost the partition
\* in the middle of a batch changed the topic, or a failed publish was skipped.
PricedIsNewest ==
    (pos = furthest /\ ~unsure /\ missed = {} /\ OwnerRuns) =>
        IF Shown(pos) = {} THEN priced = Untracked
        ELSE priced # Untracked /\ priced.fp = input[Newest(Shown(pos))].fp

\* A market that was deleted last has no price, whatever a replica remembers: the
\* tombstone is not suppressed.  Not if a replica that had lost the partition published,
\* after the new owner, a record from before (TombstoneIsFinal).
DeletedIsGone ==
    (pos = furthest /\ pos > 0 /\ missed = {} /\ ~late /\ OwnerRuns) =>
        (input[pos] = Gone => priced = Untracked)

\* The price shown never goes back to an older observation of the market, while no
\* replica prices without a current memory of the topic; one that was dropped in the
\* middle of a batch has none.
NeverOlder == ~regressed

PricerCorrect == PricerTypeOK /\ PricedIsNewest /\ DeletedIsGone /\ NeverOlder

\* A deleted market has no price once all is handled and committed: no record is to come
\* that would correct it, and the guard of an older observation is there for two
\* replicas racing across a rebalance, the package's comment says.  Does not hold: a
\* replica dropped inside the engine publishes behind the new owner's tombstone.
TombstoneIsFinal ==
    (commit = Len(input) /\ commit > 0 /\ missed = {} /\ OwnerRuns) =>
        (input[commit] = Gone => priced = Untracked)

\* The offset of a record whose publish failed is not committed, so it is
\* redelivered, the comment of the command says. Does not hold: under
\* ErrorPolicySkip it is marked with the others.
FailuresAreRedelivered == \A n \in missed : commit < n

\* With a new revision every market is repriced exactly once. Does not hold: a
\* market that does not move is not delivered again.
RevisionRepricesBoard ==
    (commit = Len(input) /\ priced # Untracked /\ OwnerRuns /\ warm[owner] = "warm")
        => priced.rev = revision[owner]
=============================================================================
