--------------------------- MODULE GatewayProofs ---------------------------
(***************************************************************************)
(* Proofs about the slate of Slate.tla, for any markets, events, leagues,   *)
(* payloads and re-keyings, and about the hub of Gateway.tla on top of it,  *)
(* for any connections, channels, capacities and topics.                    *)
(*                                                                          *)
(* Slate: IndexExact is inductive together with the type invariant.  The    *)
(* argument is two lemmas about one index: tearing a held market down turns *)
(* the index of the slate into the index of the slate without it, and       *)
(* indexing a market the slate does not hold adds exactly that market.      *)
(*                                                                          *)
(* Hub: the routing table says what the connections hold, and a shutdown    *)
(* misses nobody. Neither is inductive alone.  A request adds routes in its *)
(* second critical section, so the proof needs that a connection between    *)
(* the two is still live (JobsLive); and Shutdown collects Hub.conns, so it *)
(* needs that Hub.conns holds every open connection (LiveExact).            *)
(***************************************************************************)
EXTENDS Gateway, FiniteSetTheorems, TLAPS

-----------------------------------------------------------------------------
(* The slate *)

Slates == [Markets -> Entries \cup {Absent}]
Fields == {"event", "league"}

\* Absent is no market record, so a held market is an entry.
LEMMA EntryNotAbsent == Absent \notin Entries
BY AbsentAssumption DEF Entries, Instants

\* deindexLocked: the index without a held market is the index of the slate
\* without it, emptied bucket included.
LEMMA DeindexedExact ==
    ASSUME NEW s \in Slates, NEW m \in Markets, NEW field \in Fields, s[m] # Absent
    PROVE  Deindexed(Buckets(s, field), s[m][field], m)
             = Buckets([s EXCEPT ![m] = Absent], field)
PROOF
<1> DEFINE t == [s EXCEPT ![m] = Absent]
           known == {x \in Markets : s[x] # Absent}
           B == Buckets(s, field)
           C == Buckets(t, field)
           b0 == s[m][field]
           D == Deindexed(B, b0, m)
<1>1. /\ \A x \in Markets : t[x] = IF x = m THEN Absent ELSE s[x]
      /\ {x \in Markets : t[x] # Absent} = known \ {m}
  BY DEF Slates
<1>2. /\ DOMAIN B = {s[x][field] : x \in known}
      /\ \A b \in DOMAIN B : B[b] = {x \in known : s[x][field] = b}
      /\ B = [b \in DOMAIN B |-> B[b]]
  BY DEF Buckets
<1>3. C = [b \in {s[x][field] : x \in known \ {m}} |-> {x \in known \ {m} : s[x][field] = b}]
  <2>1. \A x \in known \ {m} : t[x][field] = s[x][field]
    BY <1>1
  <2> QED
    BY <1>1, <2>1 DEF Buckets
<1>4. b0 \in DOMAIN B
  BY <1>2
<1>5. CASE B[b0] \subseteq {m}
  <2>1. D = [b \in DOMAIN B \ {b0} |-> IF b = b0 THEN B[b] \ {m} ELSE B[b]]
    <3> HIDE DEF B, b0
    <3> QED
      BY <1>4, <1>5 DEF Deindexed
  <2>2. DOMAIN B \ {b0} = {s[x][field] : x \in known \ {m}}
    BY <1>2, <1>4, <1>5
  <2>3. \A b \in DOMAIN B \ {b0} :
          (IF b = b0 THEN B[b] \ {m} ELSE B[b]) = {x \in known \ {m} : s[x][field] = b}
    BY <1>2
  <2> HIDE DEF B, C, D, b0, known, t
  <2>4. D = C
    BY <1>3, <2>1, <2>2, <2>3
  <2> QED
    BY <2>4 DEF C, D, t, B, b0
<1>6. CASE ~(B[b0] \subseteq {m})
  <2>1. D = [b \in DOMAIN B |-> IF b = b0 THEN B[b] \ {m} ELSE B[b]]
    <3>1. DOMAIN B \ {} = DOMAIN B
      OBVIOUS
    <3> HIDE DEF B, b0
    <3> QED
      BY <1>4, <1>6, <3>1 DEF Deindexed
  <2>2. DOMAIN B = {s[x][field] : x \in known \ {m}}
    <3>1. PICK x \in known \ {m} : s[x][field] = b0
      BY <1>2, <1>4, <1>6
    <3> QED
      BY <1>2, <3>1
  <2>3. \A b \in DOMAIN B :
          (IF b = b0 THEN B[b] \ {m} ELSE B[b]) = {x \in known \ {m} : s[x][field] = b}
    BY <1>2
  <2> HIDE DEF B, C, D, b0, known, t
  <2>4. D = C
    BY <1>3, <2>1, <2>2, <2>3
  <2> QED
    BY <2>4 DEF C, D, t, B, b0
<1> QED
  BY <1>5, <1>6

\* indexLocked: indexing a market the slate does not hold yields the index of
\* the slate with it, new bucket included.
LEMMA IndexedExact ==
    ASSUME NEW s \in Slates, NEW m \in Markets, NEW field \in Fields,
           NEW entry \in Entries, s[m] = Absent
    PROVE  Indexed(Buckets(s, field), entry[field], m)
             = Buckets([s EXCEPT ![m] = entry], field)
PROOF
<1> DEFINE t == [s EXCEPT ![m] = entry]
           known == {x \in Markets : s[x] # Absent}
           B == Buckets(s, field)
           C == Buckets(t, field)
           b0 == entry[field]
           D == Indexed(B, b0, m)
<1>1. /\ \A x \in Markets : t[x] = IF x = m THEN entry ELSE s[x]
      /\ {x \in Markets : t[x] # Absent} = known \cup {m}
  BY EntryNotAbsent DEF Slates
<1>2. /\ DOMAIN B = {s[x][field] : x \in known}
      /\ \A b \in DOMAIN B : B[b] = {x \in known : s[x][field] = b}
  BY DEF Buckets
<1>3. C = [b \in {t[x][field] : x \in known \cup {m}} |-> {x \in known \cup {m} : t[x][field] = b}]
  BY <1>1 DEF Buckets
<1>4. m \notin known /\ \A x \in known : t[x][field] = s[x][field]
  BY <1>1
<1>5. t[m][field] = b0
  BY <1>1
<1>6. {t[x][field] : x \in known \cup {m}} = DOMAIN B \cup {b0}
  BY <1>2, <1>4, <1>5
<1>7. \A b \in DOMAIN B \cup {b0} :
        {x \in known \cup {m} : t[x][field] = b}
          = IF b # b0 THEN B[b] ELSE {m} \cup IF b0 \in DOMAIN B THEN B[b0] ELSE {}
  <2> TAKE b \in DOMAIN B \cup {b0}
  <2>1. CASE b # b0
    BY <1>2, <1>4, <1>5, <2>1
  <2>2. CASE b = b0 /\ b0 \in DOMAIN B
    BY <1>2, <1>4, <1>5, <2>2
  <2>3. CASE b = b0 /\ b0 \notin DOMAIN B
    BY <1>2, <1>4, <1>5, <2>3
  <2> QED
    BY <2>1, <2>2, <2>3
<1> HIDE DEF B, C, D, b0, known, t
<1>8. D = C
  BY <1>3, <1>6, <1>7 DEF Indexed, D
<1> QED
  BY <1>8 DEF C, D, t, B, b0

\* The index after a market is torn down, whether it was held or not.
LEMMA WithoutHeldExact ==
    ASSUME slate \in Slates, NEW m \in Markets, NEW field \in Fields
    PROVE  WithoutHeld(Buckets(slate, field), m, field)
             = Buckets([slate EXCEPT ![m] = Absent], field)
PROOF
<1>1. CASE slate[m] = Absent
  <2>1. [slate EXCEPT ![m] = Absent] = slate
    BY <1>1 DEF Slates
  <2> QED
    BY <1>1, <2>1 DEF WithoutHeld
<1>2. CASE slate[m] # Absent
  BY <1>2, DeindexedExact DEF WithoutHeld
<1> QED
  BY <1>1, <1>2

\* An index of a well-typed slate is a partial function on the bucket names.
LEMMA BucketsType ==
    ASSUME NEW s \in Slates
    PROVE  /\ Buckets(s, "event") \in UNION {[es -> SUBSET Markets] : es \in SUBSET Events}
           /\ Buckets(s, "league") \in UNION {[ls -> SUBSET Markets] : ls \in SUBSET Leagues}
PROOF
<1> DEFINE known == {x \in Markets : s[x] # Absent}
<1>1. \A x \in known : s[x].event \in Events /\ s[x].league \in Leagues
  BY DEF Slates, Entries
<1>2. Buckets(s, "event") \in [{s[x].event : x \in known} -> SUBSET Markets]
  BY DEF Buckets
<1>3. Buckets(s, "league") \in [{s[x].league : x \in known} -> SUBSET Markets]
  BY DEF Buckets
<1>4. {s[x].event : x \in known} \in SUBSET Events /\ {s[x].league : x \in known} \in SUBSET Leagues
  BY <1>1
<1> QED
  BY <1>2, <1>3, <1>4

\* A document's entry is well typed: the fallback instant is an instant.
LEMMA EntryOfType ==
    ASSUME NEW d \in Documents
    PROVE  d.market \in Markets /\ EntryOf(d) \in Entries
BY DEF Documents, EntryOf, Entries, EffectiveObs

\* ChannelsFor names channels of this slate.
LEMMA ChannelsForType ==
    ASSUME NEW m \in Markets, NEW entry \in Entries
    PROVE  ChannelsFor(m, entry) \in SUBSET Channels
BY DEF ChannelsFor, Channels, Entries

SlateInv == SlateTypeOK /\ IndexExact

\* Folding a document: the market is torn down out of its old buckets, then
\* indexed into its new ones.
LEMMA PutPreserves ==
    ASSUME SlateInv, NEW d \in Deliveries, Put(d)
    PROVE  SlateInv'
PROOF
<1> DEFINE m == d.market
           entry == EntryOf(d)
           torn == [slate EXCEPT ![m] = Absent]
<1>1. d \in Documents
  BY DEF Put, Deliveries, Tombstones, Refusals, Unkeyed
<1>2. m \in Markets /\ entry \in Entries /\ entry # Absent
  BY <1>1, EntryOfType, EntryNotAbsent
<1>3. slate \in Slates /\ torn \in Slates /\ torn[m] = Absent
  BY <1>2 DEF SlateInv, SlateTypeOK, Slates
<1>4. slate' = [torn EXCEPT ![m] = entry]
  BY <1>2, <1>3 DEF Put, Slates
<1>5. slate' \in Slates
  BY <1>2, <1>3, <1>4 DEF Slates
<1>6. byEvent' = Buckets(slate', "event")
  <2>1. byEvent' = Indexed(WithoutHeld(Buckets(slate, "event"), m, "event"), entry["event"], m)
    BY DEF Put, SlateInv, IndexExact
  <2>2. WithoutHeld(Buckets(slate, "event"), m, "event") = Buckets(torn, "event")
    BY <1>2, <1>3, WithoutHeldExact DEF Fields
  <2>3. Indexed(Buckets(torn, "event"), entry["event"], m)
          = Buckets([torn EXCEPT ![m] = entry], "event")
    <3> HIDE DEF m, entry, torn
    <3> QED
      BY <1>2, <1>3, IndexedExact DEF Fields
  <2> QED
    BY <1>4, <2>1, <2>2, <2>3
<1>7. byLeague' = Buckets(slate', "league")
  <2>1. byLeague' = Indexed(WithoutHeld(Buckets(slate, "league"), m, "league"), entry["league"], m)
    BY DEF Put, SlateInv, IndexExact
  <2>2. WithoutHeld(Buckets(slate, "league"), m, "league") = Buckets(torn, "league")
    BY <1>2, <1>3, WithoutHeldExact DEF Fields
  <2>3. Indexed(Buckets(torn, "league"), entry["league"], m)
          = Buckets([torn EXCEPT ![m] = entry], "league")
    <3> HIDE DEF m, entry, torn
    <3> QED
      BY <1>2, <1>3, IndexedExact DEF Fields
  <2> QED
    BY <1>4, <2>1, <2>2, <2>3
<1>8. result' \in [outcome : Outcomes, market : Markets \cup {Absent}, channels : SUBSET Channels]
  BY <1>2, ChannelsForType DEF Put, Outcome, Outcomes
<1> QED
  BY <1>5, <1>6, <1>7, <1>8, BucketsType DEF SlateInv, SlateTypeOK, IndexExact, Slates

\* Folding a deletion tears the market down and nothing else.
LEMMA RemovePreserves ==
    ASSUME SlateInv, NEW d \in Deliveries, Remove(d)
    PROVE  SlateInv'
PROOF
<1> DEFINE m == d.market
<1>1. m \in Markets
  BY DEF Remove, Deliveries, Documents, Tombstones, Refusals, Unkeyed
<1>2. slate \in Slates /\ slate' = [slate EXCEPT ![m] = Absent] /\ slate' \in Slates
  BY <1>1 DEF Remove, SlateInv, SlateTypeOK, Slates
<1>3. byEvent' = Buckets(slate', "event") /\ byLeague' = Buckets(slate', "league")
  BY <1>1, <1>2, WithoutHeldExact DEF Remove, SlateInv, IndexExact, Fields
<1>4. result' \in [outcome : Outcomes, market : Markets \cup {Absent}, channels : SUBSET Channels]
  <2>1. slate[m] # Absent => slate[m] \in Entries
    BY <1>1, <1>2 DEF Slates
  <2> QED
    BY <1>1, <2>1, ChannelsForType DEF Remove, Outcome, Outcomes
<1> QED
  BY <1>2, <1>3, <1>4, BucketsType DEF SlateInv, SlateTypeOK, IndexExact, Slates

\* The outcomes that keep the slate only report.
LEMMA KeepPreserves ==
    ASSUME SlateInv, NEW d \in Deliveries, Reject(d) \/ RefuseType(d) \/ Skip(d)
    PROVE  SlateInv'
PROOF
<1>1. UNCHANGED <<slate, byEvent, byLeague>>
  BY DEF Reject, RefuseType, Skip, Keep
<1>2. d.form # "unkeyed" => d.market \in Markets
  BY DEF Deliveries, Documents, Tombstones, Refusals, Unkeyed
<1>3. result' \in [outcome : Outcomes, market : Markets \cup {Absent}, channels : SUBSET Channels]
  <2>1. CASE Reject(d)
    BY <1>2, <2>1 DEF Reject, Keep, Outcome, Outcomes
  <2>2. CASE RefuseType(d)
    BY <1>2, <2>2 DEF RefuseType, Keep, Outcome, Outcomes
  <2>3. CASE Skip(d)
    <3>1. d.market \in Markets /\ slate[d.market] \in Entries
      BY <1>2, <2>3 DEF Skip, IsStale, SlateInv, SlateTypeOK
    <3> QED
      BY <2>3, <3>1, ChannelsForType DEF Skip, Keep, Outcome, Outcomes
  <2> QED
    BY <2>1, <2>2, <2>3
<1>4. Buckets(slate', "event") = Buckets(slate, "event")
      /\ Buckets(slate', "league") = Buckets(slate, "league")
  BY <1>1 DEF Buckets
<1> QED
  BY <1>1, <1>3, <1>4 DEF SlateInv, SlateTypeOK, IndexExact

\* Every fold preserves the invariant.
LEMMA FoldPreserves ==
    ASSUME SlateInv, NEW d \in Deliveries, Fold(d)
    PROVE  SlateInv'
BY PutPreserves, RemovePreserves, KeepPreserves DEF Fold

\* A step that leaves the slate alone.
LEMMA SlateKept == SlateInv /\ UNCHANGED slateVars => SlateInv'
<1> SUFFICES ASSUME SlateInv, UNCHANGED slateVars PROVE SlateInv'
  OBVIOUS
<1>1. Buckets(slate', "event") = Buckets(slate, "event")
      /\ Buckets(slate', "league") = Buckets(slate, "league")
  BY DEF slateVars, Buckets
<1> QED BY <1>1 DEF slateVars, SlateInv, SlateTypeOK, IndexExact

LEMMA SlateStarts == SlateInit => SlateInv
<1> SUFFICES ASSUME SlateInit PROVE SlateInv
  OBVIOUS
<1>1. slate \in Slates /\ {m \in Markets : slate[m] # Absent} = {}
  BY DEF SlateInit, Slates
<1>2. byEvent = Buckets(slate, "event") /\ byLeague = Buckets(slate, "league")
  BY <1>1 DEF SlateInit, Buckets
<1>3. result \in [outcome : Outcomes, market : Markets \cup {Absent}, channels : SUBSET Channels]
  BY DEF SlateInit, NoResult, Outcome, Outcomes
<1> QED BY <1>1, <1>2, <1>3, BucketsType DEF SlateInv, SlateTypeOK, IndexExact, Slates

\* Store.Fold keeps the slate well typed and both of its indexes exact.
THEOREM SlateCorrect == SlateSpec => [](SlateTypeOK /\ IndexExact)
PROOF
<1>1. SlateInv /\ [SlateNext]_slateVars => SlateInv'
  BY FoldPreserves, SlateKept DEF SlateNext
<1> QED
  BY <1>1, SlateStarts, PTL DEF SlateSpec, SlateInv

\* With exact indexes a channel snapshots to exactly the markets published
\* on it, which is what the comment on ChannelsFor asks of the two paths.
LEMMA ExactSnapshots == SlateInv => SnapshotIsWhatIsPublished
PROOF
<1> SUFFICES ASSUME SlateInv, NEW ch \in Channels
             PROVE  SnapshotMarkets(ch) = {m \in Held : ch \in ChannelsFor(m, slate[m])}
  BY DEF SnapshotIsWhatIsPublished
<1>1. \A b : b \in DOMAIN byEvent <=> \E m \in Held : slate[m].event = b
  BY DEF SlateInv, IndexExact, Buckets, Held
<1>2. \A b \in DOMAIN byEvent : byEvent[b] = {m \in Held : slate[m].event = b}
  BY DEF SlateInv, IndexExact, Buckets, Held
<1>3. \A b : b \in DOMAIN byLeague <=> \E m \in Held : slate[m].league = b
  BY DEF SlateInv, IndexExact, Buckets, Held
<1>4. \A b \in DOMAIN byLeague : byLeague[b] = {m \in Held : slate[m].league = b}
  BY DEF SlateInv, IndexExact, Buckets, Held
<1>5. CASE \E x \in Markets : ch = MarketChannel(x)
  BY <1>5 DEF SnapshotMarkets, ChannelsFor, MarketChannel, EventChannel, LeagueChannel, Held
<1>6. CASE \E e \in Events : ch = EventChannel(e)
  <2>1. ch.kind = "event" /\ ch = EventChannel(ch.id)
    BY <1>6 DEF EventChannel
  <2>2. SnapshotMarkets(ch) = {m \in Held : slate[m].event = ch.id}
    BY <1>1, <1>2, <2>1 DEF SnapshotMarkets
  <2>3. \A m \in Held : ch \in ChannelsFor(m, slate[m]) <=> slate[m].event = ch.id
    BY <2>1 DEF ChannelsFor, MarketChannel, EventChannel, LeagueChannel
  <2> QED
    BY <2>2, <2>3
<1>7. CASE \E l \in Leagues : ch = LeagueChannel(l)
  <2>1. ch.kind = "league" /\ ch = LeagueChannel(ch.id)
    BY <1>7 DEF LeagueChannel
  <2>2. SnapshotMarkets(ch) = {m \in Held : slate[m].league = ch.id}
    BY <1>3, <1>4, <2>1 DEF SnapshotMarkets
  <2>3. \A m \in Held : ch \in ChannelsFor(m, slate[m]) <=> slate[m].league = ch.id
    BY <2>1 DEF ChannelsFor, MarketChannel, EventChannel, LeagueChannel
  <2> QED
    BY <2>2, <2>3
<1> QED
  BY <1>5, <1>6, <1>7 DEF Channels

\* The snapshot path and the publish path agree in every reachable state.
THEOREM SnapshotsCorrect == SlateSpec => []SnapshotIsWhatIsPublished
BY SlateCorrect, ExactSnapshots, PTL DEF SlateInv

\* No fold replaces a held market by an older observation of it (applyLocked), and a
\* deletion dated before the observation held leaves the market (removeLocked).
THEOREM NewestWins == SlateSpec => NeverRegresses
PROOF
<1>1. ASSUME SlateInv, [SlateNext]_slateVars
      PROVE  [\A m \in Markets : (slate[m] # Absent /\ slate'[m] # Absent)
                                   => slate'[m].obs >= slate[m].obs]_slateVars
  <2> SUFFICES ASSUME NEW m \in Markets, slate[m] # Absent, slate'[m] # Absent
               PROVE  slate'[m].obs >= slate[m].obs
    OBVIOUS
  <2>1. slate[m] \in Entries /\ slate[m].obs \in Nat
    <3>1. slate[m] \in Entries
      BY <1>1 DEF SlateInv, SlateTypeOK
    <3> QED
      BY <3>1, InstantsAssumption DEF Entries, Instants
  <2>2. CASE slate' = slate
    BY <2>1, <2>2
  <2>3. CASE \E d \in Deliveries : Put(d)
    <3>1. PICK d \in Deliveries : Put(d)
      BY <2>3
    <3>2. d \in Documents
      BY <3>1 DEF Put, Deliveries, Tombstones, Refusals, Unkeyed
    <3>3. CASE d.market = m
      <4>1. slate'[m] = EntryOf(d) /\ EffectiveObs(d) \in Nat
        <5>1. slate'[m] = EntryOf(d)
          BY <1>1, <3>1, <3>3 DEF Put, SlateInv, SlateTypeOK
        <5>2. EffectiveObs(d) \in Instants
          BY <3>2 DEF Documents, EffectiveObs
        <5> QED
          BY <5>1, <5>2, InstantsAssumption DEF Instants
      <4>2. ~(EffectiveObs(d) < slate[m].obs)
        BY <3>1, <3>3 DEF Put, IsStale
      <4> QED
        BY <2>1, <4>1, <4>2 DEF EntryOf
    <3>4. CASE d.market # m
      <4>1. slate'[m] = slate[m]
        BY <1>1, <3>1, <3>4 DEF Put, SlateInv, SlateTypeOK
      <4> QED
        BY <2>1, <4>1
    <3> QED
      BY <3>3, <3>4
  <2>4. CASE \E d \in Deliveries : Remove(d)
    <3>1. PICK d \in Deliveries : Remove(d)
      BY <2>4
    <3>2. slate'[m] = slate[m]
      BY <1>1, <3>1 DEF Remove, SlateInv, SlateTypeOK
    <3> QED
      BY <2>1, <3>2
  <2> QED
    BY <1>1, <2>2, <2>3, <2>4 DEF SlateNext, Fold, Reject, RefuseType, Skip, Keep, slateVars
<1>2. [\A d \in Tombstones :
          (Fold(d) /\ slate[d.market] # Absent /\ d.obs # 0 /\ d.obs < slate[d.market].obs)
              => slate'[d.market] = slate[d.market]]_slateVars
  <2> SUFFICES ASSUME NEW d \in Tombstones, Fold(d), slate[d.market] # Absent, d.obs # 0,
                      d.obs < slate[d.market].obs
               PROVE  slate'[d.market] = slate[d.market]
    OBVIOUS
  <2>1. d.form = "tombstone"
    BY DEF Tombstones
  <2>2. IsStale(d)
    BY <2>1 DEF IsStale
  <2> QED
    BY <2>1, <2>2 DEF Fold, Reject, RefuseType, Skip, Put, Remove, Keep
<1>3. SlateSpec => []SlateInv
  BY SlateCorrect DEF SlateInv
<1>4. ASSUME SlateInv, [SlateNext]_slateVars
      PROVE  [/\ \A m \in Markets :
                   (slate[m] # Absent /\ slate'[m] # Absent) => slate'[m].obs >= slate[m].obs
              /\ \A d \in Tombstones :
                   (Fold(d) /\ slate[d.market] # Absent /\ d.obs # 0 /\ d.obs < slate[d.market].obs)
                       => slate'[d.market] = slate[d.market]]_slateVars
  BY <1>1, <1>2, <1>4
<1> QED
  BY <1>3, <1>4, PTL DEF SlateSpec, NeverRegresses

\* With the two paths in agreement, the channels a fold names are those the
\* market is visible on, so no change of the slate goes unannounced and a
\* deletion is announced wherever the market was shown.
THEOREM ChangesAnnounced == SlateSpec => EveryChangeAnnounced
PROOF
<1> DEFINE Announced(m) ==
             /\ Changed(result')
             /\ result'.market = m
             /\ IF slate'[m] = Absent
                THEN {ch \in Channels : m \in SnapshotMarkets(ch)} \subseteq result'.channels
                ELSE {ch \in Channels : m \in SnapshotMarkets(ch)'} \subseteq result'.channels
<1>0. SlateInv' => SnapshotIsWhatIsPublished'
  BY ExactSnapshots, PTL
<1>1. ASSUME SlateInv, SlateInv', [SlateNext]_slateVars, NEW m \in Markets, slate'[m] # slate[m]
      PROVE  Announced(m)
  <2>1. \A ch \in Channels : m \in SnapshotMarkets(ch)
                               => slate[m] # Absent /\ ch \in ChannelsFor(m, slate[m])
    BY <1>1, ExactSnapshots DEF SnapshotIsWhatIsPublished, Held
  <2>2. SnapshotIsWhatIsPublished'
    BY <1>0, <1>1
  <2>3. \A ch \in Channels : m \in SnapshotMarkets(ch)' => ch \in ChannelsFor(m, slate'[m])
    BY <2>2 DEF SnapshotIsWhatIsPublished, Held, ChannelsFor
  <2>4. CASE \E d \in Deliveries : Put(d)
    <3>1. PICK d \in Deliveries : Put(d)
      BY <2>4
    <3>2. d \in Documents
      BY <3>1 DEF Put, Deliveries, Tombstones, Refusals, Unkeyed
    <3>3. d.market = m /\ slate'[m] = EntryOf(d)
      BY <1>1, <3>1 DEF Put, SlateInv, SlateTypeOK
    <3>4. slate'[m] # Absent
      BY <3>2, <3>3, EntryOfType, EntryNotAbsent
    <3>5. result' = Outcome("stored", m, ChannelsFor(m, slate'[m]))
      BY <3>1, <3>3 DEF Put
    <3> QED
      BY <2>3, <3>4, <3>5 DEF Changed, Outcome
  <2>5. CASE \E d \in Deliveries : Remove(d)
    <3>1. PICK d \in Deliveries : Remove(d)
      BY <2>5
    <3>2. d.market = m /\ slate'[m] = Absent /\ slate[m] # Absent
      BY <1>1, <3>1 DEF Remove, SlateInv, SlateTypeOK
    <3>3. result' = Outcome("removed", m, ChannelsFor(m, slate[m]))
      BY <3>1, <3>2 DEF Remove
    <3>4. ChannelsFor(m, slate[m]) # {}
      BY DEF ChannelsFor
    <3> QED
      BY <2>1, <3>2, <3>3, <3>4 DEF Changed, Outcome
  <2> QED
    BY <1>1, <2>4, <2>5 DEF SlateNext, Fold, Reject, RefuseType, Skip, Keep, slateVars
<1>2. SlateInv /\ SlateInv' /\ [SlateNext]_slateVars
        => [\A m \in Markets : slate'[m] # slate[m] => Announced(m)]_slateVars
  BY <1>1
<1>3. SlateSpec => []SlateInv
  BY SlateCorrect DEF SlateInv
<1> QED
  BY <1>2, <1>3, PTL DEF SlateSpec, EveryChangeAnnounced

-----------------------------------------------------------------------------
(* The hub *)


LivePhases == {"registered", "serving", "closing"}

\* held, phase and job are functions on the connections.
Shape ==
    /\ held = [c \in Conns |-> held[c]]
    /\ phase = [c \in Conns |-> phase[c]]
    /\ job = [c \in Conns |-> job[c]]

\* The routing table is the inverse of what the connections hold.
RoutesExact ==
    subs = [ch \in UNION {held[c] : c \in Conns} |-> {c \in Conns : ch \in held[c]}]

\* Hub.conns holds the connections between Register and unregister.
LiveExact == live = {c \in Conns : phase[c] \in LivePhases}

\* Only a live connection holds channels.
HeldLive == \A c \in Conns : c \notin live => held[c] = {}

\* A request between its critical sections belongs to a live connection.
JobsLive == \A c \in Conns : job[c].op \in {"subscribe", "resync"} => phase[c] \in {"serving", "closing"}

RoutingInv == Shape /\ RoutesExact /\ LiveExact /\ HeldLive /\ JobsLive

-----------------------------------------------------------------------------
(* The routing operators *)

\* addRouteLocked for each channel keeps the table the inverse of held.
LEMMA AddRoutesExact ==
    ASSUME NEW c \in Conns, NEW chs, Shape, RoutesExact, AddRoutes(c, chs)
    PROVE  RoutesExact'
<1> DEFINE After(ch) == {x \in Conns : ch \in held'[x]}
<1>1. held' = [held EXCEPT ![c] = @ \cup chs]
  BY DEF AddRoutes
<1>2. \A x \in Conns : held'[x] = IF x = c THEN held[x] \cup chs ELSE held[x]
  BY <1>1 DEF Shape
<1>3. DOMAIN subs = UNION {held[x] : x \in Conns}
  BY DEF RoutesExact
<1>4. \A ch : Subscribers(ch) = {x \in Conns : ch \in held[x]}
  BY <1>3 DEF RoutesExact, Subscribers
<1>5. DOMAIN subs \cup chs = UNION {held'[x] : x \in Conns}
  BY <1>2, <1>3
<1>6. \A ch : Subscribers(ch) \cup (IF ch \in chs THEN {c} ELSE {}) = After(ch)
  BY <1>2, <1>4
<1>7. subs' = [ch \in DOMAIN subs \cup chs |->
                 Subscribers(ch) \cup (IF ch \in chs THEN {c} ELSE {})]
  BY DEF AddRoutes, Routed
<1>8. subs' = [ch \in UNION {held'[x] : x \in Conns} |-> After(ch)]
  <2> HIDE DEF After
  <2> QED BY <1>5, <1>6, <1>7
<1> QED BY <1>8 DEF RoutesExact

\* removeRouteLocked for each channel keeps the table the inverse of held.
LEMMA RemoveRoutesExact ==
    ASSUME NEW c \in Conns, NEW chs, Shape, RoutesExact, RemoveRoutes(c, chs)
    PROVE  RoutesExact'
<1> DEFINE After(ch) == {x \in Conns : ch \in held'[x]}
           Kept == {ch \in DOMAIN subs : ch \in chs => subs[ch] \ {c} # {}}
<1>1. held' = [held EXCEPT ![c] = @ \ chs]
  BY DEF RemoveRoutes
<1>2. \A x \in Conns : held'[x] = IF x = c THEN held[x] \ chs ELSE held[x]
  BY <1>1 DEF Shape
<1>3. DOMAIN subs = UNION {held[x] : x \in Conns}
  BY DEF RoutesExact
<1>4. \A ch \in DOMAIN subs : subs[ch] = {x \in Conns : ch \in held[x]}
  BY <1>3 DEF RoutesExact
<1>5. \A ch \in DOMAIN subs : (IF ch \in chs THEN subs[ch] \ {c} ELSE subs[ch]) = After(ch)
  BY <1>2, <1>4
<1>6. \A ch : ch \in Kept <=> ch \in DOMAIN subs /\ After(ch) # {}
  BY <1>3, <1>4, <1>5
<1>7. \A ch : After(ch) # {} => ch \in DOMAIN subs
  BY <1>2, <1>3
<1>8. Kept = UNION {held'[x] : x \in Conns}
  <2>1. \A ch : ch \in UNION {held'[x] : x \in Conns} <=> After(ch) # {}
    OBVIOUS
  <2> HIDE DEF After, Kept
  <2> QED BY <2>1, <1>6, <1>7
<1>9. subs' = [ch \in Kept |-> IF ch \in chs THEN subs[ch] \ {c} ELSE subs[ch]]
  BY DEF RemoveRoutes, Unrouted
<1>10. \A ch \in Kept : (IF ch \in chs THEN subs[ch] \ {c} ELSE subs[ch]) = After(ch)
  BY <1>5
<1>11. subs' = [ch \in UNION {held'[x] : x \in Conns} |-> After(ch)]
  <2> HIDE DEF After, Kept
  <2> QED BY <1>8, <1>9, <1>10
<1> QED BY <1>11 DEF RoutesExact

-----------------------------------------------------------------------------
(* The invariant of routing *)

LEMMA RoutingInit == GatewayInit => RoutingInv
<1> SUFFICES ASSUME GatewayInit PROVE RoutingInv
  OBVIOUS
<1>1. Shape
  BY DEF GatewayInit, Shape
<1>2. UNION {held[c] : c \in Conns} = {}
  BY DEF GatewayInit
<1>3. RoutesExact
  BY <1>2 DEF GatewayInit, RoutesExact
<1>4. LiveExact /\ HeldLive /\ JobsLive
  BY DEF GatewayInit, LiveExact, HeldLive, JobsLive, LivePhases, NoJob
<1> QED BY <1>1, <1>3, <1>4 DEF RoutingInv

\* A step that leaves the routing alone and moves no connection into or out
\* of Hub.conns.
LEMMA RoutingKept ==
    ASSUME RoutingInv, UNCHANGED <<subs, live, held>>, Shape',
           \A c \in Conns : phase'[c] \in LivePhases <=> phase[c] \in LivePhases,
           JobsLive'
    PROVE  RoutingInv'
<1>1. RoutesExact'
  BY DEF RoutingInv, RoutesExact
<1>2. LiveExact' /\ HeldLive'
  BY DEF RoutingInv, LiveExact, HeldLive
<1> QED BY <1>1, <1>2 DEF RoutingInv

LEMMA RegisterRoutes ==
    ASSUME RoutingInv, NEW c \in Conns, Register(c)
    PROVE  RoutingInv'
<1>1. Shape /\ RoutesExact /\ LiveExact /\ HeldLive /\ JobsLive
  BY DEF RoutingInv
<1>2. job' = [job EXCEPT ![c] = NoJob] /\ phase[c] = "restored"
  BY DEF Register
<1>3. NoJob.op = "none"
  BY DEF NoJob
<1>4. CASE Closed
  <2>1. phase' = [phase EXCEPT ![c] = "refused"] /\ UNCHANGED <<subs, live, held>>
    BY <1>4 DEF Register, hubVars
  <2>2. Shape'
    BY <1>1, <1>2, <2>1 DEF Shape
  <2>3. \A x \in Conns : phase'[x] \in LivePhases <=> phase[x] \in LivePhases
    BY <1>1, <1>2, <2>1 DEF Shape, LivePhases
  <2>4. JobsLive'
    BY <1>1, <1>2, <1>3, <2>1 DEF Shape, JobsLive
  <2> QED BY <2>1, <2>2, <2>3, <2>4, RoutingKept
<1>5. CASE ~Closed
  <2> DEFINE chs == Sq!ToSet(job[c].channels)
  <2>1. AddRoutes(c, chs) /\ live' = live \cup {c} /\ phase' = [phase EXCEPT ![c] = "registered"]
    BY <1>5 DEF Register
  <2> HIDE DEF chs
  <2>2. held' = [held EXCEPT ![c] = @ \cup chs]
    BY <2>1 DEF AddRoutes
  <2>3. Shape'
    BY <1>1, <1>2, <2>1, <2>2 DEF Shape
  <2>4. RoutesExact'
    BY <1>1, <2>1, AddRoutesExact
  <2>5. LiveExact'
    BY <1>1, <2>1 DEF LiveExact, LivePhases, Shape
  <2>6. HeldLive'
    BY <1>1, <2>1, <2>2 DEF HeldLive, Shape
  <2>7. JobsLive'
    BY <1>1, <1>2, <1>3, <2>1 DEF JobsLive, Shape
  <2> QED BY <2>3, <2>4, <2>5, <2>6, <2>7 DEF RoutingInv
<1> QED BY <1>4, <1>5

LEMMA UnregisterRoutes ==
    ASSUME RoutingInv, NEW c \in Conns, Unregister(c)
    PROVE  RoutingInv'
<1>1. Shape /\ RoutesExact /\ LiveExact /\ HeldLive /\ JobsLive
  BY DEF RoutingInv
<1>2. /\ phase[c] = "closing" /\ job[c] = NoJob /\ job' = job
      /\ phase' = [phase EXCEPT ![c] = "gone"]
      /\ live' = live \ {c}
      /\ RemoveRoutes(c, held[c])
  BY DEF Unregister, Ready
<1>3. held' = [held EXCEPT ![c] = @ \ held[c]]
  BY <1>2 DEF RemoveRoutes
<1>4. Shape'
  BY <1>1, <1>2, <1>3 DEF Shape
<1>5. RoutesExact'
  BY <1>1, <1>2, RemoveRoutesExact
<1>6. LiveExact'
  BY <1>1, <1>2 DEF LiveExact, LivePhases, Shape
<1>7. HeldLive'
  BY <1>1, <1>2, <1>3 DEF HeldLive, Shape
<1>8. JobsLive'
  BY <1>1, <1>2 DEF JobsLive, Shape, NoJob
<1> QED BY <1>4, <1>5, <1>6, <1>7, <1>8 DEF RoutingInv

\* The second critical section of subscribe, and unsubscribe.
LEMMA RequestRoutes ==
    ASSUME RoutingInv, NEW c \in Conns, AttachSubscribe(c) \/ Unsubscribe(c)
    PROVE  RoutingInv'
<1>1. Shape /\ RoutesExact /\ LiveExact /\ HeldLive /\ JobsLive
  BY DEF RoutingInv
<1>2. CASE AttachSubscribe(c)
  <2> DEFINE chs == Sq!ToSet(job[c].channels)
  <2>1. /\ AddRoutes(c, chs) /\ job[c].op = "subscribe"
        /\ job' = [job EXCEPT ![c] = NoJob] /\ live' = live /\ phase' = phase
    BY <1>2 DEF AttachSubscribe
  <2> HIDE DEF chs
  <2>2. held' = [held EXCEPT ![c] = @ \cup chs]
    BY <2>1 DEF AddRoutes
  <2>3. Shape'
    BY <1>1, <2>1, <2>2 DEF Shape
  <2>4. RoutesExact'
    BY <1>1, <2>1, AddRoutesExact
  <2>5. c \in live
    BY <1>1, <2>1 DEF JobsLive, LiveExact, LivePhases
  <2>6. LiveExact' /\ HeldLive'
    BY <1>1, <2>1, <2>2, <2>5 DEF LiveExact, HeldLive, Shape
  <2>7. JobsLive'
    BY <1>1, <2>1 DEF JobsLive, Shape, NoJob
  <2> QED BY <2>3, <2>4, <2>6, <2>7 DEF RoutingInv
<1>3. CASE Unsubscribe(c)
  <2>1. PICK chs : /\ RemoveRoutes(c, chs)
                   /\ job' = job /\ live' = live /\ phase' = phase
    BY <1>3 DEF Unsubscribe
  <2>2. held' = [held EXCEPT ![c] = @ \ chs]
    BY <2>1 DEF RemoveRoutes
  <2>3. Shape'
    BY <1>1, <2>1, <2>2 DEF Shape
  <2>4. RoutesExact'
    BY <1>1, <2>1, RemoveRoutesExact
  <2>5. LiveExact' /\ HeldLive'
    BY <1>1, <2>1, <2>2 DEF LiveExact, HeldLive, Shape
  <2>6. JobsLive'
    BY <1>1, <2>1 DEF JobsLive
  <2> QED BY <2>3, <2>4, <2>5, <2>6 DEF RoutingInv
<1> QED BY <1>2, <1>3

\* Every other action leaves the routing alone.
LEMMA OtherRoutes ==
    ASSUME RoutingInv, NEW c \in Conns,
           \/ Upgrade(c) \/ Restore(c) \/ Serve(c) \/ Close(c)
           \/ ClassifySubscribe(c) \/ PickResync(c) \/ AttachResync(c)
           \/ Transmit(c) \/ Asks(c) \/ Receives(c) \/ Farewell(c) \/ CloseForShutdown(c)
    PROVE  RoutingInv'
<1>1. Shape /\ JobsLive
  BY DEF RoutingInv
<1>2. UNCHANGED <<subs, live, held>>
  BY DEF Upgrade, Restore, Serve, Close, ClassifySubscribe, PickResync, AttachResync, Transmit,
         Asks, Receives, Farewell, CloseForShutdown, hubVars
<1> SUFFICES Shape' /\ JobsLive'
             /\ \A x \in Conns : phase'[x] \in LivePhases <=> phase[x] \in LivePhases
  BY <1>2, RoutingKept
<1>3. held' = held
  BY <1>2
<1>4. CASE UNCHANGED <<phase, job>>
  BY <1>1, <1>3, <1>4 DEF Shape, JobsLive
<1>5. CASE Upgrade(c)
  <2>1. phase[c] = "idle" /\ phase' = [phase EXCEPT ![c] = "upgraded"] /\ job' = job
    BY <1>5 DEF Upgrade
  <2> QED BY <1>1, <1>3, <2>1 DEF Shape, JobsLive, LivePhases
<1>6. CASE Restore(c)
  <2>1. phase[c] = "upgraded"
    BY <1>6 DEF Restore
  <2>2. CASE phase' = [phase EXCEPT ![c] = "refused"] /\ job' = job
    BY <1>1, <1>3, <2>1, <2>2 DEF Shape, JobsLive, LivePhases
  <2>3. ASSUME NEW chs, job' = [job EXCEPT ![c] = [op |-> "register", channels |-> chs]],
               phase' = [phase EXCEPT ![c] = "restored"]
        PROVE  /\ Shape' /\ JobsLive'
               /\ \A x \in Conns : phase'[x] \in LivePhases <=> phase[x] \in LivePhases
    <3>1. Shape'
      BY <1>1, <1>3, <2>3 DEF Shape
    <3>2. \A x \in Conns : phase'[x] \in LivePhases <=> phase[x] \in LivePhases
      BY <1>1, <2>1, <2>3 DEF Shape, LivePhases
    <3>3. JobsLive'
      BY <1>1, <2>1, <2>3 DEF Shape, JobsLive
    <3> QED BY <3>1, <3>2, <3>3
  <2> QED BY <1>6, <2>2, <2>3 DEF Restore
<1>7. CASE Serve(c)
  <2>1. phase[c] = "registered" /\ phase' = [phase EXCEPT ![c] = "serving"] /\ job' = job
    BY <1>7 DEF Serve
  <2> QED BY <1>1, <1>3, <2>1 DEF Shape, JobsLive, LivePhases
<1>8. CASE Close(c)
  <2>1. Open(c) /\ phase' = [phase EXCEPT ![c] = "closing"] /\ job' = job
    BY <1>8 DEF Close
  <2> QED BY <1>1, <1>3, <2>1 DEF Shape, JobsLive, LivePhases, Open
<1>9. CASE ClassifySubscribe(c) \/ PickResync(c)
  <2>1. PICK j : job' = [job EXCEPT ![c] = j]
    BY <1>9 DEF ClassifySubscribe, PickResync
  <2>2. phase[c] = "serving" /\ phase' = phase
    BY <1>9 DEF ClassifySubscribe, PickResync, Requested
  <2> QED BY <1>1, <1>3, <2>1, <2>2 DEF Shape, JobsLive
<1>10. CASE AttachResync(c)
  <2>1. job' = [job EXCEPT ![c] = NoJob] /\ phase' = phase
    BY <1>10 DEF AttachResync
  <2> QED BY <1>1, <1>3, <2>1 DEF Shape, JobsLive, NoJob
<1>11. CASE CloseForShutdown(c)
  <2>1. phase' = [phase EXCEPT ![c] = IF Open(c) THEN "closing" ELSE @] /\ job' = job
    BY <1>11 DEF CloseForShutdown
  <2> QED BY <1>1, <1>3, <2>1 DEF Shape, JobsLive, LivePhases, Open
<1>12. CASE Transmit(c) \/ Asks(c) \/ Receives(c) \/ Farewell(c)
  BY <1>4, <1>12 DEF Transmit, Asks, Receives, Farewell
<1> QED BY <1>5, <1>6, <1>7, <1>8, <1>9, <1>10, <1>11, <1>12

LEMMA RoutingStep == RoutingInv /\ [GatewayNext]_gatewayVars => RoutingInv'
<1> SUFFICES ASSUME RoutingInv, [GatewayNext]_gatewayVars PROVE RoutingInv'
  OBVIOUS
<1>1. Shape /\ JobsLive
  BY DEF RoutingInv
<1>2. CASE UNCHANGED <<subs, live, held, phase, job>>
  <2>1. Shape' /\ JobsLive'
    BY <1>1, <1>2 DEF Shape, JobsLive
  <2>2. phase' = phase
    BY <1>2
  <2> QED BY <1>2, <2>1, <2>2, RoutingKept
<1>3. ASSUME NEW d \in Deliveries, Publish(d) PROVE RoutingInv'
  BY <1>2, <1>3 DEF Publish, hubVars
<1>4. CASE BeginShutdown \/ Collect
  BY <1>2, <1>4 DEF BeginShutdown, Collect, hubVars, connVars
<1>5. CASE UNCHANGED gatewayVars
  BY <1>2, <1>5 DEF gatewayVars, hubVars, connVars
<1>6. ASSUME NEW c \in Conns, Register(c) \/ Unregister(c) \/ AttachSubscribe(c) \/ Unsubscribe(c)
      PROVE  RoutingInv'
  BY <1>6, RegisterRoutes, UnregisterRoutes, RequestRoutes
<1>7. ASSUME NEW c \in Conns,
             \/ Upgrade(c) \/ Restore(c) \/ Serve(c) \/ Close(c)
             \/ ClassifySubscribe(c) \/ PickResync(c) \/ AttachResync(c)
             \/ Transmit(c) \/ Asks(c) \/ Receives(c) \/ Farewell(c) \/ CloseForShutdown(c)
      PROVE  RoutingInv'
  BY <1>7, OtherRoutes
<1> QED
  BY <1>3, <1>4, <1>5, <1>6, <1>7 DEF GatewayNext, HubNext, ShuttingDown, Handling

\* What a subscriber list says and what a connection holds never differ, under
\* any interleaving of requests, registrations and teardown: no channel keeps a
\* bucket without a subscriber, and no connection that left is in one.
THEOREM RoutingCorrect == GatewaySpec => []RoutesMatchHeld
<1>1. RoutingInv => RoutesMatchHeld
  BY DEF RoutingInv, RoutesExact, HeldLive, RoutesMatchHeld
<1> QED BY <1>1, RoutingInit, RoutingStep, PTL DEF GatewaySpec

-----------------------------------------------------------------------------
(* Shutdown *)

ShutdownInv ==
    /\ shutdown = [stage |-> shutdown.stage, told |-> shutdown.told, toClose |-> shutdown.toClose]
    /\ NobodyAdmittedLate

LEMMA ShutdownStep ==
    ASSUME RoutingInv, ShutdownInv, [GatewayNext]_gatewayVars PROVE ShutdownInv'
<1>1. Shape /\ LiveExact /\ NobodyAdmittedLate
  BY DEF RoutingInv, ShutdownInv
<1>2. shutdown = [stage |-> shutdown.stage, told |-> shutdown.told, toClose |-> shutdown.toClose]
  BY DEF ShutdownInv
<1>3. ASSUME shutdown' = shutdown,
             Closed => \A c \in Conns : phase'[c] \in {"registered", "serving"} => Open(c)
      PROVE  ShutdownInv'
  BY <1>1, <1>2, <1>3 DEF ShutdownInv, NobodyAdmittedLate, Open, Closed
<1>4. ASSUME NEW d \in Deliveries, Publish(d) PROVE ShutdownInv'
  BY <1>3, <1>4 DEF Publish, Open
<1>5. CASE UNCHANGED gatewayVars
  BY <1>3, <1>5 DEF gatewayVars, connVars, Open
<1>6. CASE BeginShutdown
  BY <1>2, <1>6 DEF BeginShutdown, ShutdownInv, NobodyAdmittedLate
<1>7. CASE Collect
  <2>1. /\ shutdown' = [stage |-> "collected", told |-> {}, toClose |-> live]
        /\ phase' = phase
    BY <1>7 DEF Collect, connVars
  <2> QED BY <1>1, <2>1 DEF ShutdownInv, NobodyAdmittedLate, LiveExact, LivePhases, Open
<1>8. ASSUME NEW c \in Conns, Farewell(c) PROVE ShutdownInv'
  <2>1. /\ shutdown' = [shutdown EXCEPT !.told = @ \cup {c}]
        /\ phase' = phase
    BY <1>8 DEF Farewell
  <2> QED BY <1>1, <1>2, <2>1 DEF ShutdownInv, NobodyAdmittedLate, Open
<1>9. ASSUME NEW c \in Conns, CloseForShutdown(c) PROVE ShutdownInv'
  <2>1. /\ shutdown' = [shutdown EXCEPT !.toClose = @ \ {c}]
        /\ phase' = [phase EXCEPT ![c] = IF Open(c) THEN "closing" ELSE @]
    BY <1>9 DEF CloseForShutdown
  <2>2. shutdown'.stage = shutdown.stage /\ shutdown'.toClose = shutdown.toClose \ {c}
    BY <1>2, <2>1
  <2>3. \A x \in Conns : Open(x)' => Open(x) /\ x # c
    BY <1>1, <2>1 DEF Shape, Open
  <2>4. NobodyAdmittedLate'
    BY <1>1, <2>2, <2>3 DEF NobodyAdmittedLate
  <2> QED BY <1>2, <2>1, <2>4 DEF ShutdownInv
<1>10. ASSUME NEW c \in Conns, Register(c) PROVE ShutdownInv'
  <2>1. shutdown' = shutdown
    BY <1>10 DEF Register
  <2>2. CASE Closed
    <3>1. phase' = [phase EXCEPT ![c] = "refused"]
      BY <1>10, <2>2 DEF Register
    <3> QED BY <1>1, <1>3, <2>1, <3>1 DEF Shape, Open
  <2>3. CASE ~Closed
    BY <1>3, <2>1, <2>3
  <2> QED BY <2>2, <2>3
<1>11. ASSUME NEW c \in Conns, NEW p, shutdown' = shutdown,
              phase' = [phase EXCEPT ![c] = p],
              p \in {"registered", "serving"} => Open(c)
       PROVE  ShutdownInv'
  BY <1>1, <1>3, <1>11 DEF Shape, Open
<1>12. ASSUME NEW c \in Conns, Upgrade(c) \/ Restore(c) \/ Serve(c) \/ Close(c) \/ Unregister(c)
       PROVE  ShutdownInv'
  <2>1. shutdown' = shutdown
    BY <1>12 DEF Upgrade, Restore, Serve, Close, Unregister
  <2>2. PICK p : /\ phase' = [phase EXCEPT ![c] = p]
                 /\ p \in {"registered", "serving"} => Open(c)
    BY <1>12 DEF Upgrade, Restore, Serve, Close, Unregister, Open
  <2> QED BY <1>11, <2>1, <2>2
<1>13. ASSUME NEW c \in Conns, Handling(c) \/ Transmit(c) \/ Asks(c) \/ Receives(c)
       PROVE  ShutdownInv'
  <2>1. shutdown' = shutdown /\ phase' = phase
    BY <1>13 DEF Handling, Unsubscribe, ClassifySubscribe, AttachSubscribe, PickResync,
                 AttachResync, Transmit, Asks, Receives
  <2> QED BY <1>3, <2>1 DEF Open
<1> QED
  BY <1>4, <1>5, <1>6, <1>7, <1>8, <1>9, <1>10, <1>12, <1>13
     DEF GatewayNext, HubNext, ShuttingDown

\* Once Shutdown has collected the connections, none is open that it does not
\* know of: the flag it sets first is read again under the lock that admits.
THEOREM ShutdownMissesNobody == GatewaySpec => []NobodyAdmittedLate
<1>1. GatewayInit => ShutdownInv
  BY DEF GatewayInit, ShutdownInv, NobodyAdmittedLate
<1>2. RoutingInv /\ ShutdownInv /\ [GatewayNext]_gatewayVars => RoutingInv' /\ ShutdownInv'
  BY RoutingStep, ShutdownStep
<1>3. ShutdownInv => NobodyAdmittedLate
  BY DEF ShutdownInv
<1> QED BY <1>1, <1>2, <1>3, RoutingInit, PTL DEF GatewaySpec
-----------------------------------------------------------------------------
(* Sequences taken from sequences and sets *)

\* The elements of a finite set of naturals have the ranks 1 to its size.
LEMMA Ranks ==
    ASSUME NEW keep, keep \subseteq Nat, IsFiniteSet(keep)
    PROVE  /\ Cardinality(keep) \in Nat
           /\ \A j \in keep : Cardinality({k \in keep : k <= j}) \in 1 .. Cardinality(keep)
           /\ \A i, j \in keep : i < j <=> Cardinality({k \in keep : k <= i})
                                             < Cardinality({k \in keep : k <= j})
           /\ \A i \in 1 .. Cardinality(keep) :
                \E j \in keep : Cardinality({k \in keep : k <= j}) = i
<1> DEFINE UpTo(j) == {k \in keep : k <= j}
           rank == [j \in keep |-> Cardinality(UpTo(j))]
           N == Cardinality(keep)
<1>1. N \in Nat
  BY FS_CardinalityType
<1>2. \A j \in keep : /\ UpTo(j) \in SUBSET keep /\ IsFiniteSet(UpTo(j))
                      /\ Cardinality(UpTo(j)) \in Nat /\ Cardinality(UpTo(j)) <= N
                      /\ Cardinality(UpTo(j)) # 0
  <2> SUFFICES ASSUME NEW j \in keep
               PROVE  /\ UpTo(j) \in SUBSET keep /\ IsFiniteSet(UpTo(j))
                      /\ Cardinality(UpTo(j)) \in Nat /\ Cardinality(UpTo(j)) <= N
                      /\ Cardinality(UpTo(j)) # 0
    OBVIOUS
  <2>1. UpTo(j) \in SUBSET keep /\ j \in UpTo(j)
    OBVIOUS
  <2> HIDE DEF UpTo
  <2>2. IsFiniteSet(UpTo(j)) /\ Cardinality(UpTo(j)) <= N
    BY <2>1, FS_Subset
  <2>3. Cardinality(UpTo(j)) \in Nat
    BY <2>2, FS_CardinalityType
  <2>4. Cardinality(UpTo(j)) # 0
    BY <2>1, <2>2, FS_EmptySet
  <2> QED BY <2>1, <2>2, <2>3, <2>4
<1>3. \A i, j \in keep : i < j => Cardinality(UpTo(i)) < Cardinality(UpTo(j))
  <2> SUFFICES ASSUME NEW i \in keep, NEW j \in keep, i < j
               PROVE  Cardinality(UpTo(i)) < Cardinality(UpTo(j))
    OBVIOUS
  <2>1. UpTo(i) \in SUBSET UpTo(j) /\ UpTo(i) # UpTo(j)
    <3>1. \A k \in keep : k <= i => k <= j
      OBVIOUS
    <3>2. j \in UpTo(j) /\ j \notin UpTo(i)
      OBVIOUS
    <3> QED BY <3>1, <3>2
  <2> HIDE DEF UpTo
  <2>2. Cardinality(UpTo(i)) <= Cardinality(UpTo(j)) /\ Cardinality(UpTo(i)) # Cardinality(UpTo(j))
    BY <1>2, <2>1, FS_Subset
  <2> QED BY <1>2, <2>2
<1>4. rank \in Injection(keep, 1 .. N)
  <2>1. \A j \in keep : Cardinality(UpTo(j)) \in 1 .. N
    <3> HIDE DEF UpTo, N
    <3> QED BY <1>1, <1>2
  <2>2. \A i, j \in keep : Cardinality(UpTo(i)) = Cardinality(UpTo(j)) => i = j
    <3> HIDE DEF UpTo, N
    <3> QED BY <1>2, <1>3
  <2> HIDE DEF UpTo, N
  <2> QED BY <2>1, <2>2 DEF Injection, IsInjective
<1>5. IsFiniteSet(1 .. N) /\ Cardinality(1 .. N) = N
  <2> HIDE DEF N
  <2>1. 1 \in Int /\ N \in Int
    BY <1>1
  <2> QED BY <1>1, <2>1, FS_Interval
<1>6. rank \in Surjection(keep, 1 .. N)
  <2> HIDE DEF rank
  <2> QED BY <1>4, <1>5, FS_Injection
<1>7. \A i \in 1 .. N : \E j \in keep : Cardinality(UpTo(j)) = i
  <2> HIDE DEF UpTo, N
  <2> QED BY <1>6 DEF Surjection
<1>8. \A i, j \in keep : i < j <=> Cardinality(UpTo(i)) < Cardinality(UpTo(j))
  <2> HIDE DEF UpTo, N
  <2> SUFFICES ASSUME NEW i \in keep, NEW j \in keep, Cardinality(UpTo(i)) < Cardinality(UpTo(j)), ~(i < j)
               PROVE  FALSE
    BY <1>3
  <2>1. i \in Nat /\ j \in Nat
    OBVIOUS
  <2>2. i = j \/ j < i
    BY <2>1
  <2> QED BY <1>2, <1>3, <2>2
<1>9. \A j \in keep : Cardinality(UpTo(j)) \in 1 .. N
  <2> HIDE DEF UpTo, N
  <2> QED BY <1>1, <1>2
<1> QED BY <1>1, <1>7, <1>8, <1>9

\* f is the order in which Taken keeps the positions of s in keep.
Picks(f, s, keep) ==
    /\ f \in [1 .. Cardinality(keep) -> keep]
    /\ Taken(s, keep) = [i \in 1 .. Cardinality(keep) |-> s[f[i]]]
    /\ \A j \in keep : \E i \in 1 .. Cardinality(keep) : f[i] = j
    /\ \A i, j \in 1 .. Cardinality(keep) : i < j <=> f[i] < f[j]

\* What Taken keeps, and in which order.
LEMMA TakenFacts ==
    ASSUME NEW s, NEW n \in Nat, DOMAIN s = 1 .. n, NEW keep, keep \subseteq DOMAIN s
    PROVE  /\ IsFiniteSet(keep) /\ Cardinality(keep) \in 0 .. n
           /\ \E f : Picks(f, s, keep)
           /\ Sq!ToSet(Taken(s, keep)) = {s[i] : i \in keep}
<1> DEFINE N == Cardinality(keep)
           Rank(j) == Cardinality({k \in keep : k <= j})
           f == [i \in 1 .. N |-> CHOOSE j \in keep : Rank(j) = i]
<1>1. IsFiniteSet(keep) /\ N <= n
  <2>1. IsFiniteSet(1 .. n) /\ Cardinality(1 .. n) = n
    <3>1. 1 \in Int /\ n \in Int
      OBVIOUS
    <3> QED BY <3>1, FS_Interval
  <2>2. keep \in SUBSET (1 .. n)
    OBVIOUS
  <2> QED BY <2>1, <2>2, FS_Subset
<1>2. /\ N \in Nat
      /\ \A j \in keep : Rank(j) \in 1 .. N
      /\ \A i, j \in keep : i < j <=> Rank(i) < Rank(j)
      /\ \A i \in 1 .. N : \E j \in keep : Rank(j) = i
  <2>1. keep \subseteq Nat
    OBVIOUS
  <2> QED BY <1>1, <2>1, Ranks
<1> HIDE DEF Rank, N
<1>3. \A i \in 1 .. N : f[i] \in keep /\ Rank(f[i]) = i
  BY <1>2
<1>4. \A j \in keep : f[Rank(j)] = j
  <2> SUFFICES ASSUME NEW j \in keep PROVE f[Rank(j)] = j
    OBVIOUS
  <2>1. Rank(j) \in 1 .. N /\ f[Rank(j)] \in keep /\ Rank(f[Rank(j)]) = Rank(j)
    BY <1>2, <1>3
  <2> HIDE DEF f
  <2>2. ~(f[Rank(j)] < j) /\ ~(j < f[Rank(j)])
    BY <1>2, <2>1
  <2>3. f[Rank(j)] \in Nat /\ j \in Nat
    BY <2>1
  <2> QED BY <2>2, <2>3
<1>5. f \in [1 .. N -> keep]
  BY <1>3
<1>6. Taken(s, keep) = [i \in 1 .. N |-> s[f[i]]]
  BY DEF Taken, N, Rank
<1>7. \A i, j \in 1 .. N : i < j <=> f[i] < f[j]
  <2> HIDE DEF f
  <2> QED BY <1>2, <1>3
<1>8. \A j \in keep : \E i \in 1 .. N : f[i] = j
  <2> HIDE DEF f
  <2> QED BY <1>2, <1>4
<1>9. Sq!ToSet(Taken(s, keep)) = {s[i] : i \in keep}
  <2> HIDE DEF f
  <2> QED BY <1>3, <1>6, <1>8 DEF Sq!ToSet
<1>10. N \in 0 .. n
  BY <1>1, <1>2
<1> HIDE DEF f
<1>11. Picks(f, s, keep)
  BY <1>5, <1>6, <1>7, <1>8 DEF N, Picks
<1> QED BY <1>1, <1>9, <1>10, <1>11 DEF N

\* Taken from a sequence over a set is one.
LEMMA TakenType ==
    ASSUME NEW S, NEW s \in Seq(S), NEW keep, keep \subseteq DOMAIN s
    PROVE  /\ Taken(s, keep) \in Seq(S)
           /\ Sq!ToSet(Taken(s, keep)) = {s[i] : i \in keep}
           /\ Len(Taken(s, keep)) <= Len(s)
           /\ Len(Taken(s, keep)) = Cardinality(keep)
           /\ IsFiniteSet(keep) /\ Cardinality(keep) \in Nat
<1>1. Len(s) \in Nat /\ DOMAIN s = 1 .. Len(s) /\ \A i \in DOMAIN s : s[i] \in S
  OBVIOUS
<1>2. /\ IsFiniteSet(keep) /\ Cardinality(keep) \in 0 .. Len(s)
      /\ \E f : Picks(f, s, keep)
      /\ Sq!ToSet(Taken(s, keep)) = {s[i] : i \in keep}
  BY <1>1, TakenFacts
<1>3. PICK f : Picks(f, s, keep)
  BY <1>2
<1>4. \A i \in 1 .. Cardinality(keep) : s[f[i]] \in S
  BY <1>1, <1>3 DEF Picks
<1>5. Cardinality(keep) \in Nat /\ Cardinality(keep) <= Len(s)
  BY <1>1, <1>2
<1>6. Taken(s, keep) \in Seq(S) /\ Len(Taken(s, keep)) = Cardinality(keep)
  <2> DEFINE n == Cardinality(keep)
  <2> HIDE DEF n
  <2>1. [i \in 1 .. n |-> s[f[i]]] \in Seq(S) /\ Len([i \in 1 .. n |-> s[f[i]]]) = n
    BY <1>4, <1>5 DEF n
  <2> QED BY <1>3, <2>1 DEF n, Picks
<1> QED BY <1>2, <1>5, <1>6

\* Those of a sequence that are members of a set.
LEMMA AmongType ==
    ASSUME NEW S, NEW s \in Seq(S), NEW set
    PROVE  /\ Among(s, set) \in Seq(S)
           /\ Sq!ToSet(Among(s, set)) = Sq!ToSet(s) \cap set
<1> DEFINE keep == {i \in DOMAIN s : s[i] \in set}
<1>1. keep \subseteq DOMAIN s
  OBVIOUS
<1>2. Among(s, set) \in Seq(S) /\ Sq!ToSet(Among(s, set)) = {s[i] : i \in keep}
  BY <1>1, TakenType DEF Among
<1> QED BY <1>2 DEF Sq!ToSet

\* The elements of a sequence are finitely many, and no more than its length.
LEMMA ElementsFinite ==
    ASSUME NEW S, NEW s \in Seq(S)
    PROVE  /\ Sq!ToSet(s) \subseteq S
           /\ IsFiniteSet(Sq!ToSet(s)) /\ Cardinality(Sq!ToSet(s)) <= Len(s)
           /\ Cardinality(Sq!ToSet(s)) \in Nat
<1>1. /\ Len(s) \in Nat /\ DOMAIN s = 1 .. Len(s) /\ s = [i \in 1 .. Len(s) |-> s[i]]
      /\ \A i \in DOMAIN s : s[i] \in S
  OBVIOUS
<1>2. s \in Surjection(1 .. Len(s), Sq!ToSet(s))
  BY <1>1 DEF Surjection, Sq!ToSet
<1>3. IsFiniteSet(1 .. Len(s)) /\ Cardinality(1 .. Len(s)) = Len(s)
  <2> DEFINE n == Len(s)
  <2> HIDE DEF n
  <2>1. 1 \in Int /\ n \in Nat /\ n \in Int
    BY <1>1 DEF n
  <2>2. IsFiniteSet(1 .. n) /\ Cardinality(1 .. n) = n
    BY <2>1, FS_Interval
  <2> QED BY <2>2 DEF n
<1>4. IsFiniteSet(Sq!ToSet(s)) /\ Cardinality(Sq!ToSet(s)) <= Len(s)
  BY <1>2, <1>3, FS_Surjection
<1> QED BY <1>1, <1>4, FS_CardinalityType DEF Sq!ToSet

\* A finite set listed.
LEMMA ListedFacts ==
    ASSUME NEW S, IsFiniteSet(S)
    PROVE  Sq!SetToSeq(S) \in Seq(S) /\ Sq!ToSet(Sq!SetToSeq(S)) = S
<1> DEFINE N == Cardinality(S)
<1>1. N \in Nat /\ ExistsBijection(1 .. N, S)
  BY FS_CardinalityType
<1>2. \E f \in [1 .. N -> S] : Sq!IsInjective(f)
  <2>1. PICK f : f \in Bijection(1 .. N, S)
    BY <1>1 DEF ExistsBijection
  <2> QED BY <2>1 DEF Bijection, Injection, IsInjective, Sq!IsInjective
<1>3. Sq!SetToSeq(S) \in [1 .. N -> S] /\ Sq!IsInjective(Sq!SetToSeq(S))
  <2>1. Sq!Cardinality(S) = Cardinality(S)
    BY DEF Sq!Cardinality, Cardinality
  <2>2. Sq!SetToSeq(S) = CHOOSE f \in [1 .. N -> S] : Sq!IsInjective(f)
    BY <2>1 DEF Sq!SetToSeq
  <2> QED BY <1>2, <2>2
<1>4. Sq!SetToSeq(S) \in Injection(1 .. N, S)
  BY <1>3 DEF Injection, IsInjective, Sq!IsInjective
<1>5. IsFiniteSet(1 .. N) /\ Cardinality(1 .. N) = N
  <2> HIDE DEF N
  <2>1. 1 \in Int /\ N \in Int
    BY <1>1
  <2> QED BY <1>1, <2>1, FS_Interval
<1>6. Sq!SetToSeq(S) \in Surjection(1 .. N, S)
  BY <1>4, <1>5, FS_Injection
<1> HIDE DEF N
<1> QED BY <1>1, <1>3, <1>6 DEF Surjection, Sq!ToSet

-----------------------------------------------------------------------------
(* Queueing several frames *)

\* A set of naturals has a least element: induction is by the least counterexample.
LEMMA LeastOf ==
    ASSUME NEW T, T \subseteq Nat, T # {}
    PROVE  \E n \in T : \A m \in T : n <= m
<1> DEFINE F == {1 .. n : n \in T}
<1>1. \A n \in T : 1 .. n \in FiniteSubsetsOf(Nat)
  <2> SUFFICES ASSUME NEW n \in T PROVE 1 .. n \in FiniteSubsetsOf(Nat)
    OBVIOUS
  <2>1. n \in Int /\ 1 \in Int /\ 1 .. n \subseteq Nat
    OBVIOUS
  <2>2. IsFiniteSet(1 .. n)
    BY <2>1, FS_Interval
  <2> QED BY <2>1, <2>2 DEF FiniteSubsetsOf
<1>2. F # {} /\ F \subseteq FiniteSubsetsOf(Nat)
  BY <1>1
<1> HIDE DEF F
<1>3. PICK I \in F : \A J \in F : ~(<<J, I>> \in StrictSubsetOrdering(Nat))
  BY <1>2, FS_StrictSubsetOrderingWellFounded, WFMin
<1>4. PICK n \in T : I = 1 .. n
  BY <1>3 DEF F
<1>5. ASSUME NEW m \in T, m < n PROVE FALSE
  <2>1. 1 .. m \in F /\ 1 .. m \in SUBSET Nat /\ 1 .. n \in SUBSET Nat
    BY DEF F
  <2>2. 1 .. m \subseteq 1 .. n /\ 1 .. m # 1 .. n
    <3>1. n \in 1 .. n /\ n \notin 1 .. m
      BY <1>5
    <3> QED BY <1>5, <3>1
  <2>3. <<1 .. m, 1 .. n>> \in StrictSubsetOrdering(Nat)
    BY <2>1, <2>2 DEF StrictSubsetOrdering
  <2> QED BY <1>3, <1>4, <2>1, <2>3
<1> QED BY <1>5

\* after, of EnqueueAll: the states the link may be in after the first n bodies.
Follows(after, l, bodies, writing, N) ==
    after = [n \in 0 .. N |->
                IF n = 0 THEN {l}
                ELSE UNION {Enqueue(x, bodies[n], writing) : x \in after[n - 1]}]

\* It exists: the least number of bodies without one is not least.
LEMMA FollowsExists ==
    ASSUME NEW l, NEW bodies, NEW writing, NEW N \in Nat
    PROVE  \E after : Follows(after, l, bodies, writing, N)
<1> DEFINE Without == {n \in Nat : ~ \E f : Follows(f, l, bodies, writing, n)}
           Next(S, n) == UNION {Enqueue(x, bodies[n], writing) : x \in S}
<1>1. \A f, n : Follows(f, l, bodies, writing, n)
        <=> f = [m \in 0 .. n |-> IF m = 0 THEN {l} ELSE Next(f[m - 1], m)]
  BY DEF Follows
<1> HIDE DEF Next
<1>2. ASSUME Without # {} PROVE FALSE
  <2>1. PICK n \in Without : \A m \in Without : n <= m
    <3> HIDE DEF Without
    <3> SUFFICES Without \subseteq Nat
      BY <1>2, LeastOf
    <3> QED BY DEF Without
  <2>2. n \in Nat
    OBVIOUS
  <2>3. n # 0
    <3> SUFFICES ASSUME n = 0 PROVE FALSE
      OBVIOUS
    <3> DEFINE z == [m \in 0 .. 0 |-> {l}]
    <3>1. z = [m \in 0 .. 0 |-> IF m = 0 THEN {l} ELSE Next(z[m - 1], m)]
      OBVIOUS
    <3> HIDE DEF z
    <3> QED BY <1>1, <3>1
  <2>4. n - 1 \in Nat /\ ~(n <= n - 1)
    BY <2>2, <2>3
  <2>5. n - 1 \notin Without
    <3> HIDE DEF Without
    <3> QED BY <2>1, <2>4
  <2>6. PICK f : Follows(f, l, bodies, writing, n - 1)
    BY <2>4, <2>5
  <2>7. f = [m \in 0 .. (n - 1) |-> IF m = 0 THEN {l} ELSE Next(f[m - 1], m)]
    BY <1>1, <2>6
  <2> DEFINE g == [m \in 0 .. n |-> IF m = n THEN Next(f[n - 1], n) ELSE f[m]]
  <2>8. \A m \in 0 .. n : g[m] = IF m = 0 THEN {l} ELSE Next(g[m - 1], m)
    <3> SUFFICES ASSUME NEW m \in 0 .. n PROVE g[m] = IF m = 0 THEN {l} ELSE Next(g[m - 1], m)
      OBVIOUS
    <3>1. CASE m = n
      <4>1. n - 1 \in 0 .. n /\ n - 1 # n /\ m # 0
        BY <2>2, <2>3, <3>1
      <4>2. g[n - 1] = f[n - 1]
        BY <4>1
      <4> QED BY <4>1, <4>2, <3>1
    <3>2. CASE m # n
      <4>1. m \in 0 .. (n - 1)
        BY <2>2, <3>2
      <4>2. CASE m = 0
        BY <4>1, <4>2, <2>7, <3>2
      <4>3. CASE m # 0
        <5>1. m - 1 \in 0 .. n /\ m - 1 # n
          BY <4>1, <4>3, <2>2
        <5>2. g[m - 1] = f[m - 1] /\ g[m] = f[m]
          BY <5>1, <3>2
        <5>3. f[m] = Next(f[m - 1], m)
          BY <4>1, <4>3, <2>7
        <5> QED BY <5>2, <5>3, <4>3
      <4> QED BY <4>2, <4>3
    <3> QED BY <3>1, <3>2
  <2>9. g = [m \in 0 .. n |-> g[m]]
    OBVIOUS
  <2> HIDE DEF g
  <2>10. g = [m \in 0 .. n |-> IF m = 0 THEN {l} ELSE Next(g[m - 1], m)]
    BY <2>8, <2>9
  <2> QED BY <1>1, <2>2, <2>10
<1> QED BY <1>2

\* What holds of a link before the first body, and is carried over each body by
\* enqueue, holds after the last.
LEMMA QueuedAll ==
    ASSUME NEW l, NEW bodies, NEW writing, NEW N \in Nat, Len(bodies) = N, NEW G,
           l \in G[0],
           \A n \in 1 .. N : \A x \in G[n - 1] : Enqueue(x, bodies[n], writing) \subseteq G[n]
    PROVE  EnqueueAll(l, bodies, writing) \subseteq G[N]
<1> DEFINE F == CHOOSE f : f = [n \in 0 .. N |->
                 IF n = 0 THEN {l}
                 ELSE UNION {Enqueue(x, bodies[n], writing) : x \in f[n - 1]}]
<1>1. F = [n \in 0 .. N |-> IF n = 0 THEN {l}
                            ELSE UNION {Enqueue(x, bodies[n], writing) : x \in F[n - 1]}]
  <2>1. \E f : f = [n \in 0 .. N |->
                 IF n = 0 THEN {l}
                 ELSE UNION {Enqueue(x, bodies[n], writing) : x \in f[n - 1]}]
    <3>1. \E f : Follows(f, l, bodies, writing, N)
      BY FollowsExists
    <3> QED BY <3>1 DEF Follows
  <2> QED BY <2>1, Zenon
<1>2. EnqueueAll(l, bodies, writing) = F[N]
  BY DEF EnqueueAll
<1> HIDE DEF F
<1> DEFINE Bad == {n \in Nat : n <= N /\ ~(F[n] \subseteq G[n])}
<1>3. ASSUME Bad # {} PROVE FALSE
  <2>1. PICK n \in Bad : \A m \in Bad : n <= m
    <3> HIDE DEF Bad
    <3> SUFFICES Bad \subseteq Nat
      BY <1>3, LeastOf
    <3> QED BY DEF Bad
  <2>2. n \in Nat /\ n <= N /\ ~(F[n] \subseteq G[n])
    OBVIOUS
  <2>3. n # 0
    <3>1. 0 \in 0 .. N
      OBVIOUS
    <3>2. F[0] = {l}
      BY <1>1, <3>1
    <3> QED BY <2>2, <3>2
  <2>4. n - 1 \in Nat /\ n - 1 <= N /\ ~(n <= n - 1) /\ n \in 1 .. N /\ n \in 0 .. N
    BY <2>2, <2>3
  <2>5. F[n - 1] \subseteq G[n - 1]
    <3>1. n - 1 \notin Bad
      <4> HIDE DEF Bad
      <4> QED BY <2>1, <2>4
    <3> QED BY <2>4, <3>1
  <2>6. F[n] = UNION {Enqueue(x, bodies[n], writing) : x \in F[n - 1]}
    BY <1>1, <2>3, <2>4
  <2>7. \A x \in F[n - 1] : Enqueue(x, bodies[n], writing) \subseteq G[n]
    BY <2>4, <2>5
  <2> QED BY <2>2, <2>6, <2>7
<1>4. F[N] \subseteq G[N]
  BY <1>3
<1> QED BY <1>2, <1>4

-----------------------------------------------------------------------------
(* The type of what is queued *)

Bodies ==
    [kind : {"hello"}, channels : Seq(Channels)]
      \cup [kind : {"ack"}, op : {"subscribe", "unsubscribe"}, channels : Seq(Channels)]
      \cup [kind : {"snapshot"}, ch : Channels, markets : UNION {[ms -> Entries] : ms \in SUBSET Markets}]
      \cup [kind : {"delta"}, ch : Channels, market : Markets, entry : Entries]
      \cup [kind : {"removal"}, ch : Channels, market : Markets]
      \cup [kind : {"resync", "error"}]
FramesOf(B) == [seq : Nat, body : B]
Frames == FramesOf(Bodies)

\* A connection's frames, with bodies of B: a queue within its capacity, and the wire.
LinksOf(B) ==
    {l \in [seq : Nat, queue : Seq(FramesOf(B)), wire : Seq(FramesOf(B))] : Len(l.queue) <= Capacity}
Links == LinksOf(Bodies)

\* One more frame leaves a link.
LEMMA EnqueueOf ==
    ASSUME NEW B, ResyncNotice \in B, NEW l \in LinksOf(B), NEW body \in B, NEW writing
    PROVE  Enqueue(l, body, writing) \subseteq LinksOf(B)
<1>1. /\ l.seq \in Nat /\ l.queue \in Seq(FramesOf(B)) /\ l.wire \in Seq(FramesOf(B))
      /\ Len(l.queue) \in Nat /\ Len(l.queue) <= Capacity
      /\ l \in [seq : Nat, queue : Seq(FramesOf(B)), wire : Seq(FramesOf(B))]
  BY DEF LinksOf
<1>2. Capacity \in Nat /\ Capacity >= 1
  BY CapacitiesAssumption
<1>3. CASE Len(l.queue) < Capacity
  <2>1. [seq |-> l.seq + 1, body |-> body] \in FramesOf(B)
    BY <1>1 DEF FramesOf
  <2>2. /\ Append(l.queue, [seq |-> l.seq + 1, body |-> body]) \in Seq(FramesOf(B))
        /\ Len(Append(l.queue, [seq |-> l.seq + 1, body |-> body])) = Len(l.queue) + 1
    BY <1>1, <2>1
  <2>3. Number(l, body) = [seq |-> l.seq + 1,
                           queue |-> Append(l.queue, [seq |-> l.seq + 1, body |-> body]),
                           wire |-> l.wire]
    BY DEF Number
  <2>4. Len(l.queue) + 1 <= Capacity
    BY <1>1, <1>2, <1>3
  <2>5. Number(l, body) \in LinksOf(B)
    BY <1>1, <2>2, <2>3, <2>4 DEF LinksOf
  <2> QED BY <1>3, <2>5 DEF Enqueue
<1>4. CASE ~(Len(l.queue) < Capacity)
  <2> SUFFICES ASSUME NEW keep, keep \subseteq DOMAIN l.queue PROVE Discard(l, keep) \in LinksOf(B)
    BY <1>4 DEF Enqueue
  <2>1. Taken(l.queue, keep) \in Seq(FramesOf(B))
    BY <1>1, TakenType
  <2>2. [seq |-> l.seq + 2, body |-> ResyncNotice] \in FramesOf(B)
    BY <1>1 DEF FramesOf
  <2>3. /\ <<[seq |-> l.seq + 2, body |-> ResyncNotice]>> \in Seq(FramesOf(B))
        /\ Len(<<[seq |-> l.seq + 2, body |-> ResyncNotice]>>) = 1
    BY <2>2
  <2>4. l.wire \o Taken(l.queue, keep) \in Seq(FramesOf(B))
    BY <1>1, <2>1
  <2> DEFINE q == <<[seq |-> l.seq + 2, body |-> ResyncNotice]>>
             w == l.wire \o Taken(l.queue, keep)
  <2>5. Discard(l, keep) = [seq |-> l.seq + 2, queue |-> q, wire |-> w]
    BY DEF Discard
  <2>6. q \in Seq(FramesOf(B)) /\ Len(q) = 1 /\ w \in Seq(FramesOf(B)) /\ l.seq + 2 \in Nat
    BY <1>1, <2>3, <2>4
  <2> HIDE DEF q, w
  <2>7. [seq |-> l.seq + 2, queue |-> q, wire |-> w] \in [seq : Nat, queue : Seq(FramesOf(B)), wire : Seq(FramesOf(B))]
    BY <2>6
  <2>8. Len([seq |-> l.seq + 2, queue |-> q, wire |-> w].queue) <= Capacity
    BY <1>2, <2>6
  <2> QED BY <2>5, <2>7, <2>8 DEF LinksOf
<1> QED BY <1>3, <1>4

\* So do several.
LEMMA EnqueueAllOf ==
    ASSUME NEW B, ResyncNotice \in B, NEW l \in LinksOf(B), NEW bodies \in Seq(B), NEW writing
    PROVE  EnqueueAll(l, bodies, writing) \subseteq LinksOf(B)
<1> DEFINE N == Len(bodies)
           G == [n \in 0 .. N |-> LinksOf(B)]
<1>1. N \in Nat /\ \A n \in 1 .. N : bodies[n] \in B
  OBVIOUS
<1>2. l \in G[0] /\ G[N] = LinksOf(B)
  BY <1>1
<1>3. \A n \in 1 .. N : G[n] = LinksOf(B) /\ G[n - 1] = LinksOf(B)
  <2> SUFFICES ASSUME NEW n \in 1 .. N PROVE G[n] = LinksOf(B) /\ G[n - 1] = LinksOf(B)
    OBVIOUS
  <2>1. n \in 0 .. N /\ n - 1 \in 0 .. N
    BY <1>1
  <2> QED BY <2>1
<1>4. \A n \in 1 .. N : \A x \in G[n - 1] : Enqueue(x, bodies[n], writing) \subseteq G[n]
  BY <1>1, <1>3, EnqueueOf
<1>5. Len(bodies) = N
  OBVIOUS
<1> HIDE DEF G, N
<1> QED BY <1>1, <1>2, <1>4, <1>5, QueuedAll

LEMMA LinkBodies == ResyncNotice \in Bodies
BY DEF ResyncNotice, Bodies

\* The same of the bodies of the protocol.
LEMMA EnqueueAllType ==
    ASSUME NEW l \in Links, NEW bodies \in Seq(Bodies), NEW writing
    PROVE  EnqueueAll(l, bodies, writing) \subseteq Links
BY LinkBodies, EnqueueAllOf DEF Links

\* What a subscription, or a registration, queues.
LEMMA SnapshotsType ==
    ASSUME SlateTypeOK, NEW chs \in Seq(Channels)
    PROVE  [i \in DOMAIN chs |-> SnapshotOf(chs[i])] \in Seq(Bodies)
<1>1. \A ch \in Channels : SnapshotOf(ch) \in Bodies
  <2> SUFFICES ASSUME NEW ch \in Channels PROVE SnapshotOf(ch) \in Bodies
    OBVIOUS
  <2>1. SnapshotMarkets(ch) \in SUBSET Markets
    BY DEF SnapshotMarkets, Held
  <2>2. \A m \in SnapshotMarkets(ch) : slate[m] \in Entries
    BY DEF SnapshotMarkets, Held, SlateTypeOK
  <2>3. Snapshot(ch) \in UNION {[ms -> Entries] : ms \in SUBSET Markets}
    BY <2>1, <2>2 DEF Snapshot
  <2> QED BY <2>3 DEF SnapshotOf, Bodies
<1>2. Len(chs) \in Nat /\ DOMAIN chs = 1 .. Len(chs) /\ \A i \in 1 .. Len(chs) : chs[i] \in Channels
  OBVIOUS
<1>3. \A i \in 1 .. Len(chs) : SnapshotOf(chs[i]) \in Bodies
  BY <1>1, <1>2
<1> DEFINE n == Len(chs)
<1>4. [i \in 1 .. n |-> SnapshotOf(chs[i])] \in Seq(Bodies)
  <2> HIDE DEF n
  <2>1. n \in Nat /\ \A i \in 1 .. n : SnapshotOf(chs[i]) \in Bodies
    BY <1>2, <1>3 DEF n
  <2> QED BY <2>1
<1> QED BY <1>2, <1>4

\* The kinds of a set of channels, each once.
LEMMA InOrderFacts ==
    ASSUME NEW channels, channels \subseteq Channels
    PROVE  /\ InOrder(channels) \in Seq({"market", "event", "league"})
           /\ Sq!ToSet(InOrder(channels)) = {ch.kind : ch \in channels}
           /\ \A i \in DOMAIN InOrder(channels) :
                \E ch \in channels : ch.kind = InOrder(channels)[i]
<1> DEFINE K == {"market", "event", "league"}
           s == <<"market", "event", "league">>
<1>1. s \in Seq(K) /\ Sq!ToSet(s) = K
  <2>1. s \in Seq(K) /\ DOMAIN s = {1, 2, 3} /\ s[1] = "market" /\ s[2] = "event" /\ s[3] = "league"
    OBVIOUS
  <2>2. \A x : x \in {s[i] : i \in {1, 2, 3}} <=> (x = s[1] \/ x = s[2] \/ x = s[3])
    <3> HIDE DEF s
    <3> QED OBVIOUS
  <2> HIDE DEF s
  <2> QED BY <2>1, <2>2 DEF Sq!ToSet
<1>2. {ch.kind : ch \in channels} \subseteq K
  BY DEF Channels, MarketChannel, EventChannel, LeagueChannel
<1>3. /\ InOrder(channels) \in Seq(K)
      /\ Sq!ToSet(InOrder(channels)) = {ch.kind : ch \in channels}
  <2> HIDE DEF K
  <2>1. InOrder(channels) = Among(s, {ch.kind : ch \in channels})
    BY DEF InOrder
  <2> HIDE DEF s
  <2> QED BY <1>1, <1>2, <2>1, AmongType
<1> HIDE DEF s
<1>4. \A i \in DOMAIN InOrder(channels) : InOrder(channels)[i] \in {ch.kind : ch \in channels}
  BY <1>3 DEF Sq!ToSet
<1> QED BY <1>3, <1>4

\* What Send may do to the links.
LEMMA QueuedType ==
    ASSUME link \in [Conns -> Links], NEW c \in Conns, NEW bodies \in Seq(Bodies)
    PROVE  Queued(c, bodies) \subseteq Links
<1>1. link[c] \in Links
  OBVIOUS
<1> QED BY <1>1, EnqueueAllType DEF Queued

LEMMA SendType ==
    ASSUME link \in [Conns -> Links], NEW c \in Conns, NEW bodies \in Seq(Bodies), Send(c, bodies)
    PROVE  link' \in [Conns -> Links]
<1>1. PICK l \in Queued(c, bodies) : link' = [link EXCEPT ![c] = l]
  BY DEF Send
<1>2. l \in Links
  BY <1>1, QueuedType
<1> QED BY <1>1, <1>2

\* The result of a fold that is published names a market and its channels.
LEMMA PublishedResult ==
    ASSUME SlateInv, NEW d \in Deliveries, Fold(d), Changed(result')
    PROVE  /\ result'.market \in Markets /\ result'.channels \subseteq Channels
           /\ result'.outcome = "stored" => slate'[result'.market] \in Entries
<1>1. SlateInv'
  BY FoldPreserves
<1>2. result' \in [outcome : Outcomes, market : Markets \cup {Absent}, channels : SUBSET Channels]
  BY <1>1 DEF SlateInv, SlateTypeOK
<1>3. Put(d) \/ Remove(d)
  <2>1. ASSUME Reject(d) \/ RefuseType(d) \/ Skip(d) PROVE FALSE
    BY <2>1 DEF Reject, RefuseType, Skip, Keep, Outcome, Changed
  <2> QED BY <2>1 DEF Fold
<1>4. CASE Put(d)
  <2>1. d \in Documents
    BY <1>4 DEF Put, Deliveries, Tombstones, Refusals, Unkeyed
  <2>2. d.market \in Markets /\ EntryOf(d) \in Entries
    BY <2>1, EntryOfType
  <2>3. slate' = [slate EXCEPT ![d.market] = EntryOf(d)] /\ result'.market = d.market
    BY <1>4 DEF Put, Outcome
  <2>4. slate'[d.market] = EntryOf(d)
    BY <2>2, <2>3 DEF SlateInv, SlateTypeOK
  <2> QED BY <1>2, <2>2, <2>3, <2>4
<1>5. CASE Remove(d)
  <2>1. d.market \in Markets /\ result'.market = d.market /\ result'.outcome = "removed"
    BY <1>5 DEF Remove, Deliveries, Documents, Tombstones, Refusals, Unkeyed, Outcome
  <2> QED BY <1>2, <2>1
<1> QED BY <1>3, <1>4, <1>5

\* What one record puts on a connection's queue.
LEMMA FanoutType ==
    ASSUME SlateInv, NEW d \in Deliveries, Fold(d), Changed(result'), NEW c \in Conns
    PROVE  Fanout(c, result') \in Seq(Bodies)
<1> DEFINE res == result'
           mine == {ch \in res.channels : c \in Subscribers(ch)}
           kinds == InOrder(mine)
<1>1. /\ res.market \in Markets /\ res.channels \subseteq Channels
      /\ res.outcome = "stored" => slate'[res.market] \in Entries
  BY PublishedResult
<1>2. \A ch \in Channels : BodyFor(res, ch) \in Bodies
  <2> SUFFICES ASSUME NEW ch \in Channels PROVE BodyFor(res, ch) \in Bodies
    OBVIOUS
  <2> HIDE DEF res
  <2>1. CASE res.outcome = "stored"
    BY <1>1, <2>1 DEF BodyFor, Delta, Bodies
  <2>2. CASE res.outcome # "stored"
    BY <1>1, <2>2 DEF BodyFor, Removal, Bodies
  <2> QED BY <2>1, <2>2
<1>3. mine \subseteq Channels
  BY <1>1
<1>4. /\ kinds \in Seq({"market", "event", "league"})
      /\ \A i \in DOMAIN kinds : \E ch \in mine : ch.kind = kinds[i]
  <2> HIDE DEF mine
  <2> QED BY <1>3, InOrderFacts
<1>5. Len(kinds) \in Nat /\ DOMAIN kinds = 1 .. Len(kinds)
  <2> HIDE DEF kinds
  <2> QED BY <1>4
<1>6. \A i \in DOMAIN kinds : BodyFor(res, ChannelOfKind(res.channels, kinds[i])) \in Bodies
  <2> SUFFICES ASSUME NEW i \in DOMAIN kinds
               PROVE  BodyFor(res, ChannelOfKind(res.channels, kinds[i])) \in Bodies
    OBVIOUS
  <2>1. \E ch \in res.channels : ch.kind = kinds[i]
    <3>1. PICK ch \in mine : ch.kind = kinds[i]
      BY <1>4
    <3> HIDE DEF kinds
    <3> QED BY <3>1
  <2> HIDE DEF kinds, res
  <2>2. ChannelOfKind(res.channels, kinds[i]) \in res.channels
    BY <2>1 DEF ChannelOfKind
  <2> QED BY <1>1, <1>2, <2>2
<1>7. Fanout(c, res) = [i \in DOMAIN kinds |-> BodyFor(res, ChannelOfKind(res.channels, kinds[i]))]
  BY DEF Fanout
<1> DEFINE n == Len(kinds)
           body(i) == BodyFor(res, ChannelOfKind(res.channels, kinds[i]))
<1>8. n \in Nat /\ \A i \in 1 .. n : body(i) \in Bodies
  BY <1>5, <1>6
<1>9. [i \in 1 .. n |-> body(i)] \in Seq(Bodies)
  <2> HIDE DEF n, body
  <2> QED BY <1>8
<1> QED BY <1>5, <1>7, <1>9

-----------------------------------------------------------------------------
(* The invariant of types *)

JobOps == {"none", "register", "subscribe", "resync"}
RequestOps == {"subscribe", "unsubscribe", "resync"}
Asked == [op : RequestOps, channels : Seq(Channels)]

ConnTypes ==
    /\ link \in [Conns -> Links]
    /\ phase \in [Conns -> Phases]
    /\ job \in [Conns -> [op : JobOps, channels : Seq(Channels)]]
    /\ up \in [Conns -> Seq(Asked)]

\* The gauge, and the cap.
Pairs == {p \in Conns \X Channels : p[2] \in held[p[1]]}
Counted ==
    /\ held \in [Conns -> SUBSET Channels]
    /\ denied \in [Conns -> SUBSET Channels]
    /\ IsFiniteSet(Pairs) /\ subCount = Cardinality(Pairs)
    /\ \A c \in Conns : IsFiniteSet(held[c]) /\ Cardinality(held[c]) <= MaxChannels

\* A request between its critical sections has room for what it will add.
Fits(c, chs) == IsFiniteSet(held[c] \cup chs) /\ Cardinality(held[c] \cup chs) <= MaxChannels
JobsFit == \A c \in Conns : job[c].op \in {"register", "subscribe"} => Fits(c, Sq!ToSet(job[c].channels))
Restoring == \A c \in Conns : phase[c] = "restored" => job[c].op = "register"

TypesInv == ConnTypes /\ Counted /\ JobsFit /\ Restoring

\* addRouteLocked counts each new pair once.
LEMMA AddRoutesCounted ==
    ASSUME Counted, NEW c \in Conns, NEW chs, chs \subseteq Channels, Fits(c, chs), AddRoutes(c, chs)
    PROVE  Counted'
<1> DEFINE new == {c} \X (chs \ held[c])
<1>1. /\ subCount' = subCount + Cardinality(chs \ held[c])
      /\ held' = [held EXCEPT ![c] = @ \cup chs] /\ denied' = denied
  BY DEF AddRoutes
<1>2. held' \in [Conns -> SUBSET Channels] /\ denied' \in [Conns -> SUBSET Channels]
  BY <1>1 DEF Counted
<1>3. \A x \in Conns : held'[x] = IF x = c THEN held[c] \cup chs ELSE held[x]
  BY <1>1 DEF Counted
<1>4. \A x \in Conns : IsFiniteSet(held'[x]) /\ Cardinality(held'[x]) <= MaxChannels
  BY <1>3 DEF Fits, Counted
<1>5. IsFiniteSet(chs \ held[c]) /\ Cardinality(chs \ held[c]) \in Nat
  <2>1. chs \ held[c] \in SUBSET (held[c] \cup chs)
    OBVIOUS
  <2>2. IsFiniteSet(chs \ held[c])
    BY <2>1, FS_Subset DEF Fits
  <2> QED BY <2>2, FS_CardinalityType
<1>6. IsFiniteSet(new) /\ Cardinality(new) = Cardinality(chs \ held[c])
  <2>1. IsFiniteSet({c}) /\ Cardinality({c}) = 1
    BY FS_Singleton
  <2>2. IsFiniteSet(new) /\ Cardinality(new) = Cardinality({c}) * Cardinality(chs \ held[c])
    BY <2>1, <1>5, FS_Product
  <2> QED BY <2>1, <2>2, <1>5
<1>7. Pairs' = Pairs \cup new
  <2>1. \A p \in Conns \X Channels : p[2] \in held'[p[1]] <=> (p[2] \in held[p[1]] \/ p \in new)
    BY <1>3
  <2>2. new \subseteq Conns \X Channels
    OBVIOUS
  <2>3. Pairs' = {p \in Conns \X Channels : p[2] \in held'[p[1]]}
    BY DEF Pairs
  <2> HIDE DEF new
  <2> QED BY <2>1, <2>2, <2>3 DEF Pairs
<1>8. Pairs \cap new = {}
  BY DEF Pairs
<1>9. /\ IsFiniteSet(Pairs \cup new)
      /\ Cardinality(Pairs \cup new) = Cardinality(Pairs) + Cardinality(new) - Cardinality(Pairs \cap new)
  <2> HIDE DEF new
  <2> QED BY <1>6, FS_Union DEF Counted
<1>10. Cardinality(Pairs \cap new) = 0 /\ Cardinality(Pairs) \in Nat /\ Cardinality(new) \in Nat
  BY <1>8, <1>6, <1>5, FS_EmptySet, FS_CardinalityType DEF Counted
<1>11. subCount' = Cardinality(Pairs') /\ IsFiniteSet(Pairs')
  <2> HIDE DEF new
  <2>1. subCount' = Cardinality(Pairs) + Cardinality(new)
    BY <1>1, <1>6 DEF Counted
  <2> QED BY <2>1, <1>7, <1>9, <1>10
<1> QED BY <1>2, <1>4, <1>11 DEF Counted

\* removeRouteLocked, of channels the connection holds, uncounts each of them.
LEMMA RemoveRoutesCounted ==
    ASSUME Counted, NEW c \in Conns, NEW chs, chs \subseteq held[c], RemoveRoutes(c, chs)
    PROVE  Counted'
<1> DEFINE old == {c} \X chs
<1>1. /\ subCount' = subCount - Cardinality(chs)
      /\ held' = [held EXCEPT ![c] = @ \ chs] /\ denied' = denied
  BY DEF RemoveRoutes
<1>2. held' \in [Conns -> SUBSET Channels] /\ denied' \in [Conns -> SUBSET Channels]
  BY <1>1 DEF Counted
<1>3. \A x \in Conns : held'[x] = IF x = c THEN held[c] \ chs ELSE held[x]
  BY <1>1 DEF Counted
<1>4. \A x \in Conns : IsFiniteSet(held'[x]) /\ Cardinality(held'[x]) <= MaxChannels
  <2>1. held[c] \ chs \in SUBSET held[c] /\ MaxChannels \in Nat
    BY CapacitiesAssumption
  <2>2. IsFiniteSet(held[c] \ chs) /\ Cardinality(held[c] \ chs) <= Cardinality(held[c])
    BY <2>1, FS_Subset DEF Counted
  <2>3. Cardinality(held[c] \ chs) \in Nat /\ Cardinality(held[c]) \in Nat
        /\ Cardinality(held[c]) <= MaxChannels
    BY <2>2, FS_CardinalityType DEF Counted
  <2>4. IsFiniteSet(held[c] \ chs) /\ Cardinality(held[c] \ chs) <= MaxChannels
    BY <2>1, <2>2, <2>3
  <2> QED BY <1>3, <2>4 DEF Counted
<1>5. IsFiniteSet(chs) /\ Cardinality(chs) \in Nat
  <2>1. IsFiniteSet(chs)
    BY FS_Subset DEF Counted
  <2> QED BY <2>1, FS_CardinalityType
<1>6. IsFiniteSet(old) /\ Cardinality(old) = Cardinality(chs)
  <2>1. IsFiniteSet({c}) /\ Cardinality({c}) = 1
    BY FS_Singleton
  <2>2. IsFiniteSet(old) /\ Cardinality(old) = Cardinality({c}) * Cardinality(chs)
    BY <2>1, <1>5, FS_Product
  <2> QED BY <2>1, <2>2, <1>5
<1>7. Pairs' = Pairs \ old
  <2>1. \A p \in Conns \X Channels : p[2] \in held'[p[1]] <=> (p[2] \in held[p[1]] /\ p \notin old)
    BY <1>3
  <2>2. Pairs' = {p \in Conns \X Channels : p[2] \in held'[p[1]]}
    BY DEF Pairs
  <2> HIDE DEF old
  <2> QED BY <2>1, <2>2 DEF Pairs
<1>8. Pairs \cap old = old
  <2>1. chs \subseteq Channels
    BY DEF Counted
  <2> QED BY <2>1 DEF Pairs
<1>9. /\ IsFiniteSet(Pairs \ old)
      /\ Cardinality(Pairs \ old) = Cardinality(Pairs) - Cardinality(Pairs \cap old)
  <2> HIDE DEF old
  <2> QED BY FS_Difference DEF Counted
<1>10. subCount' = Cardinality(Pairs') /\ IsFiniteSet(Pairs')
  <2> HIDE DEF old
  <2> QED BY <1>1, <1>6, <1>7, <1>8, <1>9 DEF Counted
<1> QED BY <1>2, <1>4, <1>10 DEF Counted

\* The channels subscribe accepts are within the room classification found.
LEMMA AcceptedFits ==
    ASSUME Counted, NEW c \in Conns, NEW chs \in Seq(Channels)
    PROVE  /\ Accepted(c, chs) \in Seq(Channels)
           /\ Fits(c, Sq!ToSet(Accepted(c, chs)))
           /\ Sq!ToSet(Accepted(c, chs)) \subseteq Sq!ToSet(chs) \ held[c]
<1> DEFINE room == MaxChannels - Cardinality(held[c])
           F == Fresh(c, chs)
           before(i) == {j \in F : j < i}
           keep == {i \in F : Cardinality(before(i)) < room}
           N == Cardinality(keep)
<1>1. MaxChannels \in Nat /\ IsFiniteSet(held[c]) /\ Cardinality(held[c]) \in Nat /\ room \in Nat
  BY CapacitiesAssumption, FS_CardinalityType DEF Counted
<1>2. Len(chs) \in Nat /\ DOMAIN chs = 1 .. Len(chs)
  OBVIOUS
<1>3. F \subseteq DOMAIN chs /\ \A i \in F : chs[i] \notin held[c]
  BY DEF Fresh
<1>4. Accepted(c, chs) = Taken(chs, keep)
  BY DEF Accepted
<1> HIDE DEF F
<1>5. keep \subseteq DOMAIN chs /\ keep \subseteq F
  BY <1>3
<1>6. /\ Taken(chs, keep) \in Seq(Channels)
      /\ Sq!ToSet(Taken(chs, keep)) = {chs[i] : i \in keep}
      /\ Len(Taken(chs, keep)) = N
      /\ IsFiniteSet(keep) /\ N \in Nat
  <2> HIDE DEF keep
  <2> QED BY <1>5, TakenType
<1>7. N <= room
  <2>1. CASE N = 0
    BY <1>1, <2>1
  <2>2. CASE N # 0
    <3>1. N \in 1 .. N /\ keep \subseteq Nat
      <4>1. keep \subseteq Nat
        BY <1>2, <1>5
      <4> HIDE DEF N, keep
      <4> QED BY <1>6, <2>2, <4>1
    <3>2. PICK m \in keep : Cardinality({k \in keep : k <= m}) = N
      <4> HIDE DEF keep
      <4> QED BY <1>6, <3>1, Ranks
    <3> DEFINE low == {k \in keep : k <= m}
    <3>3. low = keep
      <4>1. low \in SUBSET keep
        OBVIOUS
      <4> HIDE DEF low, keep
      <4> QED BY <1>6, <3>2, <4>1, FS_Subset DEF low
    <3>4. keep \subseteq before(m) \cup {m}
      <4>1. \A k \in keep : k <= m /\ k \in Nat /\ m \in Nat
        BY <3>1, <3>3
      <4>2. \A k \in keep : k < m \/ k = m
        BY <4>1
      <4> QED BY <4>2
    <3>5. IsFiniteSet(before(m)) /\ Cardinality(before(m)) \in Nat
      <4>1. IsFiniteSet(1 .. Len(chs))
        <5> DEFINE n == Len(chs)
        <5>1. n \in Int /\ 1 \in Int
          BY <1>2
        <5> HIDE DEF n
        <5>2. IsFiniteSet(1 .. n)
          BY <5>1, FS_Interval
        <5> QED BY <5>2 DEF n
      <4>2. before(m) \in SUBSET (1 .. Len(chs))
        BY <1>2, <1>3
      <4> HIDE DEF before
      <4>3. IsFiniteSet(before(m))
        BY <4>1, <4>2, FS_Subset
      <4> QED BY <4>3, FS_CardinalityType
    <3>6. Cardinality(before(m)) < room
      OBVIOUS
    <3> HIDE DEF before, room
    <3>7. /\ IsFiniteSet(before(m) \cup {m})
          /\ Cardinality(before(m) \cup {m}) <= Cardinality(before(m)) + 1
      <4>1. /\ IsFiniteSet(before(m) \cup {m})
            /\ Cardinality(before(m) \cup {m})
                 = IF m \in before(m) THEN Cardinality(before(m)) ELSE Cardinality(before(m)) + 1
        BY <3>5, FS_AddElement
      <4> QED BY <3>5, <4>1
    <3>8. N <= Cardinality(before(m) \cup {m})
      <4> HIDE DEF keep
      <4>1. keep \in SUBSET (before(m) \cup {m})
        BY <3>4
      <4> QED BY <3>7, <4>1, FS_Subset
    <3>9. Cardinality(before(m) \cup {m}) \in Nat
      BY <3>7, FS_CardinalityType
    <3> HIDE DEF N
    <3> QED BY <1>1, <1>6, <3>5, <3>6, <3>7, <3>8, <3>9
  <2> QED BY <2>1, <2>2
<1> DEFINE T == Sq!ToSet(Accepted(c, chs))
<1>8. IsFiniteSet(T) /\ Cardinality(T) <= N /\ Cardinality(T) \in Nat
  <2> HIDE DEF keep, N
  <2> QED BY <1>4, <1>6, ElementsFinite
<1>9. T \subseteq Sq!ToSet(chs) \ held[c]
  BY <1>3, <1>4, <1>5, <1>6 DEF Sq!ToSet
<1>10. IsFiniteSet(held[c] \cup T) /\ Cardinality(held[c] \cup T) <= MaxChannels
  <2> HIDE DEF T, N
  <2>1. /\ IsFiniteSet(held[c] \cup T)
        /\ Cardinality(held[c] \cup T)
             = Cardinality(held[c]) + Cardinality(T) - Cardinality(held[c] \cap T)
    BY <1>1, <1>8, FS_Union
  <2>2. held[c] \cap T = {}
    BY <1>9
  <2>3. Cardinality(held[c] \cap T) = 0
    BY <2>2, FS_EmptySet
  <2> QED BY <1>1, <1>6, <1>7, <1>8, <2>1, <2>3
<1> QED BY <1>4, <1>6, <1>9, <1>10 DEF Fits

\* A step that leaves the gauge and the holdings alone.
LEMMA CountedKept ==
    ASSUME Counted, UNCHANGED <<subCount, held, denied>> PROVE Counted'
BY DEF Counted, Pairs

\* One connection's request is done, and only its holdings changed.
LEMMA JobDone ==
    ASSUME TypesInv, NEW c \in Conns, job' = [job EXCEPT ![c] = NoJob] \/ (job' = job /\ job[c] = NoJob),
           \A x \in Conns \ {c} : held'[x] = held[x]
    PROVE  JobsFit' /\ job' \in [Conns -> [op : JobOps, channels : Seq(Channels)]]
<1>1. job \in [Conns -> [op : JobOps, channels : Seq(Channels)]]
  BY DEF TypesInv, ConnTypes
<1>2. NoJob \in [op : JobOps, channels : Seq(Channels)] /\ NoJob.op = "none"
  BY DEF NoJob, JobOps
<1>3. job'[c] = NoJob /\ \A x \in Conns \ {c} : job'[x] = job[x]
  BY <1>1
<1>4. job' \in [Conns -> [op : JobOps, channels : Seq(Channels)]]
  BY <1>1, <1>2
<1>5. ASSUME NEW x \in Conns, job'[x].op \in {"register", "subscribe"}
      PROVE  IsFiniteSet(held'[x] \cup Sq!ToSet(job'[x].channels))
             /\ Cardinality(held'[x] \cup Sq!ToSet(job'[x].channels)) <= MaxChannels
  <2>1. x \in Conns \ {c}
    BY <1>2, <1>3, <1>5
  <2>2. job'[x] = job[x] /\ held'[x] = held[x]
    BY <1>3, <2>1
  <2> QED BY <1>5, <2>2 DEF TypesInv, JobsFit, Fits
<1> QED BY <1>4, <1>5 DEF JobsFit, Fits

\* Register and the second critical section of subscribe.
LEMMA RegisterTypes ==
    ASSUME SlateTypeOK, TypesInv, NEW c \in Conns, Register(c)
    PROVE  TypesInv'
<1>1. /\ ConnTypes /\ Counted /\ JobsFit /\ Restoring
  BY DEF TypesInv
<1>2. /\ phase[c] = "restored" /\ job[c].op = "register"
      /\ job' = [job EXCEPT ![c] = NoJob] /\ up' = up
  BY <1>1 DEF Register, Restoring
<1>3. job[c].channels \in Seq(Channels)
  BY <1>1 DEF ConnTypes
<1>4. CASE Closed
  <2>1. phase' = [phase EXCEPT ![c] = "refused"] /\ UNCHANGED <<hubVars, link>>
    BY <1>4 DEF Register
  <2>2. Counted'
    BY <1>1, <2>1, CountedKept DEF hubVars
  <2>3. JobsFit' /\ job' \in [Conns -> [op : JobOps, channels : Seq(Channels)]]
    BY <1>2, <2>1, JobDone DEF hubVars
  <2>4. phase' \in [Conns -> Phases] /\ Restoring'
    BY <1>1, <1>2, <2>1 DEF ConnTypes, Phases, Restoring
  <2>5. ConnTypes'
    BY <1>1, <1>2, <2>1, <2>3, <2>4 DEF ConnTypes
  <2> QED BY <2>2, <2>3, <2>4, <2>5 DEF TypesInv
<1>5. CASE ~Closed
  <2> DEFINE chs == job[c].channels
             fill == [i \in DOMAIN chs |-> SnapshotOf(chs[i])]
             bodies == <<Hello(chs)>> \o fill
  <2>1. /\ AddRoutes(c, Sq!ToSet(chs)) /\ phase' = [phase EXCEPT ![c] = "registered"]
        /\ \E l \in EnqueueAll(link[c], bodies, FALSE) : link' = [link EXCEPT ![c] = l]
    BY <1>5 DEF Register
  <2>2. Counted'
    <3>1. Sq!ToSet(chs) \subseteq Channels
      BY <1>3, ElementsFinite
    <3>2. Fits(c, Sq!ToSet(chs))
      BY <1>1, <1>2 DEF JobsFit
    <3> HIDE DEF chs
    <3> QED BY <1>1, <2>1, <3>1, <3>2, AddRoutesCounted
  <2>3. \A x \in Conns \ {c} : held'[x] = held[x]
    BY <1>1, <2>1 DEF AddRoutes, Counted
  <2>4. JobsFit' /\ job' \in [Conns -> [op : JobOps, channels : Seq(Channels)]]
    BY <1>2, <2>3, JobDone
  <2>5. link' \in [Conns -> Links]
    <3>1. fill \in Seq(Bodies)
      BY <1>3, SnapshotsType
    <3>2. Hello(chs) \in Bodies
      BY <1>3 DEF Hello, Bodies
    <3> HIDE DEF fill, chs
    <3>3. bodies \in Seq(Bodies)
      BY <3>1, <3>2
    <3> HIDE DEF bodies
    <3>4. link[c] \in Links
      BY <1>1 DEF ConnTypes
    <3>5. PICK l \in EnqueueAll(link[c], bodies, FALSE) : link' = [link EXCEPT ![c] = l]
      BY <2>1
    <3>6. l \in Links
      BY <3>3, <3>4, <3>5, EnqueueAllType
    <3> QED BY <1>1, <3>5, <3>6 DEF ConnTypes
  <2>6. phase' \in [Conns -> Phases] /\ Restoring'
    BY <1>1, <1>2, <2>1 DEF ConnTypes, Phases, Restoring
  <2>7. ConnTypes'
    BY <1>1, <1>2, <2>4, <2>5, <2>6 DEF ConnTypes
  <2> QED BY <2>2, <2>4, <2>6, <2>7 DEF TypesInv
<1> QED BY <1>4, <1>5

LEMMA AttachSubscribeTypes ==
    ASSUME SlateTypeOK, TypesInv, NEW c \in Conns, AttachSubscribe(c)
    PROVE  TypesInv'
<1> DEFINE chs == job[c].channels
           fill == [i \in DOMAIN chs |-> SnapshotOf(chs[i])]
           bodies == <<AckOf("subscribe", chs)>> \o fill
<1>1. /\ ConnTypes /\ Counted /\ JobsFit /\ Restoring
  BY DEF TypesInv
<1>2. /\ job[c].op = "subscribe" /\ job' = [job EXCEPT ![c] = NoJob] /\ up' = up /\ phase' = phase
      /\ AddRoutes(c, Sq!ToSet(chs)) /\ Send(c, bodies)
  BY DEF AttachSubscribe
<1>3. chs \in Seq(Channels)
  BY <1>1 DEF ConnTypes
<1>4. Counted'
  <2>1. Sq!ToSet(chs) \subseteq Channels
    BY <1>3, ElementsFinite
  <2>2. Fits(c, Sq!ToSet(chs))
    BY <1>1, <1>2 DEF JobsFit
  <2> HIDE DEF chs
  <2> QED BY <1>1, <1>2, <2>1, <2>2, AddRoutesCounted
<1>5. \A x \in Conns \ {c} : held'[x] = held[x]
  BY <1>1, <1>2 DEF AddRoutes, Counted
<1>6. JobsFit' /\ job' \in [Conns -> [op : JobOps, channels : Seq(Channels)]]
  BY <1>2, <1>5, JobDone
<1>7. link' \in [Conns -> Links]
  <2>1. fill \in Seq(Bodies)
    BY <1>3, SnapshotsType
  <2>2. AckOf("subscribe", chs) \in Bodies
    BY <1>3 DEF AckOf, Bodies
  <2> HIDE DEF fill, chs
  <2>3. bodies \in Seq(Bodies)
    BY <2>1, <2>2
  <2> HIDE DEF bodies
  <2> QED BY <1>1, <1>2, <2>3, SendType DEF ConnTypes
<1>8. Restoring'
  BY <1>1, <1>2 DEF Restoring, ConnTypes
<1>9. ConnTypes'
  BY <1>1, <1>2, <1>6, <1>7 DEF ConnTypes
<1> QED BY <1>4, <1>6, <1>8, <1>9 DEF TypesInv

LEMMA UnregisterTypes ==
    ASSUME TypesInv, NEW c \in Conns, Unregister(c)
    PROVE  TypesInv'
<1>1. /\ ConnTypes /\ Counted /\ JobsFit /\ Restoring
  BY DEF TypesInv
<1>2. /\ phase[c] = "closing" /\ job[c] = NoJob /\ job' = job
      /\ phase' = [phase EXCEPT ![c] = "gone"]
      /\ RemoveRoutes(c, held[c]) /\ link' = [link EXCEPT ![c].queue = <<>>]
      /\ up' = [up EXCEPT ![c] = <<>>]
  BY DEF Unregister, Ready
<1>3. Counted'
  BY <1>1, <1>2, RemoveRoutesCounted
<1>4. \A x \in Conns \ {c} : held'[x] = held[x]
  BY <1>1, <1>2 DEF RemoveRoutes, Counted
<1>5. JobsFit' /\ job' \in [Conns -> [op : JobOps, channels : Seq(Channels)]]
  BY <1>2, <1>4, JobDone
<1>6. link' \in [Conns -> Links]
  <2>1. link[c] \in Links
    BY <1>1 DEF ConnTypes
  <2>2. [link[c] EXCEPT !.queue = <<>>] \in Links
    <3>1. link[c] \in [seq : Nat, queue : Seq(Frames), wire : Seq(Frames)] /\ Capacity \in Nat
      BY <2>1, CapacitiesAssumption DEF Links, LinksOf, Frames, FramesOf
    <3>2. <<>> \in Seq(Frames) /\ Len(<<>>) = 0
      OBVIOUS
    <3>3. [link[c] EXCEPT !.queue = <<>>] = [seq |-> link[c].seq, queue |-> <<>>, wire |-> link[c].wire]
      BY <3>1
    <3>4. Len([seq |-> link[c].seq, queue |-> <<>>, wire |-> link[c].wire].queue) <= Capacity
      BY <3>1, <3>2
    <3> QED BY <3>1, <3>2, <3>3, <3>4 DEF Links, LinksOf, Frames, FramesOf
  <2> QED BY <1>1, <1>2, <2>2 DEF ConnTypes
<1>7. phase' \in [Conns -> Phases] /\ Restoring'
  BY <1>1, <1>2 DEF ConnTypes, Phases, Restoring
<1>8. up' \in [Conns -> Seq(Asked)]
  BY <1>1, <1>2 DEF ConnTypes
<1>9. ConnTypes'
  BY <1>5, <1>6, <1>7, <1>8 DEF ConnTypes
<1> QED BY <1>3, <1>5, <1>7, <1>9 DEF TypesInv

\* A request at the head of a connection's, and those behind it.
LEMMA RequestType ==
    ASSUME ConnTypes, NEW c \in Conns, NEW op, Requested(c, op)
    PROVE  /\ Head(up[c]) \in Asked /\ Head(up[c]).op = op /\ Head(up[c]).channels \in Seq(Channels)
           /\ [up EXCEPT ![c] = Tail(@)] \in [Conns -> Seq(Asked)]
<1>1. up[c] \in Seq(Asked) /\ up[c] # <<>> /\ Head(up[c]).op = op
  BY DEF ConnTypes, Requested
<1>2. Head(up[c]) \in Asked /\ Tail(up[c]) \in Seq(Asked)
  BY <1>1
<1>3. [up EXCEPT ![c] = Tail(@)] \in [Conns -> Seq(Asked)]
  BY <1>2 DEF ConnTypes
<1> QED BY <1>1, <1>2, <1>3 DEF Asked

LEMMA UnsubscribeTypes ==
    ASSUME TypesInv, NEW c \in Conns, Unsubscribe(c)
    PROVE  TypesInv'
<1> DEFINE named == Head(up[c]).channels
           chs == Among(named, held[c])
<1>1. /\ ConnTypes /\ Counted /\ JobsFit /\ Restoring
  BY DEF TypesInv
<1>2. /\ Requested(c, "unsubscribe") /\ job' = job /\ phase' = phase
      /\ RemoveRoutes(c, Sq!ToSet(chs)) /\ Send(c, <<AckOf("unsubscribe", chs)>>)
      /\ up' = [up EXCEPT ![c] = Tail(@)]
  BY DEF Unsubscribe
<1>3. job[c] = NoJob
  BY <1>2 DEF Requested, Ready
<1>4. named \in Seq(Channels) /\ up' \in [Conns -> Seq(Asked)]
  BY <1>1, <1>2, RequestType
<1>5. chs \in Seq(Channels) /\ Sq!ToSet(chs) \subseteq held[c]
  <2> HIDE DEF named
  <2> QED BY <1>4, AmongType
<1> HIDE DEF chs
<1>6. Counted'
  BY <1>1, <1>2, <1>5, RemoveRoutesCounted
<1>7. \A x \in Conns \ {c} : held'[x] = held[x]
  BY <1>1, <1>2 DEF RemoveRoutes, Counted
<1>8. JobsFit' /\ job' \in [Conns -> [op : JobOps, channels : Seq(Channels)]]
  BY <1>2, <1>3, <1>7, JobDone
<1>9. link' \in [Conns -> Links]
  <2>1. AckOf("unsubscribe", chs) \in Bodies
    BY <1>5 DEF AckOf, Bodies
  <2>2. <<AckOf("unsubscribe", chs)>> \in Seq(Bodies)
    BY <2>1
  <2> QED BY <1>1, <1>2, <2>2, SendType DEF ConnTypes
<1>10. Restoring'
  BY <1>1, <1>2 DEF Restoring
<1>11. ConnTypes'
  BY <1>1, <1>2, <1>4, <1>8, <1>9 DEF ConnTypes
<1> QED BY <1>6, <1>8, <1>10, <1>11 DEF TypesInv

\* One connection takes a new job that fits, or none; nothing else of it moves.
LEMMA JobTaken ==
    ASSUME TypesInv, NEW c \in Conns, NEW j \in [op : JobOps, channels : Seq(Channels)],
           job' = [job EXCEPT ![c] = j], held' = held,
           j.op \in {"register", "subscribe"} => Fits(c, Sq!ToSet(j.channels))
    PROVE  JobsFit' /\ job' \in [Conns -> [op : JobOps, channels : Seq(Channels)]]
<1>1. job \in [Conns -> [op : JobOps, channels : Seq(Channels)]]
  BY DEF TypesInv, ConnTypes
<1>2. \A x \in Conns : job'[x] = IF x = c THEN j ELSE job[x]
  BY <1>1
<1>3. job' \in [Conns -> [op : JobOps, channels : Seq(Channels)]]
  BY <1>1
<1>4. ASSUME NEW x \in Conns, job'[x].op \in {"register", "subscribe"}
      PROVE  IsFiniteSet(held'[x] \cup Sq!ToSet(job'[x].channels))
             /\ Cardinality(held'[x] \cup Sq!ToSet(job'[x].channels)) <= MaxChannels
  <2>1. CASE x = c
    BY <1>2, <1>4, <2>1 DEF Fits
  <2>2. CASE x # c
    <3>1. job'[x] = job[x]
      BY <1>2, <2>2
    <3> QED BY <1>4, <3>1 DEF TypesInv, JobsFit, Fits
  <2> QED BY <2>1, <2>2
<1> QED BY <1>3, <1>4 DEF JobsFit, Fits

LEMMA ClassifyTypes ==
    ASSUME TypesInv, NEW c \in Conns, ClassifySubscribe(c)
    PROVE  TypesInv'
<1> DEFINE chs == Head(up[c]).channels
           new == Sq!ToSet(chs) \ held[c]
           accepted == Accepted(c, chs)
           j == [op |-> "subscribe", channels |-> accepted]
<1>1. /\ ConnTypes /\ Counted /\ JobsFit /\ Restoring
  BY DEF TypesInv
<1>2. /\ Requested(c, "subscribe") /\ job' = [job EXCEPT ![c] = j]
      /\ denied' = [denied EXCEPT ![c] = (@ \cup new) \ Sq!ToSet(accepted)]
      /\ up' = [up EXCEPT ![c] = Tail(@)]
      /\ UNCHANGED <<subCount, held, link, phase>>
  BY DEF ClassifySubscribe
<1>3. chs \in Seq(Channels) /\ up' \in [Conns -> Seq(Asked)]
  BY <1>1, <1>2, RequestType
<1>4. accepted \in Seq(Channels) /\ Fits(c, Sq!ToSet(accepted))
  <2> HIDE DEF chs
  <2> QED BY <1>1, <1>3, AcceptedFits
<1>5. new \subseteq Channels
  <2> HIDE DEF chs
  <2> QED BY <1>3, ElementsFinite
<1> HIDE DEF chs, accepted, new
<1>6. j \in [op : JobOps, channels : Seq(Channels)] /\ j.channels = accepted
  BY <1>4 DEF JobOps
<1>7. JobsFit' /\ job' \in [Conns -> [op : JobOps, channels : Seq(Channels)]]
  <2> HIDE DEF j
  <2> QED BY <1>2, <1>4, <1>6, JobTaken
<1>8. denied' \in [Conns -> SUBSET Channels]
  BY <1>1, <1>2, <1>5 DEF Counted
<1>9. Counted'
  BY <1>1, <1>2, <1>8 DEF Counted, Pairs
<1>10. Restoring'
  <2>1. phase[c] = "serving"
    BY <1>2 DEF Requested
  <2> QED BY <1>1, <1>2, <2>1 DEF Restoring, ConnTypes
<1>11. ConnTypes'
  BY <1>1, <1>2, <1>3, <1>7 DEF ConnTypes
<1> QED BY <1>7, <1>9, <1>10, <1>11 DEF TypesInv

LEMMA PickResyncTypes ==
    ASSUME TypesInv, NEW c \in Conns, PickResync(c)
    PROVE  TypesInv'
<1> DEFINE named == Head(up[c]).channels
           targets == IF named = <<>> THEN Sq!SetToSeq(held[c]) ELSE Among(named, held[c])
           j == IF targets = <<>> THEN NoJob ELSE [op |-> "resync", channels |-> targets]
<1>1. /\ ConnTypes /\ Counted /\ JobsFit /\ Restoring
  BY DEF TypesInv
<1>2. /\ Requested(c, "resync") /\ job' = [job EXCEPT ![c] = j]
      /\ up' = [up EXCEPT ![c] = Tail(@)]
      /\ UNCHANGED <<subCount, held, denied, link, phase>>
  BY DEF PickResync, hubVars
<1>3. named \in Seq(Channels) /\ up' \in [Conns -> Seq(Asked)]
  BY <1>1, <1>2, RequestType
<1>4. targets \in Seq(Channels)
  <2> HIDE DEF named
  <2>1. Sq!SetToSeq(held[c]) \in Seq(held[c]) /\ held[c] \subseteq Channels
    BY <1>1, ListedFacts DEF Counted
  <2>2. Sq!SetToSeq(held[c]) \in Seq(Channels)
    BY <2>1
  <2>3. Among(named, held[c]) \in Seq(Channels)
    BY <1>3, AmongType
  <2> QED BY <2>2, <2>3
<1> HIDE DEF targets
<1>5. j \in [op : JobOps, channels : Seq(Channels)] /\ j.op \notin {"register", "subscribe"}
  BY <1>4 DEF JobOps, NoJob
<1> HIDE DEF j
<1>6. JobsFit' /\ job' \in [Conns -> [op : JobOps, channels : Seq(Channels)]]
  BY <1>2, <1>5, JobTaken
<1>7. Counted'
  BY <1>1, <1>2, CountedKept
<1>8. Restoring'
  <2>1. phase[c] = "serving"
    BY <1>2 DEF Requested
  <2> QED BY <1>1, <1>2, <2>1 DEF Restoring, ConnTypes
<1>9. ConnTypes'
  BY <1>1, <1>2, <1>3, <1>6 DEF ConnTypes
<1> QED BY <1>6, <1>7, <1>8, <1>9 DEF TypesInv

LEMMA AttachResyncTypes ==
    ASSUME SlateTypeOK, TypesInv, NEW c \in Conns, AttachResync(c)
    PROVE  TypesInv'
<1> DEFINE chs == job[c].channels
           fill == [i \in DOMAIN chs |-> SnapshotOf(chs[i])]
<1>1. /\ ConnTypes /\ Counted /\ JobsFit /\ Restoring
  BY DEF TypesInv
<1>2. /\ job[c].op = "resync" /\ job' = [job EXCEPT ![c] = NoJob]
      /\ UNCHANGED <<subCount, held, denied, phase, up>> /\ Send(c, fill)
  BY DEF AttachResync, hubVars
<1>3. fill \in Seq(Bodies)
  <2>1. chs \in Seq(Channels)
    BY <1>1 DEF ConnTypes
  <2> HIDE DEF chs
  <2> QED BY <2>1, SnapshotsType
<1>4. JobsFit' /\ job' \in [Conns -> [op : JobOps, channels : Seq(Channels)]]
  BY <1>2, JobDone
<1>5. link' \in [Conns -> Links]
  <2> HIDE DEF fill
  <2> QED BY <1>1, <1>2, <1>3, SendType DEF ConnTypes
<1>6. Counted'
  BY <1>1, <1>2, CountedKept
<1>7. Restoring'
  BY <1>1, <1>2 DEF Restoring, ConnTypes
<1>8. ConnTypes'
  BY <1>1, <1>2, <1>4, <1>5 DEF ConnTypes
<1> QED BY <1>4, <1>6, <1>7, <1>8 DEF TypesInv

LEMMA RestoreTypes ==
    ASSUME RoutingInv, TypesInv, NEW c \in Conns, Restore(c)
    PROVE  TypesInv'
<1>1. /\ ConnTypes /\ Counted /\ JobsFit /\ Restoring
  BY DEF TypesInv
<1>2. phase[c] = "upgraded" /\ UNCHANGED <<subCount, held, denied, link, up>>
  BY DEF Restore, hubVars
<1>3. Counted'
  BY <1>1, <1>2, CountedKept
<1>4. CASE phase' = [phase EXCEPT ![c] = "refused"] /\ job' = job
  <2>1. JobsFit'
    BY <1>1, <1>2, <1>4 DEF JobsFit, Fits
  <2>2. Restoring' /\ phase' \in [Conns -> Phases]
    BY <1>1, <1>4 DEF Restoring, ConnTypes, Phases
  <2> QED BY <1>1, <1>2, <1>3, <1>4, <2>1, <2>2 DEF TypesInv, ConnTypes
<1>5. ASSUME NEW restored \in SUBSET Restorable, Cardinality(restored) <= MaxChannels,
             job' = [job EXCEPT ![c] = [op |-> "register", channels |-> Sq!SetToSeq(restored)]],
             phase' = [phase EXCEPT ![c] = "restored"]
      PROVE  TypesInv'
  <2> DEFINE chs == Sq!SetToSeq(restored)
             j == [op |-> "register", channels |-> chs]
  <2>1. IsFiniteSet(restored) /\ restored \subseteq Channels
    BY RestorableAssumption, FS_Subset
  <2>2. chs \in Seq(restored) /\ Sq!ToSet(chs) = restored
    BY <2>1, ListedFacts
  <2> HIDE DEF chs
  <2>3. chs \in Seq(Channels)
    BY <2>1, <2>2
  <2>4. held[c] = {}
    BY <1>2 DEF RoutingInv, HeldLive, LiveExact, LivePhases
  <2>5. Fits(c, Sq!ToSet(chs))
    <3>1. held[c] \cup Sq!ToSet(chs) = restored
      BY <2>2, <2>4
    <3> QED BY <1>5, <2>1, <3>1 DEF Fits
  <2>6. j \in [op : JobOps, channels : Seq(Channels)] /\ j.channels = chs /\ j.op = "register"
    BY <2>3 DEF JobOps
  <2>7. job' = [job EXCEPT ![c] = j]
    BY <1>5 DEF chs
  <2> HIDE DEF j
  <2>8. JobsFit' /\ job' \in [Conns -> [op : JobOps, channels : Seq(Channels)]]
    BY <1>2, <2>5, <2>6, <2>7, JobTaken
  <2>9. Restoring' /\ phase' \in [Conns -> Phases]
    <3>1. job'[c] = j
      BY <1>1, <2>7 DEF ConnTypes
    <3>2. \A x \in Conns \ {c} : job'[x] = job[x] /\ phase'[x] = phase[x]
      BY <1>1, <1>5, <2>7 DEF ConnTypes
    <3>3. Restoring'
      BY <1>1, <2>6, <3>1, <3>2 DEF Restoring
    <3> QED BY <1>1, <1>5, <3>3 DEF ConnTypes, Phases
  <2> QED BY <1>1, <1>2, <1>3, <2>8, <2>9 DEF TypesInv, ConnTypes
<1> QED BY <1>4, <1>5 DEF Restore

\* Steps that only move a connection on, or its frames.
LEMMA LinkStepTypes ==
    ASSUME TypesInv, UNCHANGED <<subCount, held, denied, job>>, link' \in [Conns -> Links],
           phase' \in [Conns -> Phases], up' \in [Conns -> Seq(Asked)],
           \A c \in Conns : phase'[c] = "restored" => phase[c] = "restored"
    PROVE  TypesInv'
<1>1. /\ ConnTypes /\ Counted /\ JobsFit /\ Restoring
  BY DEF TypesInv
<1>2. Counted'
  BY <1>1, CountedKept
<1>3. JobsFit' /\ Restoring'
  BY <1>1 DEF JobsFit, Fits, Restoring
<1>4. ConnTypes'
  BY <1>1 DEF ConnTypes
<1> QED BY <1>2, <1>3, <1>4 DEF TypesInv

LEMMA PublishTypes ==
    ASSUME SlateInv, TypesInv, NEW d \in Deliveries, Publish(d)
    PROVE  TypesInv'
<1>1. Fold(d) /\ UNCHANGED <<subCount, held, denied, job, phase, up>>
  BY DEF Publish, hubVars
<1>2. link' \in [Conns -> Links]
  <2>1. link \in [Conns -> Links]
    BY DEF TypesInv, ConnTypes
  <2>2. CASE ~Changed(result')
    BY <2>1, <2>2 DEF Publish
  <2>3. CASE Changed(result')
    <3>1. /\ link' = [c \in Conns |-> link'[c]]
          /\ \A c \in Conns : link'[c] \in Queued(c, Fanout(c, result'))
      BY <2>3 DEF Publish
    <3>2. \A c \in Conns : Queued(c, Fanout(c, result')) \subseteq Links
      BY <1>1, <2>1, <2>3, FanoutType, QueuedType
    <3> QED BY <3>1, <3>2
  <2> QED BY <2>2, <2>3
<1> QED BY <1>1, <1>2, LinkStepTypes DEF TypesInv, ConnTypes

\* A frame moves from the queue to the wire, or from the wire to the client.
LEMMA MoveOf ==
    ASSUME NEW B, NEW l \in LinksOf(B)
    PROVE  /\ l.queue # <<>> =>
                [l EXCEPT !.queue = Tail(@), !.wire = Append(@, Head(l.queue))] \in LinksOf(B)
           /\ l.wire # <<>> => [l EXCEPT !.wire = Tail(@)] \in LinksOf(B)
<1>1. /\ l \in [seq : Nat, queue : Seq(FramesOf(B)), wire : Seq(FramesOf(B))]
      /\ Len(l.queue) \in Nat /\ Len(l.queue) <= Capacity /\ Capacity \in Nat
  BY CapacitiesAssumption DEF LinksOf
<1>2. ASSUME l.wire # <<>> PROVE [l EXCEPT !.wire = Tail(@)] \in LinksOf(B)
  <2> DEFINE w == Tail(l.wire)
  <2>1. w \in Seq(FramesOf(B))
    BY <1>1, <1>2
  <2>2. [l EXCEPT !.wire = Tail(@)] = [l EXCEPT !.wire = w]
    OBVIOUS
  <2> HIDE DEF w
  <2>3. [l EXCEPT !.wire = w] = [seq |-> l.seq, queue |-> l.queue, wire |-> w]
    BY <1>1
  <2>4. Len([seq |-> l.seq, queue |-> l.queue, wire |-> w].queue) <= Capacity
    BY <1>1
  <2> QED BY <1>1, <2>1, <2>2, <2>3, <2>4 DEF LinksOf
<1>3. ASSUME l.queue # <<>>
      PROVE  [l EXCEPT !.queue = Tail(@), !.wire = Append(@, Head(l.queue))] \in LinksOf(B)
  <2> DEFINE q == Tail(l.queue)
             w == Append(l.wire, Head(l.queue))
  <2>1. q \in Seq(FramesOf(B)) /\ Len(q) <= Len(l.queue) /\ w \in Seq(FramesOf(B)) /\ Len(q) \in Nat
    BY <1>1, <1>3
  <2>2. [l EXCEPT !.queue = Tail(@), !.wire = Append(@, Head(l.queue))]
          = [[l EXCEPT !.queue = q] EXCEPT !.wire = w]
    OBVIOUS
  <2> HIDE DEF q, w
  <2>3. [l EXCEPT !.queue = q] = [seq |-> l.seq, queue |-> q, wire |-> l.wire]
    BY <1>1
  <2> DEFINE r == [l EXCEPT !.queue = q]
  <2>4. [r EXCEPT !.wire = w] = [seq |-> l.seq, queue |-> q, wire |-> w]
    <3>1. r \in [seq : Nat, queue : Seq(FramesOf(B)), wire : Seq(FramesOf(B))]
      BY <1>1, <2>1, <2>3
    <3>2. r.seq = l.seq /\ r.queue = q
      BY <2>3
    <3> HIDE DEF r
    <3>3. [r EXCEPT !.wire = w] = [seq |-> r.seq, queue |-> r.queue, wire |-> w]
      BY <3>1
    <3> QED BY <3>2, <3>3
  <2>5. [seq |-> l.seq, queue |-> q, wire |-> w] \in [seq : Nat, queue : Seq(FramesOf(B)), wire : Seq(FramesOf(B))]
    BY <1>1, <2>1
  <2>6. Len([seq |-> l.seq, queue |-> q, wire |-> w].queue) <= Capacity
    BY <1>1, <2>1
  <2> QED BY <2>2, <2>4, <2>5, <2>6 DEF LinksOf
<1> QED BY <1>2, <1>3

LEMMA MoveType ==
    ASSUME NEW l \in Links
    PROVE  /\ l.queue # <<>> =>
                [l EXCEPT !.queue = Tail(@), !.wire = Append(@, Head(l.queue))] \in Links
           /\ l.wire # <<>> => [l EXCEPT !.wire = Tail(@)] \in Links
BY MoveOf DEF Links

\* Upgrade, serve, close, the loops of a connection and the client's end of it.
LEMMA PhaseTypes ==
    ASSUME TypesInv, NEW c \in Conns, Upgrade(c) \/ Serve(c) \/ Close(c) \/ CloseForShutdown(c)
    PROVE  TypesInv'
<1>1. UNCHANGED <<subCount, held, denied, job, link, up>>
  BY DEF Upgrade, Serve, Close, CloseForShutdown, hubVars
<1>2. PICK p \in Phases : phase' = [phase EXCEPT ![c] = p] /\ (p = "restored" => phase[c] = "restored")
  <2>1. CASE Upgrade(c)
    BY <2>1 DEF Upgrade, Phases
  <2>2. CASE Serve(c)
    BY <2>2 DEF Serve, Phases
  <2>3. CASE Close(c)
    BY <2>3 DEF Close, Phases
  <2>4. CASE CloseForShutdown(c)
    <3>1. phase[c] \in Phases /\ phase' = [phase EXCEPT ![c] = IF Open(c) THEN "closing" ELSE phase[c]]
      BY <2>4 DEF CloseForShutdown, TypesInv, ConnTypes
    <3>2. "closing" \in Phases
      BY DEF Phases
    <3> QED BY <3>1, <3>2
  <2> QED BY <2>1, <2>2, <2>3, <2>4
<1>3. phase' \in [Conns -> Phases] /\ \A x \in Conns : phase'[x] = "restored" => phase[x] = "restored"
  BY <1>2 DEF TypesInv, ConnTypes
<1> QED BY <1>1, <1>3, LinkStepTypes DEF TypesInv, ConnTypes

LEMMA TransmitTypes ==
    ASSUME TypesInv, NEW c \in Conns, Transmit(c) \/ Receives(c) \/ Farewell(c)
    PROVE  TypesInv'
<1>1. UNCHANGED <<subCount, held, denied, job, phase, up>>
  BY DEF Transmit, Receives, Farewell, hubVars
<1>2. link \in [Conns -> Links] /\ link[c] \in Links
  BY DEF TypesInv, ConnTypes
<1>3. link' \in [Conns -> Links]
  <2>1. CASE Transmit(c)
    <3> DEFINE l == [link[c] EXCEPT !.queue = Tail(@), !.wire = Append(@, Head(link[c].queue))]
    <3>1. link[c].queue # <<>> /\ link' = [link EXCEPT ![c] = l]
      BY <1>2, <2>1 DEF Transmit
    <3>2. l \in Links
      BY <1>2, <3>1, MoveType
    <3> HIDE DEF l
    <3> QED BY <1>2, <3>1, <3>2
  <2>2. CASE Receives(c)
    <3> DEFINE l == [link[c] EXCEPT !.wire = Tail(@)]
    <3>1. link[c].wire # <<>> /\ link' = [link EXCEPT ![c] = l]
      BY <1>2, <2>2 DEF Receives
    <3>2. l \in Links
      BY <1>2, <3>1, MoveType
    <3> HIDE DEF l
    <3> QED BY <1>2, <3>1, <3>2
  <2>3. CASE Farewell(c)
    <3>1. GoingAway \in Bodies
      BY DEF GoingAway, Bodies
    <3>2. <<GoingAway>> \in Seq(Bodies)
      BY <3>1
    <3> QED BY <1>2, <2>3, <3>2, SendType DEF Farewell
  <2> QED BY <2>1, <2>2, <2>3
<1> QED BY <1>1, <1>3, LinkStepTypes DEF TypesInv, ConnTypes

LEMMA AsksTypes ==
    ASSUME TypesInv, NEW c \in Conns, Asks(c)
    PROVE  TypesInv'
<1>1. UNCHANGED <<subCount, held, denied, job, phase, link>>
  BY DEF Asks, hubVars
<1>2. Requests \subseteq Asked
  <2>1. Restorable \subseteq Channels
    BY RestorableAssumption
  <2>2. /\ <<>> \in Seq(Channels)
        /\ \A ch \in Restorable : <<ch>> \in Seq(Channels)
        /\ \A a, b \in Restorable : <<a, b>> \in Seq(Channels)
    BY <2>1
  <2> SUFFICES ASSUME NEW req \in Requests PROVE req \in Asked
    OBVIOUS
  <2>3. req \in [op : RequestOps, channels : {req.channels}] /\ req.channels \in Seq(Channels)
    <3>1. CASE req \in [op : {"subscribe", "unsubscribe", "resync"}, channels : {<<>>}]
      BY <2>2, <3>1 DEF RequestOps
    <3>2. CASE req \in [op : {"subscribe", "unsubscribe", "resync"}, channels : {<<ch>> : ch \in Restorable}]
      BY <2>2, <3>2 DEF RequestOps
    <3>3. CASE req \in [op : {"subscribe"}, channels : {<<a, b>> : a, b \in Restorable}]
      <4>1. req.channels \in {<<a, b>> : a, b \in Restorable} /\ req.op = "subscribe"
        BY <3>3
      <4>2. PICK a \in Restorable, b \in Restorable : req.channels = <<a, b>>
        BY <4>1
      <4>3. req.channels \in Seq(Channels)
        BY <2>2, <4>2
      <4>4. req \in [op : {"subscribe"}, channels : {req.channels}]
        BY <3>3
      <4> QED BY <4>3, <4>4 DEF RequestOps
    <3> QED BY <3>1, <3>2, <3>3 DEF Requests
  <2> QED BY <2>3 DEF Asked
<1>3. PICK req \in Requests : up' = [up EXCEPT ![c] = Append(@, req)]
  BY DEF Asks
<1>4. up' \in [Conns -> Seq(Asked)]
  <2>1. up \in [Conns -> Seq(Asked)] /\ req \in Asked
    BY <1>2 DEF TypesInv, ConnTypes
  <2>2. Append(up[c], req) \in Seq(Asked)
    BY <2>1
  <2> QED BY <1>3, <2>1, <2>2
<1> QED BY <1>1, <1>4, LinkStepTypes DEF TypesInv, ConnTypes

\* The invariant of the hub, whoever its clients are.
HubInv == RoutingInv /\ SlateInv /\ TypesInv

LEMMA HubInit == GatewayInit => HubInv
<1> SUFFICES ASSUME GatewayInit PROVE HubInv
  OBVIOUS
<1>1. RoutingInv
  BY RoutingInit
<1>2. SlateInv
  BY SlateStarts DEF GatewayInit
<1>3. ConnTypes
  <2>1. [seq |-> 0, queue |-> <<>>, wire |-> <<>>] \in Links
    <3>1. <<>> \in Seq(Frames) /\ Len(<<>>) = 0 /\ 0 <= Capacity
      BY CapacitiesAssumption
    <3> QED BY <3>1 DEF Links, LinksOf, Frames, FramesOf
  <2>2. NoJob \in [op : JobOps, channels : Seq(Channels)]
    BY DEF NoJob, JobOps
  <2>3. "idle" \in Phases
    BY DEF Phases
  <2> QED BY <2>1, <2>2, <2>3 DEF GatewayInit, ConnTypes
<1>4. Counted
  <2>1. Pairs = {} /\ \A c \in Conns : held[c] = {}
    BY DEF GatewayInit, Pairs
  <2>2. IsFiniteSet({}) /\ Cardinality({}) = 0 /\ 0 <= MaxChannels
    BY FS_EmptySet, CapacitiesAssumption
  <2> QED BY <2>1, <2>2 DEF GatewayInit, Counted
<1>5. JobsFit /\ Restoring
  BY DEF GatewayInit, JobsFit, Restoring, NoJob
<1> QED BY <1>1, <1>2, <1>3, <1>4, <1>5 DEF HubInv, TypesInv

\* Every step of the hub, and of the clients of Gateway.tla.
LEMMA HubStep ==
    ASSUME HubInv, [GatewayNext]_gatewayVars
    PROVE  HubInv'
<1>1. RoutingInv /\ SlateInv /\ TypesInv /\ SlateTypeOK
  BY DEF HubInv, SlateInv
<1>2. RoutingInv'
  BY <1>1, RoutingStep
<1>3. CASE UNCHANGED <<slateVars, subCount, held, denied, connVars>>
  <2>1. SlateInv'
    BY <1>1, <1>3, SlateKept DEF slateVars
  <2>2. TypesInv'
    BY <1>1, <1>3, LinkStepTypes DEF connVars, TypesInv, ConnTypes
  <2> QED BY <1>2, <2>1, <2>2 DEF HubInv
<1>4. ASSUME NEW d \in Deliveries, Publish(d) PROVE HubInv'
  <2>1. SlateInv'
    BY <1>1, <1>4, FoldPreserves DEF Publish
  <2> QED BY <1>1, <1>2, <1>4, <2>1, PublishTypes DEF HubInv
<1>5. ASSUME NEW c \in Conns,
             \/ Restore(c) \/ Register(c) \/ Serve(c) \/ Close(c) \/ Unregister(c)
             \/ Handling(c) \/ Transmit(c)
             \/ Farewell(c) \/ CloseForShutdown(c) \/ Upgrade(c) \/ Asks(c) \/ Receives(c)
      PROVE  HubInv'
  <2>1. UNCHANGED slateVars
    BY <1>5 DEF Restore, Register, Serve, Close, Unregister, Handling, Unsubscribe, ClassifySubscribe,
                AttachSubscribe, PickResync, AttachResync, Transmit, Farewell, CloseForShutdown,
                Upgrade, Asks, Receives
  <2>2. SlateInv'
    BY <1>1, <2>1, SlateKept
  <2>3. TypesInv'
    BY <1>1, <1>5, RestoreTypes, RegisterTypes, UnregisterTypes, UnsubscribeTypes, ClassifyTypes,
       AttachSubscribeTypes, PickResyncTypes, AttachResyncTypes, PhaseTypes, TransmitTypes, AsksTypes
       DEF Handling
  <2> QED BY <1>2, <2>2, <2>3 DEF HubInv
<1>6. CASE BeginShutdown \/ Collect
  BY <1>3, <1>6 DEF BeginShutdown, Collect, hubVars
<1>7. CASE UNCHANGED gatewayVars
  BY <1>3, <1>7 DEF gatewayVars, hubVars
<1> QED BY <1>4, <1>5, <1>6, <1>7 DEF GatewayNext, HubNext, ShuttingDown

\* The bounds of the exploration.
Bounded == folds \in 0..MaxFolds /\ asked \in 0..MaxAsked

LEMMA BoundedStep == Bounded /\ [GatewayNext]_gatewayVars => Bounded'
<1> SUFFICES ASSUME Bounded, [GatewayNext]_gatewayVars PROVE Bounded'
  OBVIOUS
<1>1. ASSUME NEW d \in Deliveries, Publish(d) PROVE Bounded'
  BY <1>1, RecordsAssumption DEF Publish, Bounded
<1>2. ASSUME NEW c \in Conns, Asks(c) PROVE Bounded'
  BY <1>2, AskedAssumption DEF Asks, Bounded
<1>3. CASE UNCHANGED <<folds, asked>>
  BY <1>3 DEF Bounded
<1>4. ASSUME NEW c \in Conns,
             \/ Restore(c) \/ Register(c) \/ Serve(c) \/ Close(c) \/ Unregister(c)
             \/ Handling(c) \/ Transmit(c)
             \/ Farewell(c) \/ CloseForShutdown(c) \/ Upgrade(c) \/ Receives(c)
      PROVE  Bounded'
  BY <1>3, <1>4 DEF Restore, Register, Serve, Close, Unregister, Handling, Unsubscribe, ClassifySubscribe,
                AttachSubscribe, PickResync, AttachResync, Transmit, Farewell, CloseForShutdown,
                Upgrade, Receives
<1>5. CASE BeginShutdown \/ Collect \/ UNCHANGED gatewayVars
  BY <1>3, <1>5 DEF BeginShutdown, Collect, gatewayVars
<1> QED BY <1>1, <1>2, <1>4, <1>5 DEF GatewayNext, HubNext, ShuttingDown

LEMMA HubTypes == HubInv /\ Bounded => GatewayTypeOK
<1> SUFFICES ASSUME HubInv, Bounded PROVE GatewayTypeOK
  OBVIOUS
<1>1. RoutingInv /\ SlateTypeOK /\ ConnTypes /\ Counted
  BY DEF HubInv, SlateInv, TypesInv
<1>2. SubscriptionsCounted /\ WithinLimit /\ subCount \in Nat
  BY <1>1, FS_CardinalityType DEF Counted, Pairs, SubscriptionsCounted, WithinLimit
<1>3. subs \in UNION {[chs -> SUBSET Conns] : chs \in SUBSET Channels}
  <2>1. UNION {held[c] : c \in Conns} \in SUBSET Channels
    BY <1>1 DEF Counted
  <2>2. subs \in [UNION {held[c] : c \in Conns} -> SUBSET Conns]
    BY <1>1 DEF RoutingInv, RoutesExact
  <2> QED BY <2>1, <2>2
<1>4. live \in SUBSET Conns
  BY <1>1 DEF RoutingInv, LiveExact
<1>5. \A c \in Conns : Len(link[c].queue) <= Capacity
  BY <1>1 DEF ConnTypes, Links, LinksOf
<1> QED BY <1>1, <1>2, <1>3, <1>4, <1>5 DEF GatewayTypeOK, Counted, ConnTypes, Bounded

\* The hub's state has its type in every reachable state: the gauge of
\* subscriptions is the number of routes, no connection holds more channels than
\* its limit though subscribe checks it in one critical section and adds in
\* another, and no queue is longer than its capacity.
THEOREM GatewayTypes == GatewaySpec => []GatewayTypeOK
<1>1. GatewayInit => HubInv /\ Bounded
  <2>1. GatewayInit => Bounded
    BY AskedAssumption, RecordsAssumption DEF GatewayInit, Bounded
  <2> QED BY <2>1, HubInit
<1>2. HubInv /\ Bounded /\ [GatewayNext]_gatewayVars => HubInv' /\ Bounded'
  BY HubStep, BoundedStep
<1> QED BY <1>1, <1>2, HubTypes, PTL DEF GatewaySpec
-----------------------------------------------------------------------------
(* What clients build on *)

\* None of the connections moves.
LEMMA HubRests ==
    ASSUME HubInv, UNCHANGED <<slateVars, hubVars, connVars>>
    PROVE  HubInv'
<1>1. RoutingInv /\ SlateInv /\ TypesInv /\ Shape /\ JobsLive /\ ConnTypes
  BY DEF HubInv, RoutingInv, TypesInv
<1>2. UNCHANGED <<subs, subCount, live, held, denied, link, phase, job, up>>
  BY DEF hubVars, connVars
<1>3. RoutingInv'
  <2>1. Shape' /\ JobsLive'
    BY <1>1, <1>2 DEF Shape, JobsLive
  <2> QED BY <1>1, <1>2, <2>1, RoutingKept
<1>4. TypesInv'
  BY <1>1, <1>2, LinkStepTypes DEF ConnTypes
<1> QED BY <1>1, <1>3, <1>4, SlateKept DEF HubInv

\* The hub opens no connection by itself, and forgets none.
LEMMA HubPhases ==
    ASSUME ConnTypes, HubNext
    PROVE  \A c \in Conns : phase'[c] = "idle" <=> phase[c] = "idle"
<1>1. phase \in [Conns -> Phases]
  BY DEF ConnTypes
<1>2. ASSUME NEW d, Publish(d) PROVE phase' = phase
  BY <1>2 DEF Publish
<1>3. ASSUME NEW c \in Conns, Restore(c) \/ Register(c) \/ Serve(c) \/ Close(c) \/ Unregister(c)
      PROVE  phase[c] # "idle" /\ \E p \in Phases \ {"idle"} : phase' = [phase EXCEPT ![c] = p]
  BY <1>1, <1>3 DEF Restore, Register, Serve, Close, Open, Unregister, Phases
<1>4. ASSUME NEW c \in Conns, Handling(c) \/ Transmit(c) PROVE phase' = phase
  BY <1>4 DEF Handling, Unsubscribe, ClassifySubscribe, AttachSubscribe, PickResync, AttachResync, Transmit
<1> QED BY <1>1, <1>2, <1>3, <1>4 DEF HubNext

\* A connection that was not admitted carries nothing to its client.
Early == {"idle", "upgraded", "restored", "refused"}
EarlyInv ==
    \A c \in Conns : /\ phase[c] \in Early => link[c] = [seq |-> 0, queue |-> <<>>, wire |-> <<>>]
                     /\ phase[c] = "idle" => up[c] = <<>>

\* Nor does it take a connection back.
LEMMA HubAdvances ==
    ASSUME ConnTypes, HubNext
    PROVE  \A c \in Conns : /\ phase'[c] \in Early => phase[c] \in Early
                            /\ Open(c)' => phase[c] \in Early \/ Open(c)
<1>1. phase \in [Conns -> Phases]
  BY DEF ConnTypes
<1>2. CASE phase' = phase
  BY <1>2 DEF Open
<1>3. ASSUME NEW d, Publish(d) PROVE phase' = phase
  BY <1>3 DEF Publish
<1>4. ASSUME NEW x \in Conns, Restore(x) \/ Register(x) \/ Serve(x) \/ Close(x) \/ Unregister(x), NEW c \in Conns
      PROVE  /\ phase'[c] \in Early => phase[c] \in Early
             /\ Open(c)' => phase[c] \in Early \/ Open(c)
  BY <1>1, <1>4 DEF Restore, Register, Serve, Close, Unregister, Early, Open
<1>5. ASSUME NEW x \in Conns, Handling(x) \/ Transmit(x) PROVE phase' = phase
  BY <1>5 DEF Handling, Unsubscribe, ClassifySubscribe, AttachSubscribe, PickResync, AttachResync, Transmit
<1> QED BY <1>2, <1>3, <1>4, <1>5 DEF HubNext

\* What is not admitted stays empty.
LEMMA EarlyHub ==
    ASSUME ConnTypes, EarlyInv, HubNext
    PROVE  EarlyInv'
<1>1. /\ link \in [Conns -> Links] /\ phase \in [Conns -> Phases] /\ up \in [Conns -> Seq(Asked)]
  BY DEF ConnTypes
<1>2. \A c \in Conns : phase[c] \in Early => ~Open(c)
  BY DEF Early, Open
<1>3. \A c \in Conns : phase'[c] = "idle" <=> phase[c] = "idle"
  BY HubPhases
<1>4. \A c \in Conns : phase'[c] \in Early => phase[c] \in Early
  BY HubAdvances
<1>5. ASSUME NEW c \in Conns, phase'[c] \in Early PROVE link'[c] = link[c]
  <2>1. phase[c] \in Early /\ link[c].queue = <<>> /\ ~Open(c)
    BY <1>2, <1>4, <1>5 DEF EarlyInv
  <2>2. ASSUME NEW d, Publish(d) PROVE link'[c] = link[c]
    BY <2>1, <2>2 DEF Publish, Queued
  <2>3. ASSUME NEW x \in Conns, NEW bodies, Send(x, bodies) PROVE link'[c] = link[c]
    BY <1>1, <2>1, <2>3 DEF Send, Queued
  <2>4. ASSUME NEW x \in Conns, Handling(x) PROVE link'[c] = link[c]
    BY <2>3, <2>4 DEF Handling, Unsubscribe, ClassifySubscribe, AttachSubscribe, PickResync, AttachResync
  <2>5. ASSUME NEW x \in Conns, Restore(x) \/ Serve(x) \/ Close(x) \/ Transmit(x) \/ Unregister(x)
        PROVE  link'[c] = link[c]
    BY <1>1, <1>5, <2>1, <2>5 DEF Restore, Serve, Close, Transmit, Unregister, Early
  <2>6. ASSUME NEW x \in Conns, Register(x) PROVE link'[c] = link[c]
    BY <1>1, <1>5, <2>6 DEF Register, Early
  <2> QED BY <2>2, <2>4, <2>5, <2>6 DEF HubNext
<1>6. ASSUME NEW c \in Conns, phase[c] = "idle" PROVE up'[c] = up[c]
  <2>1. ASSUME NEW d, Publish(d) PROVE up' = up
    BY <2>1 DEF Publish
  <2>2. ASSUME NEW x \in Conns, \/ Restore(x) \/ Register(x) \/ Serve(x) \/ Close(x) \/ Transmit(x)
                                \/ AttachSubscribe(x) \/ AttachResync(x)
        PROVE  up' = up
    BY <2>2 DEF Restore, Register, Serve, Close, Transmit, AttachSubscribe, AttachResync
  <2>3. ASSUME NEW x \in Conns, Unregister(x) \/ Unsubscribe(x) \/ ClassifySubscribe(x) \/ PickResync(x)
        PROVE  up'[c] = up[c]
    BY <1>1, <1>6, <2>3 DEF Unregister, Unsubscribe, ClassifySubscribe, PickResync, Requested
  <2> QED BY <2>1, <2>2, <2>3 DEF HubNext, Handling
<1> QED BY <1>3, <1>4, <1>5, <1>6 DEF EarlyInv

\* Two sequences with the same elements in the same places.
LEMMA SameSeq ==
    ASSUME NEW S, NEW s \in Seq(S), NEW t \in Seq(S), Len(s) = Len(t),
           \A i \in 1 .. Len(s) : s[i] = t[i]
    PROVE  s = t
OBVIOUS

\* The bodies of a sequence, each of a narrower kind.
LEMMA Narrowed ==
    ASSUME NEW S, NEW B, NEW s \in Seq(S), \A i \in 1 .. Len(s) : s[i] \in B
    PROVE  s \in Seq(B)
OBVIOUS

-----------------------------------------------------------------------------
(* The last word: of what a client asks on a connection, the hub does the last *)

AsksFor(req, ch) == req.op = "subscribe" /\ ch \in Sq!ToSet(req.channels)
Drops(req, ch) == req.op = "unsubscribe" /\ ch \in Sq!ToSet(req.channels)

\* Of the requests of s that name the channel, the last asks for it; or none drops it.
Final(s, ch) == \E i \in 1 .. Len(s) : AsksFor(s[i], ch) /\ \A j \in i + 1 .. Len(s) : ~Drops(s[j], ch)
Silent(s, ch) == \A j \in 1 .. Len(s) : ~Drops(s[j], ch)

\* The hub was asked, and did, refused or is about to do it.
Granted(c, ch) == \/ ch \in held[c] \cup denied[c]
                  \/ job[c].op = "subscribe" /\ ch \in Sq!ToSet(job[c].channels)
Heeded(c, ch) == Final(up[c], ch) \/ (Silent(up[c], ch) /\ Granted(c, ch))

\* One more request, and one fewer.
LEMMA WordAppended ==
    ASSUME NEW s \in Seq(Asked), NEW r \in Asked, NEW ch
    PROVE  /\ AsksFor(r, ch) => Final(Append(s, r), ch)
           /\ ~Drops(r, ch) /\ Final(s, ch) => Final(Append(s, r), ch)
           /\ ~Drops(r, ch) /\ Silent(s, ch) => Silent(Append(s, r), ch)
<1> DEFINE N == Len(s)
           t == Append(s, r)
<1>1. N \in Nat /\ Len(t) = N + 1 /\ t[N + 1] = r /\ \A i \in 1 .. N : t[i] = s[i]
  OBVIOUS
<1> HIDE DEF t
<1>2. ASSUME AsksFor(r, ch) PROVE Final(t, ch)
  <2>1. N + 1 \in 1 .. Len(t) /\ (N + 1) + 1 .. Len(t) = {}
    BY <1>1
  <2> QED BY <1>1, <1>2, <2>1 DEF Final
<1>3. ASSUME ~Drops(r, ch), Final(s, ch) PROVE Final(t, ch)
  <2>1. PICK i \in 1 .. N : AsksFor(s[i], ch) /\ \A j \in i + 1 .. N : ~Drops(s[j], ch)
    BY <1>3 DEF Final
  <2>2. i \in 1 .. Len(t) /\ AsksFor(t[i], ch)
    BY <1>1, <2>1
  <2>3. ASSUME NEW j \in i + 1 .. Len(t) PROVE ~Drops(t[j], ch)
    <3>1. CASE j = N + 1
      BY <1>1, <1>3, <3>1
    <3>2. CASE j # N + 1
      <4>1. j \in i + 1 .. N /\ j \in 1 .. N
        BY <1>1, <2>1, <3>2
      <4> QED BY <1>1, <2>1, <4>1
    <3> QED BY <3>1, <3>2
  <2> QED BY <2>2, <2>3 DEF Final
<1>4. ASSUME ~Drops(r, ch), Silent(s, ch) PROVE Silent(t, ch)
  <2> SUFFICES ASSUME NEW j \in 1 .. Len(t) PROVE ~Drops(t[j], ch)
    BY DEF Silent
  <2>1. CASE j = N + 1
    BY <1>1, <1>4, <2>1
  <2>2. CASE j # N + 1
    <3>1. j \in 1 .. N
      BY <1>1, <2>2
    <3> QED BY <1>1, <1>4, <3>1 DEF Silent
  <2> QED BY <2>1, <2>2
<1> QED BY <1>2, <1>3, <1>4 DEF t

LEMMA WordTaken ==
    ASSUME NEW s \in Seq(Asked), s # <<>>, NEW ch
    PROVE  /\ Final(s, ch) => Final(Tail(s), ch) \/ (AsksFor(Head(s), ch) /\ Silent(Tail(s), ch))
           /\ Silent(s, ch) => ~Drops(Head(s), ch) /\ Silent(Tail(s), ch)
<1> DEFINE N == Len(s)
           t == Tail(s)
<1>1. N \in Nat /\ N >= 1 /\ Len(t) = N - 1 /\ Head(s) = s[1] /\ \A i \in 1 .. N - 1 : t[i] = s[i + 1]
  OBVIOUS
<1> HIDE DEF t
<1>2. ASSUME Silent(s, ch) PROVE ~Drops(Head(s), ch) /\ Silent(t, ch)
  <2>1. 1 \in 1 .. N /\ \A j \in 1 .. Len(t) : j \in 1 .. N - 1 /\ j + 1 \in 1 .. N
    BY <1>1
  <2> QED BY <1>1, <1>2, <2>1 DEF Silent
<1>3. ASSUME Final(s, ch) PROVE Final(t, ch) \/ (AsksFor(Head(s), ch) /\ Silent(t, ch))
  <2>1. PICK i \in 1 .. N : AsksFor(s[i], ch) /\ \A j \in i + 1 .. N : ~Drops(s[j], ch)
    BY <1>3 DEF Final
  <2>2. \A j \in i .. Len(t) : ~Drops(t[j], ch)
    <3> SUFFICES ASSUME NEW j \in i .. Len(t) PROVE ~Drops(t[j], ch)
      OBVIOUS
    <3>1. j \in 1 .. N - 1 /\ j + 1 \in i + 1 .. N
      BY <1>1, <2>1
    <3> QED BY <1>1, <2>1, <3>1
  <2>3. CASE i = 1
    BY <1>1, <2>1, <2>2, <2>3 DEF Silent
  <2>4. CASE i # 1
    <3>1. i - 1 \in 1 .. Len(t) /\ i - 1 \in 1 .. N - 1 /\ (i - 1) + 1 = i
      BY <1>1, <2>1, <2>4
    <3>2. AsksFor(t[i - 1], ch)
      BY <1>1, <2>1, <3>1
    <3> QED BY <2>2, <3>1, <3>2 DEF Final
  <2> QED BY <2>3, <2>4
<1> QED BY <1>2, <1>3 DEF t

\* The hub does as asked: it answers the requests of a connection in their order.
LEMMA HeededHub ==
    ASSUME HubInv, HubNext, NEW c \in Conns, NEW ch, Heeded(c, ch), phase[c] \notin Early, Open(c)'
    PROVE  Heeded(c, ch)'
<1>1. /\ up \in [Conns -> Seq(Asked)] /\ up[c] \in Seq(Asked)
      /\ job \in [Conns -> [op : JobOps, channels : Seq(Channels)]]
      /\ held \in [Conns -> SUBSET Channels] /\ denied \in [Conns -> SUBSET Channels]
      /\ phase \in [Conns -> Phases]
  BY DEF HubInv, TypesInv, ConnTypes, Counted
<1>2. CASE up'[c] = up[c] /\ job'[c] = job[c] /\ held'[c] = held[c] /\ denied'[c] = denied[c]
  BY <1>2 DEF Heeded, Granted
<1>3. ASSUME NEW d, Publish(d) PROVE Heeded(c, ch)'
  BY <1>2, <1>3 DEF Publish, hubVars
<1>4. ASSUME NEW x \in Conns, Serve(x) \/ Close(x) \/ Transmit(x) PROVE Heeded(c, ch)'
  BY <1>2, <1>4 DEF Serve, Close, Transmit, hubVars
<1>5. ASSUME NEW x \in Conns \ {c},
             Restore(x) \/ Register(x) \/ Unregister(x) \/ Handling(x)
      PROVE  Heeded(c, ch)'
  <2>1. held'[c] = held[c] /\ denied'[c] = denied[c]
    BY <1>1, <1>5 DEF Restore, Register, Unregister, Handling, Unsubscribe, ClassifySubscribe,
                      AttachSubscribe, PickResync, AttachResync, AddRoutes, RemoveRoutes, hubVars
  <2>2. up'[c] = up[c] /\ job'[c] = job[c]
    BY <1>1, <1>5 DEF Restore, Register, Unregister, Handling, Unsubscribe, ClassifySubscribe,
                      AttachSubscribe, PickResync, AttachResync
  <2> QED BY <1>2, <2>1, <2>2
<1>6. ASSUME Restore(c) \/ Register(c) \/ Unregister(c) PROVE Heeded(c, ch)'
  BY <1>1, <1>6 DEF Restore, Register, Unregister, Early, Open
<1>7. CASE ClassifySubscribe(c)
  <2> DEFINE head == Head(up[c])
             accepted == Accepted(c, head.channels)
  <2>1. up[c] # <<>> /\ head.op = "subscribe" /\ up'[c] = Tail(up[c]) /\ job[c] = NoJob /\ held' = held
    BY <1>1, <1>7 DEF ClassifySubscribe, Requested, Ready
  <2>2. /\ job'[c].op = "subscribe" /\ job'[c].channels = accepted
        /\ denied'[c] = (denied[c] \cup (Sq!ToSet(head.channels) \ held[c])) \ Sq!ToSet(accepted)
    <3> HIDE DEF accepted
    <3>1. /\ job' = [job EXCEPT ![c] = [op |-> "subscribe", channels |-> accepted]]
          /\ denied' = [denied EXCEPT ![c] = (@ \cup (Sq!ToSet(head.channels) \ held[c])) \ Sq!ToSet(accepted)]
      BY <1>7 DEF ClassifySubscribe, accepted
    <3> QED BY <1>1, <3>1
  <2>3. ~(job[c].op = "subscribe")
    BY <2>1 DEF NoJob
  <2> HIDE DEF accepted, head
  <2>4. ASSUME AsksFor(head, ch) \/ Granted(c, ch) PROVE Granted(c, ch)'
    BY <2>1, <2>2, <2>3, <2>4 DEF AsksFor, Granted
  <2>5. Final(Tail(up[c]), ch) \/ (Silent(Tail(up[c]), ch) /\ (AsksFor(head, ch) \/ Granted(c, ch)))
    BY <1>1, <2>1, WordTaken DEF Heeded, head
  <2> QED BY <2>1, <2>4, <2>5 DEF Heeded
<1>8. CASE AttachSubscribe(c)
  <2>1. up'[c] = up[c] /\ denied'[c] = denied[c] /\ held'[c] = held[c] \cup Sq!ToSet(job[c].channels)
    BY <1>1, <1>8 DEF AttachSubscribe, AddRoutes
  <2> QED BY <2>1 DEF Heeded, Granted
<1>9. CASE Unsubscribe(c)
  <2>1. /\ up[c] # <<>> /\ Head(up[c]).op = "unsubscribe" /\ up'[c] = Tail(up[c])
        /\ job' = job /\ job[c] = NoJob /\ denied' = denied
        /\ held'[c] = held[c] \ Sq!ToSet(Among(Head(up[c]).channels, held[c]))
    BY <1>1, <1>9 DEF Unsubscribe, Requested, Ready, RemoveRoutes
  <2>2. Sq!ToSet(Among(Head(up[c]).channels, held[c])) \subseteq Sq!ToSet(Head(up[c]).channels)
    <3>1. ConnTypes /\ Requested(c, "unsubscribe")
      BY <1>9 DEF HubInv, TypesInv, Unsubscribe
    <3>2. Head(up[c]).channels \in Seq(Channels)
      BY <3>1, RequestType
    <3> QED BY <3>2, AmongType
  <2>3. ~AsksFor(Head(up[c]), ch) /\ (Drops(Head(up[c]), ch) <=> ch \in Sq!ToSet(Head(up[c]).channels))
    BY <2>1 DEF AsksFor, Drops
  <2>4. Final(Tail(up[c]), ch) \/ (Silent(Tail(up[c]), ch) /\ ~Drops(Head(up[c]), ch) /\ Granted(c, ch))
    BY <1>1, <2>1, <2>3, WordTaken DEF Heeded
  <2>5. ~Drops(Head(up[c]), ch) /\ Granted(c, ch) => Granted(c, ch)'
    BY <2>1, <2>2, <2>3 DEF Granted
  <2> QED BY <2>1, <2>4, <2>5 DEF Heeded
<1>10. CASE PickResync(c)
  <2>1. /\ up[c] # <<>> /\ Head(up[c]).op = "resync" /\ up'[c] = Tail(up[c])
        /\ held' = held /\ job[c] = NoJob /\ denied' = denied
    BY <1>1, <1>10 DEF PickResync, Requested, Ready, hubVars
  <2>2. ~AsksFor(Head(up[c]), ch)
    BY <2>1 DEF AsksFor
  <2>3. Granted(c, ch) => Granted(c, ch)'
    BY <2>1 DEF Granted, NoJob
  <2> QED BY <1>1, <2>1, <2>2, <2>3, WordTaken DEF Heeded
<1>11. CASE AttachResync(c)
  BY <1>11 DEF AttachResync, hubVars, Heeded, Granted
<1> QED BY <1>3, <1>4, <1>5, <1>6, <1>7, <1>8, <1>9, <1>10, <1>11 DEF HubNext, Handling

=============================================================================
