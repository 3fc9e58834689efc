---------------------------- MODULE ReplayProofs ----------------------------
(***************************************************************************)
(* Proofs about the two readers of a compacted topic of Replay.tla, for any  *)
(* partitions, logs, polls and errors: a follower that has caught up lacks   *)
(* nothing that was there when it began, between its replay and the live     *)
(* tail nothing is passed over, and a snapshot is of the listed topic.       *)
(***************************************************************************)
EXTENDS Replay, FiniteSetTheorems, TLAPS

Home == CHOOSE home \in [Keys -> Partitions] : KeysApart(home)

LogInv ==
    /\ log \in [Partitions -> Seq(LogRecords \cup {Swept})] /\ start \in [Partitions -> Nat]
    /\ \A p \in Partitions :
        /\ start[p] <= Len(log[p]) + 1
        /\ \A i \in There(p) : start[p] <= i /\ Home[log[p][i].key] = p

\* A batch is ahead of what was handled of its keys, and was in the log.
BatchInv ==
    /\ next \in [Partitions -> Nat] /\ target \in [Partitions -> Nat] /\ cursor \in [Partitions -> Nat]
    /\ seen \in [Keys -> Nat] /\ owed \in [Keys -> Nat]
    /\ DOMAIN batch = Partitions
    /\ \A p \in Partitions :
        /\ next[p] <= cursor[p] /\ cursor[p] <= Len(log[p]) + 1
        /\ \A b \in batch[p] :
            /\ b.offset \in 1 .. Len(log[p]) /\ b.offset < cursor[p]
            /\ b.record \in LogRecords /\ Home[b.record.key] = p
            /\ log[p][b.offset] \in {b.record, Swept}
            /\ seen[b.record.key] < b.offset
            /\ \A c \in batch[p] : c.offset = b.offset => c = b
    /\ \A k \in Keys : seen[k] = 0 \/ seen[k] < cursor[Home[k]]

\* A reader that calls itself complete has fetched, and handled, all up to the ends it listed.
StageInv ==
    /\ reader.kind \in {"follower", "snapshot"}
    /\ at \in {"list", "starts", "poll", "batch", "returned"}
    /\ outcome \in {"none", "clean", "deadline", "failed"}
    /\ at = "returned" <=> outcome # "none"
    /\ at \in {"list", "starts"} => /\ ~caught /\ dropped = {}
                                    /\ \A k \in Keys : seen[k] = 0
                                    /\ \A p \in Partitions : cursor[p] = 0
    /\ at \in {"list", "starts", "poll"} => Handled
    /\ at \in {"starts", "poll", "batch"} => \A p \in Partitions : target[p] >= 1
    /\ caught => \A p \in Partitions : /\ 1 <= target[p] /\ target[p] <= cursor[p]
                                       /\ \A b \in batch[p] : target[p] <= b.offset
    /\ ~Follower => reader.policy = "stop" /\ dropped = {}
    /\ (~Follower /\ outcome = "clean") => caught /\ Handled

\* Compaction leaves of a key its newest record.
OwedInv == \A k \in Keys : owed[k] = 0 \/ \E o \in OffsetsOf(k, Home[k]) : owed[k] <= o

SnapInv == ~Follower => \A k \in Keys : seen[k] = 0 \/ seen[k] < target[Home[k]]

\* Nothing behind the cursor was passed over but what a snapshot does not chase.
SeamInv ==
    outcome \in {"none", "clean"} =>
        \A p \in Partitions : \A o \in There(p) :
            (o < cursor[p] /\ log[p][o].key \notin dropped /\ (Follower \/ o < target[p])) =>
                seen[log[p][o].key] >= o \/ o \in InBatch(log[p][o].key, p)

ReplayInv == LogInv /\ BatchInv /\ StageInv /\ OwedInv /\ SnapInv /\ SeamInv

LEMMA HomeFacts == Home \in [Keys -> Partitions] /\ KeysApart(Home)
BY ReplayAssumption DEF Home

\* A bounded set has a greatest element: one with the fewest behind it.
LEMMA LatestFacts ==
    ASSUME NEW S, S \subseteq Nat, S # {}, NEW n \in Nat, \A i \in S : i <= n
    PROVE  Latest(S) \in S
<1> DEFINE Later(m) == {i \in S : i > m}
           F == {Later(m) : m \in S}
<1>1. \A m \in S : Later(m) \in FiniteSubsetsOf(Nat)
  <2> SUFFICES ASSUME NEW m \in S PROVE Later(m) \in FiniteSubsetsOf(Nat)
    OBVIOUS
  <2>1. Later(m) \subseteq 0 .. n /\ Later(m) \subseteq Nat /\ 0 \in Int /\ n \in Int
    <3>1. \A i \in S : i \in 0 .. n /\ i \in Nat
      OBVIOUS
    <3>2. Later(m) \subseteq S /\ 0 \in Int /\ n \in Int
      OBVIOUS
    <3> HIDE DEF Later
    <3> QED BY <3>1, <3>2
  <2>2. IsFiniteSet(Later(m))
    BY <2>1, FS_Interval, FS_Subset
  <2> QED BY <2>1, <2>2 DEF FiniteSubsetsOf
<1>2. F # {} /\ F \subseteq FiniteSubsetsOf(Nat)
  <2> HIDE DEF Later
  <2> QED BY <1>1
<1>3. PICK I \in F : \A J \in F : ~(<<J, I>> \in StrictSubsetOrdering(Nat))
  <2> HIDE DEF F
  <2> QED BY <1>2, FS_StrictSubsetOrderingWellFounded, WFMin
<1>4. PICK m \in S : I = Later(m)
  BY <1>3
<1>5. ASSUME NEW j \in S, j > m PROVE FALSE
  <2>1. Later(j) \in F /\ Later(j) \in SUBSET Nat /\ Later(m) \in SUBSET Nat
    OBVIOUS
  <2>2. Later(j) \subseteq Later(m) /\ j \in Later(m) /\ j \notin Later(j)
    <3>1. j \in Nat /\ m \in Nat /\ \A i \in S : i \in Nat
      OBVIOUS
    <3>2. \A i \in S : i > j => i > m
      BY <1>5, <3>1
    <3>3. ~(j > j)
      BY <3>1
    <3> QED BY <1>5, <3>2, <3>3
  <2>3. <<Later(j), Later(m)>> \in StrictSubsetOrdering(Nat)
    <3> HIDE DEF Later, F
    <3> QED BY <2>1, <2>2 DEF StrictSubsetOrdering
  <2> QED BY <1>3, <1>4, <2>1, <2>3
<1>6. m \in S /\ \A j \in S : j <= m
  BY <1>5
<1> QED BY <1>6 DEF Latest

LEMMA LogFacts ==
    ASSUME LogInv, NEW p \in Partitions
    PROVE  /\ log[p] \in Seq(LogRecords \cup {Swept}) /\ Len(log[p]) \in Nat
           /\ DOMAIN log[p] = 1 .. Len(log[p])
           /\ start[p] \in Nat /\ start[p] <= Len(log[p]) + 1
           /\ \A i \in There(p) : /\ i \in 1 .. Len(log[p]) /\ start[p] <= i
                                  /\ log[p][i] \in LogRecords /\ log[p][i].key \in Keys
                                  /\ Home[log[p][i].key] = p
<1>1. log[p] \in Seq(LogRecords \cup {Swept})
  BY DEF LogInv
<1>2. Len(log[p]) \in Nat /\ DOMAIN log[p] = 1 .. Len(log[p])
  BY <1>1
<1>3. \A i \in There(p) : i \in 1 .. Len(log[p]) /\ log[p][i] \in LogRecords /\ log[p][i].key \in Keys
  BY <1>1, <1>2 DEF There, LogRecords
<1> QED BY <1>1, <1>2, <1>3 DEF LogInv

LEMMA ReplayInitial == ReplayInit => ReplayInv
<1> SUFFICES ASSUME ReplayInit PROVE ReplayInv
  OBVIOUS
<1>1. PICK t \in Topics : log = t.log /\ start = t.start
  BY DEF ReplayInit
<1>2. /\ log \in [Partitions -> Seq(LogRecords \cup {Swept})] /\ start \in [Partitions -> Nat \ {0}]
      /\ \A p \in Partitions : /\ start[p] <= Len(log[p]) + 1
                               /\ \A i \in 1 .. start[p] - 1 : log[p][i] = Swept
  BY <1>1, ReplayAssumption
<1>3. LogInv
  <2>1. ASSUME NEW p \in Partitions, NEW i \in There(p)
        PROVE  start[p] <= i /\ Home[log[p][i].key] = p
    <3>1. log[p] \in Seq(LogRecords \cup {Swept}) /\ start[p] \in Nat
      BY <1>2
    <3>2. i \in DOMAIN log[p] /\ i \in Nat /\ i >= 1 /\ log[p][i] # Swept
      BY <3>1 DEF There
    <3>3. start[p] <= i
      BY <1>2, <3>1, <3>2
    <3>4. Home[log[p][i].key] = p
      BY <1>1, <3>2, HomeFacts DEF KeysApart
    <3> QED BY <3>3, <3>4
  <2> QED BY <2>1, <1>2 DEF LogInv
<1>4. /\ next = [p \in Partitions |-> 0] /\ target = [p \in Partitions |-> 0]
      /\ cursor = [p \in Partitions |-> 0] /\ batch = [p \in Partitions |-> {}]
      /\ seen = [k \in Keys |-> 0] /\ owed = [k \in Keys |-> 0]
      /\ at = "list" /\ outcome = "none" /\ caught = FALSE /\ dropped = {}
      /\ reader.kind \in {"follower", "snapshot"} /\ (~Follower => reader.policy = "stop")
  BY DEF ReplayInit, Follower
<1>5. BatchInv
  <2>1. \A p \in Partitions : Len(log[p]) \in Nat
    BY <1>3, LogFacts
  <2> QED BY <1>4, <2>1 DEF BatchInv
<1>6. StageInv
  BY <1>4 DEF StageInv, Handled
<1>7. OwedInv /\ SnapInv
  BY <1>4 DEF OwedInv, SnapInv
<1>8. SeamInv
  <2>1. \A p \in Partitions : \A o \in There(p) : ~(o < cursor[p])
    BY <1>3, <1>4, LogFacts
  <2> QED BY <2>1 DEF SeamInv
<1> QED BY <1>3, <1>5, <1>6, <1>7, <1>8 DEF ReplayInv

\* What appending and compaction do to a log, and to the last record of a key.
LogGrows ==
    /\ log' \in [Partitions -> Seq(LogRecords \cup {Swept})]
    /\ \A q \in Partitions :
        /\ Len(log[q]) <= Len(log'[q]) /\ Len(log'[q]) \in Nat
        /\ \A i \in 1 .. Len(log[q]) : log'[q][i] \in {log[q][i], Swept}
        /\ \A i \in There(q)' : \/ i \in There(q) /\ log'[q][i] = log[q][i]
                                \/ i = Len(log[q]) + 1 /\ Home[log'[q][i].key] = q
        /\ \A i \in There(q) : \E j \in There(q)' : i <= j /\ log'[q][j].key = log[q][i].key

LEMMA AppendGrows ==
    ASSUME LogInv, NEW p \in Partitions, NEW r \in Fresh[p], Appends(p, r)
    PROVE  LogGrows
<1>1. log' = [log EXCEPT ![p] = Append(log[p], r)] /\ r \in LogRecords /\ r # Swept /\ Home[r.key] = p
  BY ReplayAssumption, HomeFacts DEF Appends, KeysApart
<1>2. /\ log[p] \in Seq(LogRecords \cup {Swept}) /\ Len(log[p]) \in Nat
      /\ log'[p] = Append(log[p], r) /\ \A q \in Partitions \ {p} : log'[q] = log[q]
      /\ log \in [Partitions -> Seq(LogRecords \cup {Swept})]
  BY <1>1, LogFacts DEF LogInv
<1>3. /\ log'[p] \in Seq(LogRecords \cup {Swept}) /\ Len(log'[p]) = Len(log[p]) + 1
      /\ \A i \in 1 .. Len(log[p]) : log'[p][i] = log[p][i]
      /\ log'[p][Len(log[p]) + 1] = r
      /\ DOMAIN log'[p] = 1 .. Len(log[p]) + 1 /\ DOMAIN log[p] = 1 .. Len(log[p])
  BY <1>1, <1>2
<1>4. log' \in [Partitions -> Seq(LogRecords \cup {Swept})]
  BY <1>1, <1>2, <1>3
<1>5. There(p)' = There(p) \cup {Len(log[p]) + 1}
  BY <1>1, <1>2, <1>3 DEF There
<1>6. ASSUME NEW q \in Partitions
      PROVE  /\ Len(log[q]) <= Len(log'[q]) /\ Len(log'[q]) \in Nat
             /\ \A i \in 1 .. Len(log[q]) : log'[q][i] \in {log[q][i], Swept}
             /\ \A i \in There(q)' : \/ i \in There(q) /\ log'[q][i] = log[q][i]
                                     \/ i = Len(log[q]) + 1 /\ Home[log'[q][i].key] = q
             /\ \A i \in There(q) : \E j \in There(q)' : i <= j /\ log'[q][j].key = log[q][i].key
  <2>1. Len(log[q]) \in Nat /\ \A i \in There(q) : i \in 1 .. Len(log[q])
    BY LogFacts
  <2>2. CASE q = p
    BY <2>1, <2>2, <1>1, <1>3, <1>5
  <2>3. CASE q # p
    <3>1. log'[q] = log[q] /\ There(q)' = There(q)
      BY <2>3, <1>2 DEF There
    <3> QED BY <3>1, <2>1
  <2> QED BY <2>2, <2>3
<1> QED BY <1>4, <1>6 DEF LogGrows

LEMMA CompactGrows ==
    ASSUME LogInv, NEW p \in Partitions, NEW i \in 1 .. MaxLog, Compacts(p, i)
    PROVE  LogGrows
<1>1. /\ i \in There(p) /\ log' = [log EXCEPT ![p] = [log[p] EXCEPT ![i] = Swept]]
      /\ \E j \in There(p) : j > i /\ log[p][j].key = log[p][i].key
  BY DEF Compacts
<1>2. /\ log[p] \in Seq(LogRecords \cup {Swept}) /\ Len(log[p]) \in Nat /\ i \in 1 .. Len(log[p])
      /\ log'[p] = [log[p] EXCEPT ![i] = Swept] /\ \A q \in Partitions \ {p} : log'[q] = log[q]
      /\ log \in [Partitions -> Seq(LogRecords \cup {Swept})]
  BY <1>1, LogFacts DEF LogInv
<1>3. /\ log'[p] \in Seq(LogRecords \cup {Swept}) /\ Len(log'[p]) = Len(log[p])
      /\ log'[p][i] = Swept /\ \A j \in 1 .. Len(log[p]) : j # i => log'[p][j] = log[p][j]
      /\ DOMAIN log'[p] = DOMAIN log[p]
  BY <1>2
<1>4. log' \in [Partitions -> Seq(LogRecords \cup {Swept})]
  BY <1>1, <1>2, <1>3
<1>5. There(p)' = There(p) \ {i} /\ \A j \in There(p) : j \in 1 .. Len(log[p])
  BY <1>2, <1>3, LogFacts DEF There
<1>6. ASSUME NEW q \in Partitions
      PROVE  /\ Len(log[q]) <= Len(log'[q]) /\ Len(log'[q]) \in Nat
             /\ \A n \in 1 .. Len(log[q]) : log'[q][n] \in {log[q][n], Swept}
             /\ \A n \in There(q)' : n \in There(q) /\ log'[q][n] = log[q][n]
             /\ \A n \in There(q) : \E j \in There(q)' : n <= j /\ log'[q][j].key = log[q][n].key
  <2>1. Len(log[q]) \in Nat /\ \A n \in There(q) : n \in 1 .. Len(log[q])
    BY LogFacts
  <2>2. CASE q = p
    <3>1. ASSUME NEW n \in There(p) PROVE \E j \in There(p)' : n <= j /\ log'[p][j].key = log[p][n].key
      <4>1. CASE n = i
        <5>1. PICK j \in There(p) : j > i /\ log[p][j].key = log[p][i].key
          BY <1>1
        <5>2. j \in There(p)' /\ j \in Nat /\ n <= j /\ log'[p][j] = log[p][j]
          BY <5>1, <4>1, <1>2, <1>3, <1>5
        <5> QED BY <5>1, <5>2, <4>1
      <4>2. CASE n # i
        <5>1. n \in There(p)' /\ n <= n /\ log'[p][n] = log[p][n]
          BY <4>2, <1>3, <1>5
        <5> QED BY <5>1
      <4> QED BY <4>1, <4>2
    <3>2. \A n \in 1 .. Len(log[p]) : log'[p][n] \in {log[p][n], Swept}
      BY <1>3
    <3>3. \A n \in There(p)' : n \in There(p) /\ log'[p][n] = log[p][n]
      BY <1>3, <1>5
    <3>4. Len(log[p]) <= Len(log'[p]) /\ Len(log'[p]) \in Nat
      BY <1>2, <1>3
    <3> QED BY <2>2, <3>1, <3>2, <3>3, <3>4
  <2>3. CASE q # p
    <3>1. log'[q] = log[q] /\ There(q)' = There(q)
      BY <2>3, <1>2 DEF There
    <3> QED BY <3>1, <2>1
  <2> QED BY <2>2, <2>3
<1> QED BY <1>4, <1>6 DEF LogGrows

LEMMA GrowthKeeps ==
    ASSUME ReplayInv, LogGrows,
           UNCHANGED <<reader, start, at, outcome, next, target, cursor, batch, caught, seen, owed, dropped>>
    PROVE  ReplayInv'
<1>1. LogInv /\ BatchInv /\ StageInv /\ OwedInv /\ SnapInv /\ SeamInv
  BY DEF ReplayInv
<1>2. \A q \in Partitions : /\ Len(log[q]) \in Nat /\ start[q] \in Nat /\ start[q] <= Len(log[q]) + 1
                            /\ \A i \in There(q) : /\ i \in 1 .. Len(log[q]) /\ start[q] <= i
                                                   /\ Home[log[q][i].key] = q /\ log[q][i].key \in Keys
  BY <1>1, LogFacts
<1>3. LogInv'
  <2>1. ASSUME NEW q \in Partitions
        PROVE  /\ start'[q] <= Len(log'[q]) + 1
               /\ \A i \in There(q)' : start'[q] <= i /\ Home[log'[q][i].key] = q
    <3>1. Len(log[q]) <= Len(log'[q]) /\ Len(log'[q]) \in Nat /\ start'[q] = start[q]
      BY DEF LogGrows
    <3>2. \A i \in There(q)' : \/ i \in There(q) /\ log'[q][i] = log[q][i]
                               \/ i = Len(log[q]) + 1 /\ Home[log'[q][i].key] = q
      BY DEF LogGrows
    <3> QED BY <3>1, <3>2, <1>2
  <2> QED BY <2>1, <1>1 DEF LogGrows, LogInv
<1>4. BatchInv'
  <2>1. ASSUME NEW q \in Partitions
        PROVE  /\ cursor[q] <= Len(log'[q]) + 1
               /\ \A b \in batch[q] : b.offset \in 1 .. Len(log'[q]) /\ log'[q][b.offset] \in {b.record, Swept}
    <3>1. /\ Len(log[q]) <= Len(log'[q]) /\ Len(log'[q]) \in Nat /\ Len(log[q]) \in Nat
          /\ \A i \in 1 .. Len(log[q]) : log'[q][i] \in {log[q][i], Swept}
      BY <1>2 DEF LogGrows
    <3>2. /\ cursor[q] \in Nat /\ cursor[q] <= Len(log[q]) + 1
          /\ \A b \in batch[q] : b.offset \in 1 .. Len(log[q]) /\ log[q][b.offset] \in {b.record, Swept}
      BY <1>1 DEF BatchInv
    <3> QED BY <3>1, <3>2
  <2> QED BY <2>1, <1>1 DEF BatchInv
<1>5. StageInv' /\ SnapInv'
  BY <1>1 DEF StageInv, SnapInv, Follower, Handled
<1>6. OwedInv'
  <2> SUFFICES ASSUME NEW k \in Keys, owed[k] # 0
               PROVE  \E o \in OffsetsOf(k, Home[k])' : owed[k] <= o
    BY DEF OwedInv
  <2>1. Home[k] \in Partitions /\ owed[k] \in Nat
    BY <1>1, HomeFacts DEF BatchInv
  <2>2. PICK o \in There(Home[k]) : log[Home[k]][o].key = k /\ owed[k] <= o
    BY <1>1 DEF OwedInv, OffsetsOf
  <2>3. PICK j \in There(Home[k])' : o <= j /\ log'[Home[k]][j].key = k
    BY <2>1, <2>2 DEF LogGrows
  <2>4. o \in Nat /\ j \in Nat
    BY <2>1, <2>2, <2>3, <1>2, <1>3, LogFacts DEF LogGrows
  <2>5. j \in OffsetsOf(k, Home[k])'
    BY <2>3 DEF OffsetsOf
  <2> QED BY <2>1, <2>2, <2>3, <2>4, <2>5
<1>7. SeamInv'
  <2>1. ASSUME outcome \in {"none", "clean"}, NEW q \in Partitions, NEW o \in There(q)', o < cursor[q],
               log'[q][o].key \notin dropped, Follower \/ o < target[q]
        PROVE  seen[log'[q][o].key] >= o \/ o \in InBatch(log'[q][o].key, q)
    <3>1. o \in There(q) /\ log'[q][o] = log[q][o]
      <4>1. o # Len(log[q]) + 1
        BY <2>1, <1>1, <1>2 DEF BatchInv
      <4> QED BY <4>1 DEF LogGrows
    <3> QED BY <2>1, <3>1, <1>1 DEF SeamInv
  <2>2. \A k, q : InBatch(k, q)' = InBatch(k, q)
    BY DEF InBatch
  <2> QED BY <2>1, <2>2 DEF SeamInv, Follower
<1> QED BY <1>3, <1>4, <1>5, <1>6, <1>7 DEF ReplayInv

-----------------------------------------------------------------------------
(* Steps of the run *)

LEMMA ListsEndsKeeps ==
    ASSUME ReplayInv, ListsEnds
    PROVE  ReplayInv'
<1>1. LogInv /\ BatchInv /\ StageInv /\ OwedInv /\ SnapInv /\ SeamInv
  BY DEF ReplayInv
<1>2. /\ at = "list" /\ at' = "starts"
      /\ target' = [p \in Partitions |-> Len(log[p]) + 1]
      /\ owed' = [k \in Keys |-> Latest(UNION {OffsetsOf(k, p) : p \in Partitions})]
      /\ UNCHANGED <<reader, log, start, outcome, next, cursor, batch, caught, seen, dropped>>
  BY DEF ListsEnds, Running, brokerVars
<1>3. LogInv'
  BY <1>1, <1>2 DEF LogInv, There
<1>4. \A p \in Partitions : Len(log[p]) \in Nat
  BY <1>1, LogFacts
<1>5. ASSUME NEW k \in Keys
      PROVE  owed'[k] \in Nat /\ (owed'[k] = 0 \/ owed'[k] \in OffsetsOf(k, Home[k]))
  <2> DEFINE S == UNION {OffsetsOf(k, p) : p \in Partitions}
  <2>1. Home[k] \in Partitions /\ owed'[k] = Latest(S)
    BY <1>2, HomeFacts
  <2>2. S = OffsetsOf(k, Home[k])
    BY <1>1, <2>1, LogFacts DEF OffsetsOf
  <2>3. S \subseteq Nat /\ \A i \in S : i <= Len(log[Home[k]])
    BY <1>1, <2>1, <2>2, LogFacts DEF OffsetsOf
  <2> HIDE DEF S
  <2>4. CASE S = {}
    BY <2>1, <2>4 DEF Latest
  <2>5. CASE S # {}
    BY <1>4, <2>1, <2>2, <2>3, <2>5, LatestFacts
  <2> QED BY <2>4, <2>5
<1>6. owed' \in [Keys -> Nat]
  BY <1>2, <1>5
<1>7. target' \in [Partitions -> Nat] /\ \A p \in Partitions : target'[p] >= 1
  BY <1>2, <1>4
<1>8. BatchInv'
  BY <1>1, <1>2, <1>6, <1>7 DEF BatchInv
<1>9. StageInv'
  BY <1>1, <1>2, <1>7 DEF StageInv, Handled, Follower
<1>10. OwedInv'
  <2>1. \A k : OffsetsOf(k, Home[k])' = OffsetsOf(k, Home[k])
    BY <1>2 DEF OffsetsOf, There
  <2>2. ASSUME NEW k \in Keys PROVE owed'[k] = 0 \/ \E o \in OffsetsOf(k, Home[k]) : owed'[k] <= o
    BY <1>5
  <2> QED BY <2>1, <2>2 DEF OwedInv
<1>11. SnapInv'
  BY <1>1, <1>2 DEF SnapInv, StageInv, Follower
<1>12. SeamInv'
  <2>1. \A p \in Partitions : \A o \in There(p)' : ~(o < cursor'[p])
    BY <1>1, <1>2, LogFacts DEF StageInv, There
  <2> QED BY <2>1 DEF SeamInv
<1> QED BY <1>3, <1>8, <1>9, <1>10, <1>11, <1>12 DEF ReplayInv

\* The log is as it was, and so is what it owes.
LEMMA LogKept ==
    ASSUME LogInv, UNCHANGED <<log, start>>
    PROVE  /\ LogInv' /\ \A p : There(p)' = There(p)
           /\ OwedInv /\ owed' = owed => OwedInv'
<1>1. \A p : There(p)' = There(p)
  BY DEF There
<1>2. \A k, p : OffsetsOf(k, p)' = OffsetsOf(k, p)
  BY <1>1 DEF OffsetsOf
<1> QED BY <1>1, <1>2 DEF LogInv, OwedInv

LEMMA ListsStartsKeeps ==
    ASSUME ReplayInv, ListsStarts
    PROVE  ReplayInv'
<1>1. LogInv /\ BatchInv /\ StageInv /\ OwedInv /\ SnapInv /\ SeamInv
  BY DEF ReplayInv
<1>2. /\ at = "starts" /\ next' = start /\ cursor' = start
      /\ caught' = Complete(start, target)
      /\ IF caught' /\ ~Follower THEN at' = "returned" /\ outcome' = "clean" ELSE at' = "poll" /\ outcome' = outcome
      /\ UNCHANGED <<reader, log, start, target, batch, seen, owed, dropped>>
  BY DEF ListsStarts, Running, brokerVars, Returns
<1>3. LogInv' /\ OwedInv' /\ \A p : There(p)' = There(p)
  BY <1>1, <1>2, LogKept
<1>4. /\ \A k \in Keys : seen[k] = 0
      /\ \A p \in Partitions : batch[p] = {} /\ target[p] >= 1
      /\ ~caught /\ dropped = {} /\ outcome = "none"
  BY <1>1, <1>2 DEF StageInv, Handled
<1>5. BatchInv'
  BY <1>1, <1>2, <1>4 DEF BatchInv, LogInv
<1>6. StageInv'
  <2>1. caught' => \A p \in Partitions : target[p] <= start[p]
    BY <1>2 DEF Complete
  <2>2. Handled'
    BY <1>2, <1>4 DEF Handled
  <2>3. CASE caught' /\ ~Follower
    BY <1>1, <1>2, <1>4, <2>1, <2>2, <2>3 DEF StageInv, Follower
  <2>4. CASE ~(caught' /\ ~Follower)
    BY <1>1, <1>2, <1>4, <2>1, <2>2, <2>4 DEF StageInv, Follower
  <2> QED BY <2>3, <2>4
<1>7. SnapInv'
  BY <1>2, <1>4 DEF SnapInv
<1>8. SeamInv'
  <2>1. \A p \in Partitions : \A o \in There(p)' : ~(o < cursor'[p])
    BY <1>1, <1>2, <1>3, LogFacts
  <2> QED BY <2>1 DEF SeamInv
<1> QED BY <1>3, <1>5, <1>6, <1>7, <1>8 DEF ReplayInv

\* A run ends with an error, or a follower's is stopped: nothing is handled any more.
LEMMA ReturnKeeps ==
    ASSUME ReplayInv, at # "returned", at' = "returned",
           outcome' \in {"deadline", "failed"} \/ (outcome' = "clean" /\ Follower),
           UNCHANGED <<reader, log, start, next, target, cursor, batch, caught, seen, owed, dropped>>
    PROVE  ReplayInv'
<1>1. LogInv /\ BatchInv /\ StageInv /\ OwedInv /\ SnapInv /\ SeamInv
  BY DEF ReplayInv
<1>2. LogInv' /\ OwedInv' /\ \A p : There(p)' = There(p)
  BY <1>1, LogKept
<1>3. BatchInv' /\ SnapInv'
  BY <1>1 DEF BatchInv, SnapInv, Follower
<1>4. StageInv'
  BY <1>1 DEF StageInv, Follower, Handled
<1>5. SeamInv'
  <2>1. \A k, p : InBatch(k, p)' = InBatch(k, p)
    BY DEF InBatch
  <2>2. outcome = "none"
    BY <1>1 DEF StageInv
  <2> QED BY <1>1, <1>2, <2>1, <2>2 DEF SeamInv, Follower
<1> QED BY <1>2, <1>3, <1>4, <1>5 DEF ReplayInv

LEMMA PollsKeeps ==
    ASSUME ReplayInv, Polls
    PROVE  ReplayInv'
<1>1. LogInv /\ BatchInv /\ StageInv /\ OwedInv /\ SnapInv /\ SeamInv
  BY DEF ReplayInv
<1>2. PICK upto \in [Partitions -> 0 .. MaxLog] :
        /\ \A p \in Partitions : upto[p] \in Ahead(p) \cup {0}
        /\ batch' = [p \in Partitions |-> Taken(p, upto[p])]
        /\ cursor' = [p \in Partitions |-> IF upto[p] = 0 THEN cursor[p] ELSE upto[p] + 1]
  BY DEF Polls
<1>3. /\ at = "poll" /\ at' = "batch"
      /\ UNCHANGED <<reader, log, start, outcome, next, target, caught, seen, owed, dropped>>
  BY DEF Polls, Running, brokerVars
<1>4. LogInv' /\ OwedInv' /\ \A p : There(p)' = There(p)
  BY <1>1, <1>3, LogKept
<1>5. outcome = "none" /\ \A p \in Partitions : batch[p] = {} /\ target[p] >= 1
  BY <1>1, <1>3 DEF StageInv, Handled
\* A partition's cursor moves behind the last record taken, and those are all from it on.
<1>6. ASSUME NEW p \in Partitions
      PROVE  /\ cursor[p] \in Nat /\ cursor'[p] \in Nat /\ cursor[p] <= cursor'[p]
             /\ cursor'[p] <= Len(log[p]) + 1
             /\ \A i : i \in Ahead(p) \cap 1 .. upto[p] <=> i \in There(p) /\ cursor[p] <= i /\ i < cursor'[p]
  <2>1. /\ cursor[p] \in Nat /\ cursor[p] <= Len(log[p]) + 1 /\ Len(log[p]) \in Nat
        /\ \A i \in There(p) : i \in 1 .. Len(log[p])
        /\ upto[p] = 0 \/ (upto[p] \in There(p) /\ cursor[p] <= upto[p])
    BY <1>1, <1>2, LogFacts DEF BatchInv, Ahead
  <2>2. cursor'[p] = IF upto[p] = 0 THEN cursor[p] ELSE upto[p] + 1
    BY <1>2
  <2>3. CASE upto[p] = 0
    BY <2>1, <2>2, <2>3
  <2>4. CASE upto[p] # 0
    <3>1. upto[p] \in 1 .. Len(log[p]) /\ cursor'[p] = upto[p] + 1
      BY <2>1, <2>2, <2>4
    <3>2. \A i : i \in Ahead(p) \cap 1 .. upto[p] <=> i \in There(p) /\ cursor[p] <= i /\ i < cursor'[p]
      BY <2>1, <3>1 DEF Ahead
    <3> QED BY <2>1, <2>4, <3>1, <3>2
  <2> QED BY <2>3, <2>4
<1>7. ASSUME NEW p \in Partitions, NEW b \in batch'[p]
      PROVE  /\ b.offset \in There(p) /\ b.record = log[p][b.offset]
             /\ cursor[p] <= b.offset /\ b.offset < cursor'[p]
             /\ \A c \in batch'[p] : c.offset = b.offset => c = b
  BY <1>2, <1>6 DEF Taken
<1>8. ASSUME NEW p \in Partitions, NEW o \in There(p), cursor[p] <= o, o < cursor'[p]
      PROVE  [offset |-> o, record |-> log[p][o]] \in batch'[p]
  BY <1>2, <1>6, <1>8 DEF Taken
<1>9. BatchInv'
  <2>1. cursor' \in [Partitions -> Nat] /\ DOMAIN batch' = Partitions
    BY <1>2, <1>6
  <2>2. ASSUME NEW p \in Partitions
        PROVE  /\ next'[p] <= cursor'[p] /\ cursor'[p] <= Len(log'[p]) + 1
               /\ \A b \in batch'[p] :
                   /\ b.offset \in 1 .. Len(log'[p]) /\ b.offset < cursor'[p]
                   /\ b.record \in LogRecords /\ Home[b.record.key] = p
                   /\ log'[p][b.offset] \in {b.record, Swept}
                   /\ seen'[b.record.key] < b.offset
                   /\ \A c \in batch'[p] : c.offset = b.offset => c = b
    <3>1. next'[p] <= cursor'[p] /\ cursor'[p] <= Len(log'[p]) + 1
      BY <1>1, <1>3, <1>6 DEF BatchInv
    <3>2. ASSUME NEW b \in batch'[p]
          PROVE  /\ b.offset \in 1 .. Len(log[p])
                 /\ b.record \in LogRecords /\ Home[b.record.key] = p
                 /\ seen[b.record.key] < b.offset
      <4>1. /\ b.offset \in 1 .. Len(log[p]) /\ b.record \in LogRecords /\ b.record.key \in Keys
            /\ Home[b.record.key] = p
        BY <1>1, <1>7, LogFacts
      <4>2. seen[b.record.key] = 0 \/ seen[b.record.key] < cursor[p]
        BY <1>1, <4>1 DEF BatchInv
      <4>3. seen[b.record.key] \in Nat /\ cursor[p] \in Nat /\ cursor[p] <= b.offset
        BY <1>1, <1>7, <4>1 DEF BatchInv
      <4> QED BY <4>1, <4>2, <4>3
    <3> QED BY <1>3, <1>7, <3>1, <3>2
  <2>3. ASSUME NEW k \in Keys PROVE seen'[k] = 0 \/ seen'[k] < cursor'[Home[k]]
    <3>1. Home[k] \in Partitions /\ seen[k] \in Nat /\ (seen[k] = 0 \/ seen[k] < cursor[Home[k]])
      BY <1>1, HomeFacts DEF BatchInv
    <3> QED BY <1>3, <1>6, <3>1
  <2> QED BY <1>1, <1>3, <2>1, <2>2, <2>3 DEF BatchInv
<1>10. StageInv'
  <2>1. ASSUME caught, NEW p \in Partitions
        PROVE  /\ 1 <= target[p] /\ target[p] <= cursor'[p]
               /\ \A b \in batch'[p] : target[p] <= b.offset
    <3>1. target[p] \in Nat /\ 1 <= target[p] /\ target[p] <= cursor[p]
      BY <1>1, <2>1 DEF StageInv, BatchInv
    <3>2. \A b \in batch'[p] : cursor[p] <= b.offset /\ b.offset \in Nat
      BY <1>1, <1>7, LogFacts
    <3> QED BY <1>6, <3>1, <3>2
  <2> QED BY <1>1, <1>3, <1>5, <2>1 DEF StageInv, Follower
<1>11. SnapInv'
  BY <1>1, <1>3 DEF SnapInv, Follower
<1>12. SeamInv'
  <2> SUFFICES ASSUME NEW p \in Partitions, NEW o \in There(p), o < cursor'[p],
                      log[p][o].key \notin dropped, Follower \/ o < target[p]
               PROVE  seen[log[p][o].key] >= o \/ o \in {b.offset : b \in {c \in batch'[p] : c.record.key = log[p][o].key}}
    BY <1>3, <1>4 DEF SeamInv, Follower, InBatch
  <2>1. o \in Nat /\ cursor[p] \in Nat
    BY <1>1, <1>6, LogFacts
  <2>2. CASE o < cursor[p]
    BY <2>2, <1>1, <1>5 DEF SeamInv, InBatch
  <2>3. CASE cursor[p] <= o
    <3>1. PICK b \in batch'[p] : b.offset = o /\ b.record = log[p][o]
      BY <2>3, <1>8
    <3> QED BY <3>1
  <2> QED BY <2>1, <2>2, <2>3
<1> QED BY <1>4, <1>9, <1>10, <1>11, <1>12 DEF ReplayInv

LEMMA HandlesKeeps ==
    ASSUME ReplayInv, NEW p \in Partitions, Handles(p)
    PROVE  ReplayInv'
<1>1. LogInv /\ BatchInv /\ StageInv /\ OwedInv /\ SnapInv /\ SeamInv
  BY DEF ReplayInv
<1>2. /\ at = "batch"
      /\ UNCHANGED <<reader, log, start, target, cursor, caught, owed>>
  BY DEF Handles, Running, brokerVars
<1>3. PICK b \in batch[p] : /\ \A c \in batch[p] : b.offset <= c.offset
                            /\ batch' = [batch EXCEPT ![p] = batch[p] \ {b}]
                            /\ HandlesRecord(p, b.offset, b.record)
  BY DEF Handles
<1>4. PICK o, r : o = b.offset /\ r = b.record
  OBVIOUS
<1>5. /\ \A c \in batch[p] : o <= c.offset
      /\ HandlesRecord(p, o, r)
  BY <1>3, <1>4
<1>6. LogInv' /\ OwedInv' /\ \A q : There(q)' = There(q)
  BY <1>1, <1>2, LogKept
<1>7. /\ o \in Nat /\ o >= 1 /\ o < cursor[p] /\ cursor[p] \in Nat
      /\ r \in LogRecords /\ r.key \in Keys /\ Home[r.key] = p
      /\ log[p][o] \in {r, Swept} /\ seen[r.key] < o
      /\ \A c \in batch[p] : c.offset = o => c = b
  <2>1. b.offset \in 1 .. Len(log[p]) /\ Len(log[p]) \in Nat
    BY <1>1, LogFacts DEF BatchInv
  <2> QED BY <2>1, <1>1, <1>4 DEF BatchInv, LogRecords
<1>8. /\ DOMAIN batch' = Partitions /\ batch'[p] = batch[p] \ {b}
      /\ \A q \in Partitions \ {p} : batch'[q] = batch[q]
  BY <1>1, <1>3 DEF BatchInv
\* What is handled is newer than what was of its key, and older than what is left of it.
<1>9. ASSUME NEW q \in Partitions, NEW c \in batch'[q], c.record.key = r.key
      PROVE  q = p /\ o < c.offset
  <2>1. c \in batch[q] /\ Home[c.record.key] = q
    BY <1>1, <1>8 DEF BatchInv
  <2>2. q = p /\ c \in batch[p] /\ c # b
    BY <2>1, <1>7, <1>8, <1>9
  <2>3. c.offset \in Nat /\ o <= c.offset /\ c.offset # o
    BY <2>2, <1>1, <1>5, <1>7, LogFacts DEF BatchInv
  <2> QED BY <2>2, <2>3, <1>7
<1>10. \A q \in Partitions : batch'[q] \subseteq batch[q]
  BY <1>8
<1>11. \/ Chased(p, o) /\ UNCHANGED <<at, outcome, seen, next, dropped>>
       \/ /\ ~Chased(p, o) /\ seen' = [seen EXCEPT ![r.key] = o]
          /\ (next' = next \/ next' = [next EXCEPT ![p] = o + 1])
          /\ UNCHANGED <<at, outcome, dropped>>
       \/ Tolerated /\ dropped' = dropped \cup {r.key} /\ UNCHANGED <<at, outcome, seen, next>>
       \/ at' = "returned" /\ outcome' = "failed" /\ UNCHANGED <<seen, next, dropped>>
  BY <1>5 DEF HandlesRecord, Returns
<1>12. /\ seen' \in [Keys -> Nat] /\ \A k \in Keys : k # r.key => seen'[k] = seen[k]
       /\ seen'[r.key] \in {seen[r.key], o} /\ seen[r.key] \in Nat
       /\ ~Follower => seen'[r.key] = seen[r.key] \/ o < target[p]
  <2>1. seen \in [Keys -> Nat] /\ target[p] \in Nat
    BY <1>1 DEF BatchInv
  <2>2. CASE UNCHANGED seen
    BY <2>1, <2>2, <1>7
  <2>3. CASE seen' = [seen EXCEPT ![r.key] = o] /\ ~Chased(p, o)
    BY <2>1, <2>3, <1>7 DEF Chased
  <2> QED BY <2>2, <2>3, <1>11
<1>13. next' \in [Partitions -> Nat] /\ \A q \in Partitions : next'[q] <= cursor[q]
  <2>1. next \in [Partitions -> Nat] /\ \A q \in Partitions : next[q] <= cursor[q]
    BY <1>1 DEF BatchInv
  <2>2. CASE next' = next
    BY <2>1, <2>2
  <2>3. CASE next' = [next EXCEPT ![p] = o + 1]
    BY <2>1, <2>3, <1>7
  <2> QED BY <2>2, <2>3, <1>11
<1>14. BatchInv'
  <2>1. ASSUME NEW q \in Partitions, NEW c \in batch'[q]
        PROVE  seen'[c.record.key] < c.offset
    <3>1. c \in batch[q] /\ c.record.key \in Keys /\ seen[c.record.key] < c.offset
      BY <1>1, <1>10 DEF BatchInv, LogRecords
    <3>2. CASE c.record.key = r.key
      BY <3>1, <3>2, <1>9, <1>12
    <3>3. CASE c.record.key # r.key
      BY <3>1, <3>3, <1>12
    <3> QED BY <3>2, <3>3
  <2>2. ASSUME NEW k \in Keys PROVE seen'[k] = 0 \/ seen'[k] < cursor[Home[k]]
    <3>1. seen[k] = 0 \/ seen[k] < cursor[Home[k]]
      BY <1>1 DEF BatchInv
    <3>2. CASE k = r.key
      BY <3>1, <3>2, <1>7, <1>12
    <3>3. CASE k # r.key
      BY <3>1, <3>3, <1>12
    <3> QED BY <3>2, <3>3
  <2>3. ASSUME NEW q \in Partitions, NEW c \in batch'[q]
        PROVE  /\ c.offset \in 1 .. Len(log[q]) /\ c.offset < cursor[q]
               /\ c.record \in LogRecords /\ Home[c.record.key] = q
               /\ log[q][c.offset] \in {c.record, Swept}
               /\ \A d \in batch'[q] : d.offset = c.offset => d = c
    <3>1. c \in batch[q] /\ batch'[q] \subseteq batch[q]
      BY <1>10
    <3> QED BY <3>1, <1>1 DEF BatchInv
  <2>4. \A q \in Partitions : cursor[q] <= Len(log[q]) + 1
    BY <1>1 DEF BatchInv
  <2>5. target \in [Partitions -> Nat] /\ cursor \in [Partitions -> Nat] /\ owed \in [Keys -> Nat]
    BY <1>1 DEF BatchInv
  <2> QED BY <1>2, <1>8, <1>12, <1>13, <2>1, <2>2, <2>3, <2>4, <2>5 DEF BatchInv
<1>15. StageInv'
  <2>1. caught => \A q \in Partitions : /\ 1 <= target[q] /\ target[q] <= cursor[q]
                                        /\ \A c \in batch'[q] : target[q] <= c.offset
    BY <1>1, <1>10 DEF StageInv
  <2>2. /\ outcome = "none" /\ reader.kind \in {"follower", "snapshot"}
        /\ \A q \in Partitions : target[q] >= 1
        /\ ~Follower => reader.policy = "stop" /\ dropped = {}
    BY <1>1, <1>2 DEF StageInv
  <2>3. ~Follower => dropped' = {}
    BY <2>2, <1>11 DEF Tolerated
  <2>4. \/ at' = "batch" /\ outcome' = "none"
        \/ at' = "returned" /\ outcome' = "failed"
    BY <1>2, <1>11, <2>2
  <2>5. CASE at' = "batch" /\ outcome' = "none"
    BY <1>2, <2>1, <2>2, <2>3, <2>5 DEF StageInv, Follower
  <2>6. CASE at' = "returned" /\ outcome' = "failed"
    BY <1>2, <2>1, <2>2, <2>3, <2>6 DEF StageInv, Follower
  <2> QED BY <2>4, <2>5, <2>6
<1>16. SnapInv'
  <2>1. ASSUME ~Follower, NEW k \in Keys PROVE seen'[k] = 0 \/ seen'[k] < target[Home[k]]
    <3>1. seen[k] = 0 \/ seen[k] < target[Home[k]]
      BY <1>1, <2>1 DEF SnapInv
    <3>2. CASE k = r.key
      BY <2>1, <3>1, <3>2, <1>7, <1>12
    <3>3. CASE k # r.key
      BY <3>1, <3>3, <1>12
    <3> QED BY <3>2, <3>3
  <2> QED BY <1>2, <2>1 DEF SnapInv, Follower
<1>17. SeamInv'
  <2> DEFINE Left(k, q) == {c.offset : c \in {d \in batch'[q] : d.record.key = k}}
  <2>1. \A k, q : InBatch(k, q)' = Left(k, q)
    BY DEF InBatch
  <2> SUFFICES ASSUME outcome' \in {"none", "clean"}, NEW q \in Partitions, NEW i \in There(q), i < cursor[q],
                      log[q][i].key \notin dropped', Follower \/ i < target[q]
               PROVE  seen'[log[q][i].key] >= i \/ i \in Left(log[q][i].key, q)
    BY <1>2, <1>6, <2>1 DEF SeamInv, Follower
  <2>2. PICK k : k = log[q][i].key
    OBVIOUS
  <2>3. k \in Keys /\ i \in Nat /\ Home[k] = q /\ log[q][i] # Swept /\ seen[k] \in Nat /\ seen'[k] \in Nat
    BY <1>1, <1>12, <2>2, LogFacts DEF BatchInv, There
  <2>4. seen[k] <= seen'[k]
    BY <2>3, <1>7, <1>12
  <2>5. outcome = "none" /\ k \notin dropped
    BY <1>1, <1>2, <1>11, <2>2 DEF StageInv
  <2>6. seen[k] >= i \/ i \in InBatch(k, q)
    BY <1>1, <2>2, <2>5 DEF SeamInv
  <2>7. CASE seen[k] >= i
    BY <2>2, <2>3, <2>4, <2>7
  <2>8. CASE i \in InBatch(k, q)
    <3>1. PICK c \in batch[q] : c.record.key = k /\ c.offset = i
      BY <2>8 DEF InBatch
    <3>2. CASE q = p /\ c = b
      <4>1. i = o /\ k = r.key
        BY <3>1, <3>2, <1>4
      <4>2. ~Chased(p, o)
        BY <3>2, <4>1, <1>1, <1>7 DEF Chased, BatchInv
      <4>3. k \notin dropped' /\ outcome' # "failed"
        BY <2>2
      <4>4. seen' = [seen EXCEPT ![r.key] = o]
        BY <4>1, <4>2, <4>3, <1>11
      <4>5. seen'[k] = i
        BY <4>1, <4>4, <1>1, <2>3 DEF BatchInv
      <4> QED BY <2>2, <2>3, <4>5
    <3>3. CASE ~(q = p /\ c = b)
      <4>1. c \in batch'[q]
        BY <3>3, <1>8
      <4> QED BY <2>2, <3>1, <4>1
    <3> QED BY <3>2, <3>3
  <2> QED BY <2>6, <2>7, <2>8
<1> QED BY <1>6, <1>14, <1>15, <1>16, <1>17 DEF ReplayInv

LEMMA BatchEndsKeeps ==
    ASSUME ReplayInv, BatchEnds
    PROVE  ReplayInv'
<1>1. LogInv /\ BatchInv /\ StageInv /\ OwedInv /\ SnapInv /\ SeamInv
  BY DEF ReplayInv
<1>2. /\ at = "batch" /\ Handled
      /\ caught' = (caught \/ Complete(next, target))
      /\ IF caught' /\ ~Follower THEN at' = "returned" /\ outcome' = "clean" ELSE at' = "poll" /\ outcome' = outcome
      /\ UNCHANGED <<reader, log, start, next, target, cursor, batch, seen, owed, dropped>>
  BY DEF BatchEnds, Running, brokerVars, Returns
<1>3. LogInv' /\ OwedInv' /\ \A p : There(p)' = There(p)
  BY <1>1, <1>2, LogKept
<1>4. BatchInv' /\ SnapInv'
  BY <1>1, <1>2 DEF BatchInv, SnapInv, Follower
<1>5. outcome = "none" /\ \A p \in Partitions : batch[p] = {} /\ 1 <= target[p]
  BY <1>1, <1>2 DEF StageInv, Handled
<1>6. StageInv'
  <2>1. ASSUME caught', NEW p \in Partitions PROVE target[p] <= cursor[p]
    <3>1. CASE caught
      BY <1>1, <3>1 DEF StageInv
    <3>2. CASE Complete(next, target)
      <4>1. target[p] <= next[p] /\ next[p] <= cursor[p]
        BY <1>1, <3>2 DEF Complete, BatchInv
      <4>2. target[p] \in Nat /\ next[p] \in Nat /\ cursor[p] \in Nat
        BY <1>1 DEF BatchInv
      <4> QED BY <4>1, <4>2
    <3> QED BY <1>2, <2>1, <3>1, <3>2
  <2>2. Handled'
    BY <1>2 DEF Handled
  <2>3. CASE caught' /\ ~Follower
    BY <1>1, <1>2, <1>5, <2>1, <2>2, <2>3 DEF StageInv, Follower
  <2>4. CASE ~(caught' /\ ~Follower)
    BY <1>1, <1>2, <1>5, <2>1, <2>2, <2>4 DEF StageInv, Follower
  <2> QED BY <2>3, <2>4
<1>7. SeamInv'
  <2>1. \A k, p : InBatch(k, p)' = InBatch(k, p)
    BY <1>2 DEF InBatch
  <2> QED BY <1>1, <1>2, <1>3, <1>5, <2>1 DEF SeamInv, Follower
<1> QED BY <1>3, <1>4, <1>6, <1>7 DEF ReplayInv

LEMMA ReplayStep == ReplayInv /\ [ReplayNext]_replayVars => ReplayInv'
<1> SUFFICES ASSUME ReplayInv, [ReplayNext]_replayVars PROVE ReplayInv'
  OBVIOUS
<1>1. ASSUME UNCHANGED <<reader, log, start, runVars, seen, owed, dropped>> PROVE ReplayInv'
  <2>1. /\ LogInv /\ BatchInv /\ StageInv /\ OwedInv /\ SnapInv /\ SeamInv
        /\ UNCHANGED <<at, outcome, next, target, cursor, batch, caught>>
    BY <1>1 DEF ReplayInv, runVars
  <2>2. LogInv' /\ OwedInv' /\ \A p : There(p)' = There(p)
    BY <1>1, <2>1, LogKept
  <2>3. BatchInv' /\ StageInv' /\ SnapInv'
    BY <1>1, <2>1 DEF BatchInv, StageInv, SnapInv, Follower, Handled
  <2>4. SeamInv'
    <3>1. \A k, p : InBatch(k, p)' = InBatch(k, p)
      BY <2>1 DEF InBatch
    <3> QED BY <1>1, <2>1, <2>2, <3>1 DEF SeamInv, Follower
  <2> QED BY <2>2, <2>3, <2>4 DEF ReplayInv
<1>2. CASE Created \/ DeadlinePasses \/ Stops \/ UNCHANGED replayVars
  BY <1>1, <1>2 DEF Created, DeadlinePasses, Stops, replayVars, brokerVars, ghostVars, runVars
<1>3. ASSUME NEW p \in Partitions, NEW r \in Fresh[p], Appends(p, r) PROVE ReplayInv'
  <2>1. LogGrows
    BY <1>3, AppendGrows DEF ReplayInv
  <2> QED BY <1>3, <2>1, GrowthKeeps DEF Appends, runVars, ghostVars
<1>4. ASSUME NEW p \in Partitions, NEW i \in 1 .. MaxLog, Compacts(p, i) PROVE ReplayInv'
  <2>1. LogGrows
    BY <1>4, CompactGrows DEF ReplayInv
  <2> QED BY <1>4, <2>1, GrowthKeeps DEF Compacts, runVars, ghostVars
<1>5. ASSUME NEW p \in Partitions, Handles(p) PROVE ReplayInv'
  BY <1>5, HandlesKeeps
<1>6. CASE ListsEnds
  BY <1>6, ListsEndsKeeps
<1>7. CASE ListsStarts
  BY <1>7, ListsStartsKeeps
<1>8. CASE ListingFails \/ PollEnds
  <2>1. /\ at \in {"list", "starts", "poll"} /\ at' = "returned"
        /\ outcome' \in {"deadline", "failed"} \/ (outcome' = "clean" /\ Follower)
        /\ UNCHANGED <<reader, log, start, next, target, cursor, batch, caught, seen, owed, dropped>>
    BY <1>8 DEF ListingFails, PollEnds, Returns, Stopping, Running, brokerVars
  <2> QED BY <2>1, ReturnKeeps
<1>9. CASE Polls
  BY <1>9, PollsKeeps
<1>10. CASE BatchEnds
  BY <1>10, BatchEndsKeeps
<1> QED BY <1>2, <1>3, <1>4, <1>5, <1>6, <1>7, <1>8, <1>9, <1>10 DEF ReplayNext

LEMMA ReplayPromises == ReplayInv => ReplayCorrect
<1> SUFFICES ASSUME ReplayInv PROVE ReplayCorrect
  OBVIOUS
<1>1. LogInv /\ BatchInv /\ StageInv /\ OwedInv /\ SnapInv /\ SeamInv
  BY DEF ReplayInv
<1>2. ReplayTypeOK
  <2>1. ASSUME NEW p \in Partitions
        PROVE  cursor[p] \in 0 .. Len(log[p]) + 1 /\ \A b \in batch[p] : b.offset < cursor[p]
    BY <1>1, LogFacts DEF BatchInv
  <2> QED BY <1>1, <2>1 DEF ReplayTypeOK, StageInv
<1>3. ASSUME NEW k \in Keys
      PROVE  /\ Home[k] \in Partitions /\ seen[k] \in Nat /\ owed[k] \in Nat /\ target[Home[k]] \in Nat
             /\ cursor[Home[k]] \in Nat
             /\ seen[k] >= owed[k] \/ \E o \in OffsetsOf(k, Home[k]) : owed[k] <= o
  <2>1. /\ Home[k] \in Partitions /\ seen[k] \in Nat /\ owed[k] \in Nat /\ target[Home[k]] \in Nat
        /\ cursor[Home[k]] \in Nat
    BY <1>1, HomeFacts DEF BatchInv
  <2>2. owed[k] = 0 \/ \E o \in OffsetsOf(k, Home[k]) : owed[k] <= o
    BY <1>1 DEF OwedInv
  <2> QED BY <2>1, <2>2
<1>4. ASSUME NEW k \in Keys, NEW p \in Partitions, NEW o \in OffsetsOf(k, p)
      PROVE  p = Home[k] /\ o \in There(p) /\ o \in Nat /\ log[p][o].key = k
  BY <1>1, <1>4, LogFacts DEF OffsetsOf
<1>5. SlateWhole
  <2> SUFFICES ASSUME Follower, caught, outcome \in {"none", "clean"}, NEW k \in Keys,
                      ~(seen[k] >= owed[k]), k \notin dropped
               PROVE  \E p \in Partitions : \E o \in OffsetsOf(k, p) :
                         o >= target[p] /\ (o \in Ahead(p) \/ o \in InBatch(k, p))
    BY DEF SlateWhole
  <2>1. PICK o \in OffsetsOf(k, Home[k]) : owed[k] <= o
    BY <1>3
  <2>2. /\ Home[k] \in Partitions /\ o \in There(Home[k]) /\ o \in Nat /\ log[Home[k]][o].key = k
        /\ target[Home[k]] <= cursor[Home[k]] /\ \A b \in batch[Home[k]] : target[Home[k]] <= b.offset
    BY <1>1, <1>3, <1>4 DEF StageInv
  <2>3. CASE o < cursor[Home[k]]
    <3>1. seen[k] >= o \/ o \in InBatch(k, Home[k])
      BY <2>2, <2>3, <1>1 DEF SeamInv
    <3>2. o \in InBatch(k, Home[k])
      BY <2>1, <2>2, <3>1, <1>3
    <3>3. target[Home[k]] <= o
      BY <2>2, <3>2 DEF InBatch
    <3> QED BY <2>1, <2>2, <3>2, <3>3, <1>3
  <2>4. CASE cursor[Home[k]] <= o
    <3>1. o \in Ahead(Home[k]) /\ target[Home[k]] <= o
      BY <2>2, <2>4, <1>3 DEF Ahead
    <3> QED BY <2>1, <2>2, <3>1, <1>3
  <2> QED BY <2>2, <2>3, <2>4, <1>3
<1>6. NoSeam
  BY <1>1 DEF NoSeam, SeamInv
<1>7. SnapshotSound
  <2> SUFFICES ASSUME ~Follower, outcome = "clean", NEW p \in Partitions, NEW k \in Keys, OffsetsOf(k, p) # {}
               PROVE  /\ seen[k] < target[p]
                      /\ seen[k] >= owed[k] \/ \E o \in OffsetsOf(k, p) : o >= target[p]
    BY DEF SnapshotSound
  <2>1. p = Home[k] /\ 1 <= target[p] /\ target[p] <= cursor[p] /\ batch[p] = {} /\ dropped = {}
    BY <1>1, <1>4 DEF StageInv, Handled
  <2>2. seen[k] < target[p]
    BY <1>1, <1>3, <2>1 DEF SnapInv
  <2>3. ASSUME ~(seen[k] >= owed[k]), NEW o \in OffsetsOf(k, p), owed[k] <= o PROVE o >= target[p]
    <3>1. o \in There(p) /\ o \in Nat /\ log[p][o].key = k
      BY <1>4
    <3>2. CASE o < target[p]
      <4>1. o < cursor[p]
        BY <3>1, <3>2, <2>1, <1>3
      <4>2. seen[k] >= o \/ o \in InBatch(k, p)
        BY <3>1, <3>2, <4>1, <2>1, <1>1 DEF SeamInv
      <4>3. seen[k] >= o
        BY <4>2, <2>1 DEF InBatch
      <4> QED BY <4>3, <3>1, <2>3, <1>3
    <3> QED BY <3>1, <3>2, <2>1, <1>3
  <2> QED BY <2>1, <2>2, <2>3, <1>3
<1> QED BY <1>2, <1>5, <1>6, <1>7 DEF ReplayCorrect

\* follower.go and the Snapshotter of consumer.go: for any partitions, logs and polls, and
\* whatever is appended, compacted and refused meanwhile, a follower that says it has caught
\* up lacks nothing that was in the topic when it began, passes nothing over between the
\* replay and the live tail, and a snapshot is of the topic as it was when it was listed.
THEOREM ReplaysWhole == ReplaySpec => []ReplayCorrect
<1>1. ReplayInit => ReplayInv
  BY ReplayInitial
<1>2. ReplayInv /\ [ReplayNext]_replayVars => ReplayInv'
  BY ReplayStep
<1>3. ReplayInv => ReplayCorrect
  BY ReplayPromises
<1> QED BY <1>1, <1>2, <1>3, PTL DEF ReplaySpec
=============================================================================
