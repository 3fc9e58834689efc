----------------------------- MODULE FeedProofs -----------------------------
(***************************************************************************)
(* Proofs about the consumer group of Delivery.tla and the change detector   *)
(* of Normalizer.tla that is its handler: for any number of members, of      *)
(* partitions and of failures.                                              *)
(***************************************************************************)
EXTENDS Normalizer, FiniteSetTheorems, TLAPS

Records == [part : Parts, offset : 1..LogLen]

DeliveryTypes ==
    /\ policy \in {"stop", "skip"}
    /\ committed \in [Parts -> Offsets]
    /\ holder \in [Parts -> Members \cup {Nobody}]
    /\ session \in [Members -> {"down", "out", "in", "dropped"}]
    /\ loop \in [Members -> {"poll", "handle", "erring", "failed", "closing"}]
    /\ next \in [Members -> [Parts -> 0..LogLen + 1]]
    /\ batch \in [Members -> Seq(Records)]
    /\ marks \in [Members -> [Parts -> Offsets]]
    /\ tried \in [Parts -> SUBSET (1..LogLen)] /\ done \in [Parts -> SUBSET (1..LogLen)]

\* What lets a record be committed.
DealtWith(p, n) == n \in IF policy = "stop" THEN done[p] ELSE tried[p]

\* How far a member has got in a partition, and the records it has of it.
Floor(m, p) == IF marks[m][p] > 0 THEN marks[m][p] ELSE committed[p]
Waiting(m, p) == {n \in 1..LogLen : \E i \in DOMAIN batch[m] : batch[m][i] = Rec(p, n)}

\* A member has only records, and marks only partitions, that it was assigned; and
\* the records of a partition in order.
MemberInv(m) ==
    /\ session[m] \in {"down", "out"} => \A p \in Parts : next[m][p] = 0
    /\ \A p \in Parts : marks[m][p] > 0 => next[m][p] > 0
    /\ batch[m] # <<>> => loop[m] = "handle"
    /\ Len(batch[m]) <= MaxPoll
    /\ \A i \in DOMAIN batch[m] : next[m][batch[m][i].part] > 0
    /\ \A i, j \in DOMAIN batch[m] :
          i < j /\ batch[m][i].part = batch[m][j].part => batch[m][i].offset < batch[m][j].offset

\* The coordinator and the members agree on who holds what.
HolderInv == \A m \in Members : \A p \in Parts :
    holder[p] = m <=> session[m] = "in" /\ next[m][p] > 0

\* What a member has handled of a partition it holds, and what it has still to handle,
\* are all the records up to the next to fetch, unless a failure has ended the loop.
PartInv(m, p) ==
    /\ marks[m][p] > 0 => committed[p] <= marks[m][p]
    /\ \A n \in 1..Floor(m, p) : DealtWith(p, n)
    /\ loop[m] \in {"poll", "handle"} =>
          /\ Floor(m, p) < next[m][p]
          /\ \A n \in 1..LogLen : n \in Waiting(m, p) <=> Floor(m, p) < n /\ n < next[m][p]

DeliveryInv ==
    /\ DeliveryTypes
    /\ HolderInv
    /\ \A m \in Members : MemberInv(m)
    /\ \A m \in Members : \A p \in Parts : holder[p] = m => PartInv(m, p)
    /\ NothingSkipped

LEMMA Zeros == Unassigned \in [Parts -> Offsets] /\ \A p \in Parts : Unassigned[p] = 0
BY DeliveryAssumption DEF Unassigned, Offsets

LEMMA DeliveryInitial == DeliveryInit => DeliveryInv
<1> SUFFICES ASSUME DeliveryInit PROVE DeliveryInv
  OBVIOUS
<1>1. \A p \in Parts : committed[p] = 0 /\ holder[p] = Nobody
  BY DEF DeliveryInit
<1>2. \A m \in Members : /\ session[m] = "down" /\ loop[m] = "poll" /\ batch[m] = <<>>
                         /\ next[m] = Unassigned /\ marks[m] = Unassigned
  BY DEF DeliveryInit
<1>3. DeliveryTypes
  <2>1. <<>> \in Seq(Records)
    OBVIOUS
  <2>2. 0 \in Offsets /\ 0 \in 0..LogLen + 1
    BY DeliveryAssumption DEF Offsets
  <2> QED BY <2>1, <2>2 DEF DeliveryInit, DeliveryTypes, Unassigned
<1>4. \A m \in Members : MemberInv(m)
  <2>1. Len(<<>>) = 0 /\ DOMAIN <<>> = {} /\ 0 <= MaxPoll
    BY DeliveryAssumption
  <2> QED BY <1>2, <2>1, Zeros DEF MemberInv
<1>5. HolderInv
  BY <1>1, <1>2, DeliveryAssumption DEF HolderInv
<1>6. \A m \in Members : \A p \in Parts : holder[p] # m
  BY <1>1, DeliveryAssumption
<1>7. NothingSkipped
  BY <1>1 DEF NothingSkipped
<1> QED BY <1>3, <1>4, <1>5, <1>6, <1>7 DEF DeliveryInv

-----------------------------------------------------------------------------
(* Steps of one member *)

\* The state of a member, and the whole of it.
Kept(m) == /\ session'[m] = session[m] /\ loop'[m] = loop[m] /\ next'[m] = next[m]
           /\ batch'[m] = batch[m] /\ marks'[m] = marks[m]

\* What has been dealt with stays so.
Growing == /\ policy' = policy
           /\ \A p \in Parts : tried[p] \subseteq tried'[p]
           /\ policy = "stop" => \A p \in Parts : done[p] \subseteq done'[p]

LEMMA StaysDealtWith ==
    ASSUME Growing, NEW p \in Parts, NEW n, DealtWith(p, n)
    PROVE  DealtWith(p, n)'
BY DEF Growing, DealtWith

LEMMA StillNothingSkipped ==
    ASSUME DeliveryInv, Growing, \A p \in Parts : \A n \in 1..committed'[p] : DealtWith(p, n)
    PROVE  NothingSkipped'
<1>1. \A p \in Parts : \A n \in 1..committed'[p] : DealtWith(p, n)'
  BY StaysDealtWith
<1> QED BY <1>1 DEF NothingSkipped, DealtWith

\* A step of m keeps the invariant of everybody else, if it touches no partition
\* that another holds.
LEMMA OneMember ==
    ASSUME DeliveryInv, DeliveryTypes', NEW m \in Members, Growing,
           \A o \in Members \ {m} : Kept(o),
           \A p \in Parts : holder[p] # m => committed'[p] = committed[p],
           \A p \in Parts : holder'[p] = holder[p] \/ (holder[p] \in {m, Nobody} /\ holder'[p] \in {m, Nobody}),
           \A p \in Parts : holder'[p] = m <=> session'[m] = "in" /\ next'[m][p] > 0,
           \A p \in Parts : \A n \in 1..committed'[p] : DealtWith(p, n),
           MemberInv(m)',
           \A p \in Parts : holder'[p] = m => PartInv(m, p)'
    PROVE  DeliveryInv'
<1>1. HolderInv'
  <2> SUFFICES ASSUME NEW o \in Members, o # m, NEW p \in Parts
               PROVE  holder'[p] = o <=> session'[o] = "in" /\ next'[o][p] > 0
    BY DEF HolderInv
  <2>1. holder'[p] = o <=> holder[p] = o
    BY DeliveryAssumption
  <2>2. Kept(o)
    OBVIOUS
  <2> QED BY <2>1, <2>2 DEF DeliveryInv, HolderInv, Kept
<1>2. \A o \in Members : MemberInv(o)'
  <2> SUFFICES ASSUME NEW o \in Members, o # m PROVE MemberInv(o)'
    OBVIOUS
  <2>1. Kept(o) /\ MemberInv(o)
    BY DEF DeliveryInv
  <2> QED BY <2>1 DEF MemberInv, Kept
<1>3. \A o \in Members : \A p \in Parts : holder'[p] = o => PartInv(o, p)'
  <2> SUFFICES ASSUME NEW o \in Members, o # m, NEW p \in Parts, holder'[p] = o PROVE PartInv(o, p)'
    OBVIOUS
  <2>1. holder[p] = o /\ Kept(o) /\ committed'[p] = committed[p]
    BY DeliveryAssumption
  <2>2. PartInv(o, p)
    BY <2>1 DEF DeliveryInv
  <2>3. Floor(o, p)' = Floor(o, p)
    BY <2>1 DEF Floor, Kept
  <2>4. Waiting(o, p)' = Waiting(o, p)
    BY <2>1 DEF Waiting, Kept
  <2>5. \A n \in 1..Floor(o, p)' : DealtWith(p, n)'
    BY <2>2, <2>3, StaysDealtWith DEF PartInv
  <2> QED BY <2>1, <2>2, <2>3, <2>4, <2>5 DEF PartInv, Kept
<1>4. NothingSkipped'
  BY StillNothingSkipped
<1> QED BY <1>1, <1>2, <1>3, <1>4 DEF DeliveryInv

\* The partition of a member whose records and next offsets stay is kept, if no more
\* is marked than was.
LEMMA SamePart ==
    ASSUME DeliveryInv, NEW m \in Members, NEW p \in Parts, holder[p] = m, Growing,
           Floor(m, p)' = Floor(m, p), next'[m][p] = next[m][p], batch'[m] = batch[m],
           marks'[m][p] > 0 => committed'[p] <= marks'[m][p],
           loop'[m] \in {"poll", "handle"} => loop[m] \in {"poll", "handle"}
    PROVE  PartInv(m, p)'
<1>1. PartInv(m, p)
  BY DEF DeliveryInv
<1>2. Waiting(m, p)' = Waiting(m, p)
  BY DEF Waiting
<1>3. \A n \in 1..Floor(m, p)' : DealtWith(p, n)'
  BY <1>1, StaysDealtWith DEF PartInv
<1> QED BY <1>1, <1>2, <1>3 DEF PartInv

-----------------------------------------------------------------------------
(* Commits *)

\* A commit is of what was dealt with, moves no partition back, and none of another
\* member: whether it succeeds, fails or loses its answer.
LEMMA CommitMoves ==
    ASSUME DeliveryInv, NEW m \in Members, NEW ps \in SUBSET Parts, CommitsThenForgets(m, ps)
    PROVE  /\ committed' \in [Parts -> Offsets]
           /\ \A p \in Parts : /\ committed'[p] >= committed[p]
                               /\ \A n \in 1..committed'[p] : DealtWith(p, n)
                               /\ holder[p] # m => committed'[p] = committed[p]
           /\ marks' \in [Members -> [Parts -> Offsets]]
           /\ \A o \in Members \ {m} : marks'[o] = marks[o]
           /\ \A p \in ps : marks'[m][p] = 0
           /\ \A p \in Parts : marks'[m][p] \in {0, marks[m][p]}
           /\ \A p \in Parts \ ps : holder[p] = m =>
                /\ Floor(m, p)' = Floor(m, p)
                /\ marks'[m][p] > 0 => committed'[p] <= marks'[m][p]
<1>1. /\ \A p \in Parts : marks[m][p] \in Offsets /\ committed[p] \in Offsets
      /\ marks \in [Members -> [Parts -> Offsets]] /\ committed \in [Parts -> Offsets]
  BY DEF DeliveryInv, DeliveryTypes
<1>2. Offsets \subseteq Nat /\ 0 \in Offsets
  BY DeliveryAssumption DEF Offsets
<1>2a. \A p \in Parts : /\ marks[m][p] \in Nat /\ committed[p] \in Nat
                        /\ committed[p] >= committed[p]
  <2>1. \A p \in Parts : marks[m][p] \in Nat /\ committed[p] \in Nat
    BY <1>1, <1>2
  <2> QED BY <2>1
<1> DEFINE f == Forgetting(m, ps)
<1>3. /\ f \in [Parts -> Offsets] /\ \A p \in ps : f[p] = 0
      /\ \A p \in Parts \ ps : f[p] = marks[m][p]
  BY <1>1, <1>2 DEF Forgetting
<1> HIDE DEF f
<1>4. /\ Accepted(m) \in [Parts -> Offsets]
      /\ \A p \in Parts : Accepted(m)[p] = Floor(m, p)
  BY <1>1 DEF Accepted, Reached, Floor
<1>5. ASSUME session[m] = "in", NEW p \in Parts, marks[m][p] > 0
      PROVE  holder[p] = m /\ committed[p] <= marks[m][p] /\ \A n \in 1..marks[m][p] : DealtWith(p, n)
  <2>1. holder[p] = m
    BY <1>5 DEF DeliveryInv, HolderInv, MemberInv
  <2> QED BY <1>5, <2>1 DEF DeliveryInv, PartInv, Floor
<1>6. \A p \in Parts : \A n \in 1..committed[p] : DealtWith(p, n)
  BY DEF DeliveryInv, NothingSkipped, DealtWith
<1>7. ASSUME session[m] = "in", NEW p \in Parts
      PROVE  /\ Accepted(m)[p] >= committed[p]
             /\ \A n \in 1..Accepted(m)[p] : DealtWith(p, n)
             /\ holder[p] # m => Accepted(m)[p] = committed[p]
             /\ marks[m][p] > 0 => Accepted(m)[p] = marks[m][p]
  <2>1. CASE marks[m][p] > 0
    BY <1>1, <1>2, <1>4, <1>5, <1>7, <2>1 DEF Floor
  <2>2. CASE ~(marks[m][p] > 0)
    <3>1. Accepted(m)[p] = committed[p]
      BY <1>4, <2>2 DEF Floor
    <3>2. Accepted(m)[p] >= committed[p]
      BY <1>2a, <3>1
    <3> QED BY <1>6, <2>2, <3>1, <3>2
  <2> QED BY <2>1, <2>2
<1>8. /\ \/ committed' = committed
         \/ committed' = Accepted(m) /\ session[m] = "in"
         \/ committed' = Accepted(m) /\ marks[m] = Unassigned
      /\ marks' = [marks EXCEPT ![m] = Unassigned] \/ marks' = [marks EXCEPT ![m] = f]
  BY DEF CommitsThenForgets, f
<1>9. marks[m] = Unassigned => \A p \in Parts : Accepted(m)[p] = committed[p]
  BY <1>4, Zeros DEF Floor
<1>10. ASSUME NEW p \in Parts
       PROVE  /\ committed'[p] >= committed[p]
              /\ \A n \in 1..committed'[p] : DealtWith(p, n)
              /\ holder[p] # m => committed'[p] = committed[p]
              /\ committed'[p] \in {committed[p], Floor(m, p)}
  <2>1. CASE committed'[p] = committed[p]
    <3>1. committed[p] >= committed[p]
      BY <1>2a
    <3> QED BY <1>6, <2>1, <3>1
  <2>2. CASE committed' = Accepted(m) /\ session[m] = "in"
    BY <1>4, <1>7, <2>2
  <2> QED BY <1>8, <1>9, <2>1, <2>2
<1>11. committed' \in [Parts -> Offsets]
  BY <1>1, <1>4, <1>8
<1>12. /\ marks' \in [Members -> [Parts -> Offsets]] /\ marks'[m] \in {Unassigned, f}
       /\ \A o \in Members \ {m} : marks'[o] = marks[o]
  BY <1>1, <1>3, <1>8, Zeros
<1>13. /\ \A p \in ps : marks'[m][p] = 0
       /\ \A p \in Parts : marks'[m][p] \in {0, marks[m][p]}
  BY <1>3, <1>12, Zeros
<1>14. ASSUME NEW p \in Parts \ ps, holder[p] = m
       PROVE  /\ Floor(m, p)' = Floor(m, p)
              /\ marks'[m][p] > 0 => committed'[p] <= marks'[m][p]
  <2>1. session[m] = "in" /\ (marks[m][p] > 0 => committed[p] <= marks[m][p])
    BY <1>14 DEF DeliveryInv, HolderInv, PartInv
  <2>2. CASE marks'[m] = f
    <3>1. marks'[m][p] = marks[m][p]
      BY <1>3, <2>2
    <3>2. marks[m][p] > 0 => Floor(m, p) = marks[m][p] /\ Floor(m, p)' = marks[m][p]
      BY <3>1 DEF Floor
    <3>3. ~(marks[m][p] > 0) => Floor(m, p) = committed[p] /\ Floor(m, p)' = committed'[p]
      BY <3>1 DEF Floor
    <3>4. marks[m][p] > 0 => committed'[p] <= marks[m][p]
      <4>1. marks[m][p] <= marks[m][p]
        BY <1>2a
      <4> QED BY <1>10, <2>1, <3>2, <4>1
    <3> QED BY <1>10, <3>1, <3>2, <3>3, <3>4
  <2>3. CASE marks'[m] = Unassigned /\ marks' = [marks EXCEPT ![m] = Unassigned]
    <3>1. \/ committed' = Accepted(m)
          \/ marks' = [marks EXCEPT ![m] = f]
      BY <2>1 DEF CommitsThenForgets, f
    <3>2. CASE committed' = Accepted(m)
      <4>1. committed'[p] = Floor(m, p) /\ marks'[m][p] = 0
        BY <1>4, <2>3, <3>2, Zeros
      <4> QED BY <4>1 DEF Floor
    <3>3. CASE marks' = [marks EXCEPT ![m] = f]
      <4>1. marks'[m] = f
        BY <1>1, <3>3
      <4> QED BY <2>2, <4>1
    <3> QED BY <3>1, <3>2, <3>3
  <2> QED BY <1>1, <1>8, <1>12, <2>2, <2>3
<1> QED BY <1>10, <1>11, <1>12, <1>13, <1>14

-----------------------------------------------------------------------------
(* The group *)

LEMMA SameDelivery ==
    ASSUME DeliveryInv, UNCHANGED <<policy, groupVars, loop, next, batch, marks, tried, done>>
    PROVE  DeliveryInv'
<1> USE DEF groupVars
<1>1. DeliveryTypes' /\ HolderInv' /\ NothingSkipped'
  BY DEF DeliveryInv, DeliveryTypes, HolderInv, NothingSkipped
<1>2. \A m \in Members : MemberInv(m)'
  BY DEF DeliveryInv, MemberInv
<1>3. \A m \in Members : \A p \in Parts : PartInv(m, p)' <=> PartInv(m, p)
  BY DEF PartInv, Floor, Waiting, DealtWith
<1> QED BY <1>1, <1>2, <1>3 DEF DeliveryInv

LEMMA StartsKeeps ==
    ASSUME DeliveryInv, NEW m \in Members, Starts(m)
    PROVE  DeliveryInv'
<1>1. /\ session[m] = "down" /\ session' = [session EXCEPT ![m] = "out"]
      /\ UNCHANGED <<policy, committed, holder, loop, next, batch, marks, tried, done>>
  BY DEF Starts, memberVars, countVars
<1>2. session'[m] = "out" /\ \A o \in Members \ {m} : session'[o] = session[o]
  BY <1>1 DEF DeliveryInv, DeliveryTypes
<1>3. DeliveryTypes'
  BY <1>1 DEF DeliveryInv, DeliveryTypes
<1>4. Growing /\ \A o \in Members \ {m} : Kept(o)
  BY <1>1, <1>2 DEF Growing, Kept
<1>5. \A p \in Parts : next[m][p] = 0 /\ holder[p] # m
  BY <1>1 DEF DeliveryInv, MemberInv, HolderInv
<1>6. MemberInv(m)'
  BY <1>1, <1>2, <1>5 DEF DeliveryInv, MemberInv
<1>7. \A p \in Parts : \A n \in 1..committed[p] : DealtWith(p, n)
  BY DEF DeliveryInv, NothingSkipped, DealtWith
<1> QED BY <1>1, <1>2, <1>3, <1>4, <1>5, <1>6, <1>7, OneMember

LEMMA ExpiresKeeps ==
    ASSUME DeliveryInv, NEW m \in Members, Expires(m)
    PROVE  DeliveryInv'
<1>1. /\ session[m] = "in" /\ session' = [session EXCEPT ![m] = "dropped"]
      /\ holder' = [p \in Parts |-> IF holder[p] = m THEN Nobody ELSE holder[p]]
      /\ UNCHANGED <<policy, committed, loop, next, batch, marks, tried, done>>
  BY DEF Expires, memberVars
<1>2. session'[m] = "dropped" /\ \A o \in Members \ {m} : session'[o] = session[o]
  BY <1>1 DEF DeliveryInv, DeliveryTypes
<1>3. DeliveryTypes'
  BY <1>1 DEF DeliveryInv, DeliveryTypes
<1>4. Growing /\ \A o \in Members \ {m} : Kept(o)
  BY <1>1, <1>2 DEF Growing, Kept
<1>5. \A p \in Parts : /\ holder'[p] # m
                       /\ holder'[p] = holder[p] \/ (holder[p] = m /\ holder'[p] = Nobody)
  BY <1>1, DeliveryAssumption
<1>6. MemberInv(m)'
  BY <1>1, <1>2 DEF DeliveryInv, MemberInv
<1>7. \A p \in Parts : \A n \in 1..committed[p] : DealtWith(p, n)
  BY DEF DeliveryInv, NothingSkipped, DealtWith
<1> QED BY <1>1, <1>2, <1>3, <1>4, <1>5, <1>6, <1>7, OneMember

LEMMA LosesKeeps ==
    ASSUME DeliveryInv, NEW m \in Members, Loses(m)
    PROVE  DeliveryInv'
<1>1. /\ session[m] = "dropped" /\ session' = [session EXCEPT ![m] = "out"]
      /\ next' = [next EXCEPT ![m] = Unassigned] /\ marks' = [marks EXCEPT ![m] = Unassigned]
      /\ CallbacksAllowed(m)
      /\ UNCHANGED <<policy, committed, holder, loop, batch, tried, done>>
  BY DEF Loses, countVars
<1>2. /\ session'[m] = "out" /\ next'[m] = Unassigned /\ marks'[m] = Unassigned
      /\ \A o \in Members \ {m} : session'[o] = session[o] /\ next'[o] = next[o] /\ marks'[o] = marks[o]
  BY <1>1 DEF DeliveryInv, DeliveryTypes
<1>3. DeliveryTypes'
  <2>1. 0 \in 0..LogLen + 1 /\ 0 \in Offsets
    BY DeliveryAssumption DEF Offsets
  <2>2. Unassigned \in [Parts -> 0..LogLen + 1] /\ Unassigned \in [Parts -> Offsets]
    BY <2>1 DEF Unassigned
  <2>3. next' \in [Members -> [Parts -> 0..LogLen + 1]] /\ marks' \in [Members -> [Parts -> Offsets]]
    BY <1>1, <2>2 DEF DeliveryInv, DeliveryTypes
  <2> QED BY <1>1, <2>3 DEF DeliveryInv, DeliveryTypes
<1>4. Growing /\ \A o \in Members \ {m} : Kept(o)
  BY <1>1, <1>2 DEF Growing, Kept
<1>5. \A p \in Parts : holder[p] # m
  BY <1>1 DEF DeliveryInv, HolderInv
<1>6. MemberInv(m)'
  <2>1. batch[m] = <<>>
    BY <1>1 DEF DeliveryInv, MemberInv, CallbacksAllowed
  <2>2. \A p \in Parts : next'[m][p] = 0 /\ marks'[m][p] = 0
    BY <1>2, Zeros
  <2>3. batch'[m] = <<>> /\ DOMAIN batch'[m] = {} /\ Len(batch'[m]) <= MaxPoll
    BY <1>1, <2>1 DEF DeliveryInv, MemberInv
  <2> QED BY <2>2, <2>3 DEF MemberInv
<1>7. \A p \in Parts : \A n \in 1..committed[p] : DealtWith(p, n)
  BY DEF DeliveryInv, NothingSkipped, DealtWith
<1> QED BY <1>1, <1>2, <1>3, <1>4, <1>5, <1>6, <1>7, OneMember

\* A partition nobody holds is fetched from the group's offset.
LEMMA AssignsKeeps ==
    ASSUME DeliveryInv, NEW m \in Members, NEW p \in Parts, Assigns(m, p)
    PROVE  DeliveryInv'
<1>1. /\ holder[p] = Nobody /\ session[m] \in {"out", "in"} /\ loop[m] = "poll"
      /\ holder' = [holder EXCEPT ![p] = m] /\ session' = [session EXCEPT ![m] = "in"]
      /\ next' = [next EXCEPT ![m][p] = committed[p] + 1]
      /\ UNCHANGED <<policy, committed, loop, batch, marks, tried, done>>
  BY DEF Assigns, countVars
<1>2. committed[p] + 1 \in 0..LogLen + 1 /\ committed[p] \in Nat
  BY DeliveryAssumption DEF DeliveryInv, DeliveryTypes, Offsets
<1>3. DeliveryTypes'
  <2>1. next' \in [Members -> [Parts -> 0..LogLen + 1]]
    BY <1>1, <1>2 DEF DeliveryInv, DeliveryTypes
  <2>2. holder' \in [Parts -> Members \cup {Nobody}]
    BY <1>1 DEF DeliveryInv, DeliveryTypes
  <2>3. session' \in [Members -> {"down", "out", "in", "dropped"}]
    BY <1>1 DEF DeliveryInv, DeliveryTypes
  <2> QED BY <1>1, <2>1, <2>2, <2>3 DEF DeliveryInv, DeliveryTypes
<1>4. /\ session'[m] = "in" /\ holder'[p] = m
      /\ \A o \in Members \ {m} : session'[o] = session[o] /\ next'[o] = next[o]
      /\ \A q \in Parts \ {p} : holder'[q] = holder[q] /\ next'[m][q] = next[m][q]
      /\ next'[m][p] = committed[p] + 1
  BY <1>1 DEF DeliveryInv, DeliveryTypes
<1>5. Growing /\ \A o \in Members \ {m} : Kept(o)
  BY <1>1, <1>4 DEF Growing, Kept
<1>6. batch[m] = <<>> /\ marks[m][p] = 0
  <2>1. batch[m] = <<>> /\ holder[p] # m
    BY <1>1, DeliveryAssumption DEF DeliveryInv, MemberInv
  <2>2. ~(next[m][p] > 0)
    BY <1>1, <2>1 DEF DeliveryInv, HolderInv, MemberInv
  <2>3. marks[m][p] \in Nat /\ ~(marks[m][p] > 0)
    BY <2>2, DeliveryAssumption DEF DeliveryInv, DeliveryTypes, Offsets, MemberInv
  <2> QED BY <2>1, <2>3
<1>7. \A q \in Parts : holder'[q] = m <=> session'[m] = "in" /\ next'[m][q] > 0
  <2> SUFFICES ASSUME NEW q \in Parts PROVE holder'[q] = m <=> next'[m][q] > 0
    BY <1>4
  <2>1. CASE q = p
    BY <1>2, <1>4, <2>1
  <2>2. CASE q # p
    BY <1>1, <1>4, <2>2 DEF DeliveryInv, HolderInv, MemberInv
  <2> QED BY <2>1, <2>2
<1>8. MemberInv(m)'
  <2>1. batch'[m] = <<>> /\ DOMAIN batch'[m] = {} /\ Len(batch'[m]) <= MaxPoll
    BY <1>1, <1>6 DEF DeliveryInv, MemberInv
  <2>2. \A q \in Parts : marks'[m][q] > 0 => next'[m][q] > 0
    BY <1>1, <1>2, <1>4, <1>6 DEF DeliveryInv, MemberInv
  <2> QED BY <1>4, <2>1, <2>2 DEF MemberInv
<1>9. \A q \in Parts : \A n \in 1..committed[q] : DealtWith(q, n)
  BY DEF DeliveryInv, NothingSkipped, DealtWith
<1>10. ASSUME NEW q \in Parts, holder'[q] = m PROVE PartInv(m, q)'
  <2>1. CASE q = p
    <3>1. marks'[m][p] = 0 /\ Floor(m, p)' = committed[p] /\ Waiting(m, p)' = {}
      <4>1. batch'[m] = <<>> /\ DOMAIN batch'[m] = {} /\ marks'[m][p] = 0
        BY <1>1, <1>6
      <4> QED BY <1>1, <4>1 DEF Floor, Waiting
    <3>2. \A n \in 1..committed[p] : DealtWith(p, n)'
      BY <1>5, <1>9, StaysDealtWith
    <3>3. committed[p] < committed[p] + 1 /\ \A n \in 1..LogLen : ~(committed[p] < n /\ n < committed[p] + 1)
      BY <1>2
    <3> QED BY <1>4, <2>1, <3>1, <3>2, <3>3 DEF PartInv
  <2>2. CASE q # p
    <3>1. holder[q] = m /\ next'[m][q] = next[m][q]
      BY <1>4, <1>10, <2>2
    <3>2. marks'[m][q] > 0 => committed'[q] <= marks'[m][q]
      BY <1>1, <3>1 DEF DeliveryInv, PartInv
    <3>3. Floor(m, q)' = Floor(m, q)
      BY <1>1 DEF Floor
    <3> QED BY <1>1, <1>5, <3>1, <3>2, <3>3, SamePart
  <2> QED BY <2>1, <2>2
<1>11. \A q \in Parts : holder'[q] = holder[q] \/ (holder[q] = Nobody /\ holder'[q] = m)
  BY <1>1, <1>4
<1> QED BY <1>1, <1>3, <1>5, <1>7, <1>8, <1>9, <1>10, <1>11, OneMember

LEMMA RevokesKeeps ==
    ASSUME DeliveryInv, NEW m \in Members, NEW p \in Parts, Revokes(m, p)
    PROVE  DeliveryInv' /\ \A q \in Parts : committed'[q] >= committed[q]
<1>1. /\ holder[p] = m /\ session[m] = "in" /\ CallbacksAllowed(m)
      /\ CommitsThenForgets(m, {p})
      /\ next' = [next EXCEPT ![m][p] = 0] /\ holder' = [holder EXCEPT ![p] = Nobody]
      /\ UNCHANGED <<policy, session, loop, batch, tried, done>>
  BY DEF Revokes
<1>2. {p} \in SUBSET Parts
  OBVIOUS
<1>3. /\ committed' \in [Parts -> Offsets] /\ marks' \in [Members -> [Parts -> Offsets]]
      /\ \A q \in Parts : /\ committed'[q] >= committed[q]
                          /\ \A n \in 1..committed'[q] : DealtWith(q, n)
                          /\ holder[q] # m => committed'[q] = committed[q]
      /\ \A o \in Members \ {m} : marks'[o] = marks[o]
      /\ marks'[m][p] = 0 /\ \A q \in Parts : marks'[m][q] \in {0, marks[m][q]}
      /\ \A q \in Parts \ {p} : holder[q] = m =>
            /\ Floor(m, q)' = Floor(m, q)
            /\ marks'[m][q] > 0 => committed'[q] <= marks'[m][q]
  BY <1>1, <1>2, CommitMoves
<1>4. DeliveryTypes'
  <2>1. 0 \in 0..LogLen + 1
    BY DeliveryAssumption
  <2>2. next' \in [Members -> [Parts -> 0..LogLen + 1]] /\ holder' \in [Parts -> Members \cup {Nobody}]
    BY <1>1, <2>1 DEF DeliveryInv, DeliveryTypes
  <2> QED BY <1>1, <1>3, <2>2 DEF DeliveryInv, DeliveryTypes
<1>5. /\ holder'[p] = Nobody /\ next'[m][p] = 0
      /\ \A q \in Parts \ {p} : holder'[q] = holder[q] /\ next'[m][q] = next[m][q]
      /\ \A o \in Members \ {m} : next'[o] = next[o]
  BY <1>1 DEF DeliveryInv, DeliveryTypes
<1>6. Growing /\ \A o \in Members \ {m} : Kept(o)
  BY <1>1, <1>3, <1>5 DEF Growing, Kept
<1>7. MemberInv(m)'
  <2>1. batch[m] = <<>>
    BY <1>1 DEF DeliveryInv, MemberInv, CallbacksAllowed
  <2>2. batch'[m] = <<>> /\ DOMAIN batch'[m] = {} /\ Len(batch'[m]) <= MaxPoll
    BY <1>1, <2>1 DEF DeliveryInv, MemberInv
  <2>3. \A q \in Parts : marks'[m][q] > 0 => next'[m][q] > 0
    <3> SUFFICES ASSUME NEW q \in Parts, marks'[m][q] > 0 PROVE next'[m][q] > 0
      OBVIOUS
    <3>1. q # p /\ marks'[m][q] = marks[m][q]
      BY <1>3
    <3> QED BY <1>5, <3>1 DEF DeliveryInv, MemberInv
  <2> QED BY <1>1, <2>2, <2>3 DEF MemberInv
<1>8. ASSUME NEW q \in Parts, holder'[q] = m PROVE PartInv(m, q)'
  <2>1. q # p /\ holder[q] = m /\ next'[m][q] = next[m][q]
    BY <1>5, <1>8, DeliveryAssumption
  <2> QED BY <1>1, <1>3, <1>6, <2>1, SamePart
<1>9. \A q \in Parts : holder'[q] = m <=> session'[m] = "in" /\ next'[m][q] > 0
  <2> SUFFICES ASSUME NEW q \in Parts PROVE holder'[q] = m <=> next'[m][q] > 0
    BY <1>1
  <2>1. CASE q = p
    BY <1>5, <2>1, DeliveryAssumption
  <2>2. CASE q # p
    BY <1>1, <1>5, <2>2 DEF DeliveryInv, HolderInv
  <2> QED BY <2>1, <2>2
<1>10. \A q \in Parts : holder'[q] = holder[q] \/ (holder[q] = m /\ holder'[q] = Nobody)
  BY <1>1, <1>5
<1> QED BY <1>3, <1>4, <1>6, <1>7, <1>8, <1>9, <1>10, OneMember

\* A commit in the loop, in a state where no record waits.
LEMMA CommitKeeps ==
    ASSUME DeliveryInv, NEW m \in Members, Commits(m), NEW l, loop' = [loop EXCEPT ![m] = l],
           l \in {"poll", "failed", "closing"}, l = "poll" => loop[m] = "handle",
           batch[m] = <<>>,
           UNCHANGED <<policy, holder, session, next, batch, tried, done>>
    PROVE  DeliveryInv' /\ \A q \in Parts : committed'[q] >= committed[q]
<1>1. CommitsThenForgets(m, {}) /\ {} \in SUBSET Parts
  BY DEF Commits
<1>2. /\ committed' \in [Parts -> Offsets] /\ marks' \in [Members -> [Parts -> Offsets]]
      /\ \A q \in Parts : /\ committed'[q] >= committed[q]
                          /\ \A n \in 1..committed'[q] : DealtWith(q, n)
                          /\ holder[q] # m => committed'[q] = committed[q]
      /\ \A o \in Members \ {m} : marks'[o] = marks[o]
      /\ \A q \in Parts : marks'[m][q] \in {0, marks[m][q]}
      /\ \A q \in Parts : holder[q] = m =>
            /\ Floor(m, q)' = Floor(m, q)
            /\ marks'[m][q] > 0 => committed'[q] <= marks'[m][q]
  <2>1. Parts \ {} = Parts
    OBVIOUS
  <2> QED BY <1>1, <2>1, CommitMoves
<1>3. loop'[m] = l /\ \A o \in Members \ {m} : loop'[o] = loop[o]
  BY DEF DeliveryInv, DeliveryTypes
<1>4. DeliveryTypes'
  BY <1>2 DEF DeliveryInv, DeliveryTypes
<1>5. Growing /\ \A o \in Members \ {m} : Kept(o)
  BY <1>2, <1>3 DEF Growing, Kept
<1>6. MemberInv(m)'
  <2>1. batch'[m] = <<>> /\ DOMAIN batch'[m] = {} /\ Len(batch'[m]) <= MaxPoll
    BY DEF DeliveryInv, MemberInv
  <2>2. \A q \in Parts : marks'[m][q] > 0 => next'[m][q] > 0
    BY <1>2 DEF DeliveryInv, MemberInv
  <2>3. session'[m] \in {"down", "out"} => \A q \in Parts : next'[m][q] = 0
    BY DEF DeliveryInv, MemberInv
  <2> QED BY <2>1, <2>2, <2>3 DEF MemberInv
<1>7. ASSUME NEW q \in Parts, holder'[q] = m PROVE PartInv(m, q)'
  <2>1. holder[q] = m /\ (loop'[m] \in {"poll", "handle"} => loop[m] \in {"poll", "handle"})
    BY <1>3, <1>7
  <2> QED BY <1>2, <1>5, <2>1, SamePart
<1>8. \A q \in Parts : holder'[q] = m <=> session'[m] = "in" /\ next'[m][q] > 0
  BY DEF DeliveryInv, HolderInv
<1> QED BY <1>2, <1>4, <1>5, <1>6, <1>7, <1>8, OneMember

\* A process that is gone with its marks.
LEMMA FreshKeeps ==
    ASSUME DeliveryInv, NEW m \in Members, Fresh(m), Growing, UNCHANGED <<tried, done>>,
           committed' \in [Parts -> Offsets],
           \A q \in Parts : /\ \A n \in 1..committed'[q] : DealtWith(q, n)
                            /\ holder[q] # m => committed'[q] = committed[q],
           marks' \in [Members -> [Parts -> Offsets]],
           \A o \in Members \ {m} : marks'[o] = marks[o],
           \A q \in Parts : marks'[m][q] = 0
    PROVE  DeliveryInv'
<1>1. /\ session' = [session EXCEPT ![m] = "down"] /\ loop' = [loop EXCEPT ![m] = "poll"]
      /\ holder' = [p \in Parts |-> IF holder[p] = m THEN Nobody ELSE holder[p]]
      /\ next' = [next EXCEPT ![m] = Unassigned] /\ batch' = [batch EXCEPT ![m] = <<>>]
      /\ policy' = policy
  BY DEF Fresh, Growing
<1>2. /\ session'[m] = "down" /\ loop'[m] = "poll" /\ next'[m] = Unassigned /\ batch'[m] = <<>>
      /\ \A o \in Members \ {m} : /\ session'[o] = session[o] /\ loop'[o] = loop[o]
                                  /\ next'[o] = next[o] /\ batch'[o] = batch[o]
  BY <1>1 DEF DeliveryInv, DeliveryTypes
<1>3. DeliveryTypes'
  <2>1. Unassigned \in [Parts -> 0..LogLen + 1]
    BY DeliveryAssumption DEF Unassigned
  <2>2. <<>> \in Seq(Records)
    OBVIOUS
  <2>3. next' \in [Members -> [Parts -> 0..LogLen + 1]] /\ batch' \in [Members -> Seq(Records)]
    BY <1>1, <2>1, <2>2 DEF DeliveryInv, DeliveryTypes
  <2>4. /\ session' \in [Members -> {"down", "out", "in", "dropped"}]
        /\ loop' \in [Members -> {"poll", "handle", "erring", "failed", "closing"}]
        /\ holder' \in [Parts -> Members \cup {Nobody}]
    BY <1>1 DEF DeliveryInv, DeliveryTypes
  <2> QED BY <1>1, <2>3, <2>4 DEF DeliveryInv, DeliveryTypes
<1>4. \A o \in Members \ {m} : Kept(o)
  BY <1>2 DEF Kept
<1>5. \A p \in Parts : /\ holder'[p] # m
                       /\ holder'[p] = holder[p] \/ (holder[p] = m /\ holder'[p] = Nobody)
  BY <1>1, DeliveryAssumption
<1>6. MemberInv(m)'
  <2>1. DOMAIN batch'[m] = {} /\ Len(batch'[m]) <= MaxPoll
    BY <1>2, DeliveryAssumption
  <2>2. \A p \in Parts : next'[m][p] = 0 /\ ~(marks'[m][p] > 0)
    BY <1>2, Zeros
  <2> QED BY <1>2, <2>1, <2>2 DEF MemberInv
<1> QED BY <1>2, <1>3, <1>4, <1>5, <1>6, OneMember

LEMMA ClosesKeeps ==
    ASSUME DeliveryInv, NEW m \in Members, Closes(m)
    PROVE  DeliveryInv' /\ \A q \in Parts : committed'[q] >= committed[q]
<1>1. CommitsThenForgets(m, Parts) /\ Fresh(m) /\ UNCHANGED <<policy, tried, done>> /\ Parts \in SUBSET Parts
  BY DEF Closes
<1>2. /\ committed' \in [Parts -> Offsets] /\ marks' \in [Members -> [Parts -> Offsets]]
      /\ \A q \in Parts : /\ committed'[q] >= committed[q]
                          /\ \A n \in 1..committed'[q] : DealtWith(q, n)
                          /\ holder[q] # m => committed'[q] = committed[q]
      /\ \A o \in Members \ {m} : marks'[o] = marks[o]
      /\ \A q \in Parts : marks'[m][q] = 0
  BY <1>1, CommitMoves
<1>3. Growing
  BY <1>1 DEF Growing
<1> QED BY <1>1, <1>2, <1>3, FreshKeeps

LEMMA CrashesKeeps ==
    ASSUME DeliveryInv, NEW m \in Members, Crashes(m)
    PROVE  DeliveryInv' /\ UNCHANGED committed
<1>1. Fresh(m) /\ marks' = [marks EXCEPT ![m] = Unassigned] /\ UNCHANGED <<policy, committed, tried, done>>
  BY DEF Crashes
<1>2. /\ committed' \in [Parts -> Offsets] /\ marks' \in [Members -> [Parts -> Offsets]]
      /\ \A q \in Parts : \A n \in 1..committed'[q] : DealtWith(q, n)
      /\ \A o \in Members \ {m} : marks'[o] = marks[o]
      /\ \A q \in Parts : marks'[m][q] = 0
  BY <1>1, Zeros DEF DeliveryInv, DeliveryTypes, NothingSkipped, DealtWith
<1>3. Growing
  BY <1>1 DEF Growing
<1> QED BY <1>1, <1>2, <1>3, FreshKeeps

-----------------------------------------------------------------------------
(* The loop *)

\* A poll returns the records from the next to fetch on: all up to the new one.
LEMMA PollsKeeps ==
    ASSUME DeliveryInv, NEW m \in Members, Polls(m)
    PROVE  DeliveryInv' /\ UNCHANGED committed
<1>1. /\ loop[m] = "poll" /\ loop' = [loop EXCEPT ![m] = "handle"]
      /\ UNCHANGED <<policy, committed, holder, session, marks, tried, done>>
  BY DEF Polls, groupVars, countVars
<1>2. PICK upto \in [Assigned(m) -> 1..LogLen + 1], n \in 1..MaxPoll :
        /\ \A p \in Assigned(m) : next[m][p] <= upto[p]
        /\ \E recs \in [1..n -> Fetchable(m, upto)] :
            /\ {recs[i] : i \in 1..n} = Fetchable(m, upto)
            /\ \A i, j \in 1..n : i < j /\ recs[i].part = recs[j].part =>
                  recs[j].offset = recs[i].offset + (j - i)
            /\ batch' = [batch EXCEPT ![m] = recs]
        /\ next' = [next EXCEPT ![m] = [p \in Parts |-> IF p \in Assigned(m) THEN upto[p] ELSE 0]]
  BY DEF Polls
<1>3. PICK recs \in [1..n -> Fetchable(m, upto)] :
        /\ {recs[i] : i \in 1..n} = Fetchable(m, upto)
        /\ \A i, j \in 1..n : i < j /\ recs[i].part = recs[j].part =>
              recs[j].offset = recs[i].offset + (j - i)
        /\ batch' = [batch EXCEPT ![m] = recs]
  BY <1>2
<1>4. /\ n \in Nat /\ n <= MaxPoll
      /\ Assigned(m) = {p \in Parts : next[m][p] > 0}
      /\ \A p \in Assigned(m) : upto[p] \in 1..LogLen + 1
      /\ \A rec \in Fetchable(m, upto) : /\ rec \in Records /\ rec.part \in Assigned(m)
                                         /\ next[m][rec.part] <= rec.offset /\ rec.offset < upto[rec.part]
  <2>1. n \in Nat /\ n <= MaxPoll
    BY <1>2, DeliveryAssumption
  <2>2. Assigned(m) = {p \in Parts : next[m][p] > 0} /\ \A p \in Assigned(m) : upto[p] \in 1..LogLen + 1
    BY <1>2 DEF Assigned
  <2>3. \A rec \in Fetchable(m, upto) : /\ rec \in Records /\ rec.part \in Assigned(m)
                                        /\ next[m][rec.part] <= rec.offset /\ rec.offset < upto[rec.part]
    BY <2>2 DEF Fetchable, Records
  <2> QED BY <2>1, <2>2, <2>3
<1>5. /\ recs \in Seq(Records) /\ Len(recs) = n /\ DOMAIN recs = 1..n
      /\ \A i \in 1..n : recs[i] \in Fetchable(m, upto)
  BY <1>4
<1>6. /\ loop'[m] = "handle" /\ batch'[m] = recs
      /\ \A p \in Assigned(m) : next'[m][p] = upto[p]
      /\ \A p \in Parts \ Assigned(m) : next'[m][p] = 0
      /\ \A o \in Members \ {m} : loop'[o] = loop[o] /\ next'[o] = next[o] /\ batch'[o] = batch[o]
  BY <1>1, <1>2, <1>3, <1>4 DEF DeliveryInv, DeliveryTypes
<1>7. DeliveryTypes'
  <2>1. [p \in Parts |-> IF p \in Assigned(m) THEN upto[p] ELSE 0] \in [Parts -> 0..LogLen + 1]
    <3>1. 0 \in 0..LogLen + 1 /\ 1..LogLen + 1 \subseteq 0..LogLen + 1
      BY DeliveryAssumption
    <3> QED BY <1>4, <3>1
  <2>2. next' \in [Members -> [Parts -> 0..LogLen + 1]]
    BY <1>2, <2>1 DEF DeliveryInv, DeliveryTypes
  <2>3. batch' \in [Members -> Seq(Records)]
    BY <1>3, <1>5 DEF DeliveryInv, DeliveryTypes
  <2>4. loop' \in [Members -> {"poll", "handle", "erring", "failed", "closing"}]
    BY <1>1 DEF DeliveryInv, DeliveryTypes
  <2> QED BY <1>1, <2>2, <2>3, <2>4 DEF DeliveryInv, DeliveryTypes
<1>8. Growing /\ \A o \in Members \ {m} : Kept(o)
  BY <1>1, <1>6 DEF Growing, Kept
<1>9. ASSUME NEW p \in Parts PROVE next[m][p] > 0 <=> next'[m][p] > 0
  <2>1. CASE p \in Assigned(m)
    <3>1. next'[m][p] \in 1..LogLen + 1 /\ next[m][p] > 0
      BY <1>4, <1>6, <2>1
    <3> QED BY <3>1, DeliveryAssumption
  <2>2. CASE p \notin Assigned(m)
    <3>1. ~(next[m][p] > 0) /\ next'[m][p] = 0
      BY <1>4, <1>6, <2>2
    <3> QED BY <3>1
  <2> QED BY <2>1, <2>2
<1>10. MemberInv(m)'
  <2>1. \A p \in Parts : next[m][p] = 0 => next'[m][p] = 0
    BY <1>4, <1>6
  <2>2. session'[m] \in {"down", "out"} => \A p \in Parts : next'[m][p] = 0
    BY <1>1, <2>1 DEF DeliveryInv, MemberInv
  <2>3. \A p \in Parts : marks'[m][p] > 0 => next'[m][p] > 0
    BY <1>1, <1>9 DEF DeliveryInv, MemberInv
  <2>4. Len(batch'[m]) <= MaxPoll
    BY <1>4, <1>5, <1>6
  <2>5. \A i \in DOMAIN batch'[m] : next'[m][batch'[m][i].part] > 0
    BY <1>4, <1>5, <1>6, <1>9
  <2>6. \A i, j \in 1..n : i < j /\ recs[i].part = recs[j].part => recs[i].offset < recs[j].offset
    <3> SUFFICES ASSUME NEW i \in 1..n, NEW j \in 1..n, i < j, recs[i].part = recs[j].part
                 PROVE  recs[i].offset < recs[j].offset
      OBVIOUS
    <3>1. recs[j].offset = recs[i].offset + (j - i) /\ recs[i].offset \in Nat
      BY <1>3, <1>4, <1>5 DEF Records
    <3> QED BY <3>1
  <2> QED BY <1>5, <1>6, <2>2, <2>3, <2>4, <2>5, <2>6 DEF MemberInv
<1>11. ASSUME NEW p \in Parts, holder'[p] = m PROVE PartInv(m, p)'
  <2>1. /\ holder[p] = m /\ p \in Assigned(m) /\ PartInv(m, p)
    BY <1>1, <1>4, <1>11 DEF DeliveryInv, HolderInv
  <2>2. Floor(m, p)' = Floor(m, p) /\ Floor(m, p) \in 0..LogLen
    BY <1>1 DEF Floor, DeliveryInv, DeliveryTypes, Offsets
  <2>3. batch[m] = <<>> /\ Waiting(m, p) = {}
    <3>1. batch[m] = <<>> /\ DOMAIN batch[m] = {}
      BY <1>1 DEF DeliveryInv, MemberInv
    <3> QED BY <3>1 DEF Waiting
  <2>4. next[m][p] = Floor(m, p) + 1
    <3>1. Floor(m, p) < next[m][p] /\ \A k \in 1..LogLen : ~(Floor(m, p) < k /\ k < next[m][p])
      BY <1>1, <2>1, <2>3 DEF PartInv
    <3>2. next[m][p] \in 0..LogLen + 1
      BY DEF DeliveryInv, DeliveryTypes
    <3>3. CASE Floor(m, p) + 1 \in 1..LogLen
      BY <2>2, <3>1, <3>2, <3>3, DeliveryAssumption
    <3>4. CASE Floor(m, p) + 1 \notin 1..LogLen
      BY <2>2, <3>1, <3>2, <3>4, DeliveryAssumption
    <3> QED BY <3>3, <3>4
  <2>5. ASSUME NEW k \in 1..LogLen
        PROVE  k \in Waiting(m, p)' <=> Floor(m, p) < k /\ k < upto[p]
    <3>1. Rec(p, k) \in Fetchable(m, upto) <=> next[m][p] <= k /\ k < upto[p]
      BY <2>1 DEF Fetchable, Rec
    <3>2. k \in Waiting(m, p)' <=> Rec(p, k) \in Fetchable(m, upto)
      <4>1. k \in Waiting(m, p)' <=> \E i \in 1..n : recs[i] = Rec(p, k)
        BY <1>5, <1>6 DEF Waiting, Rec
      <4> QED BY <1>3, <4>1
    <3> QED BY <2>2, <2>4, <3>1, <3>2
  <2>6. Floor(m, p) < next'[m][p] /\ next'[m][p] = upto[p]
    <3>1. next'[m][p] = upto[p] /\ next[m][p] <= upto[p] /\ upto[p] \in Nat
      BY <1>2, <1>4, <1>6, <2>1
    <3> QED BY <2>2, <2>4, <3>1
  <2>7. \A k \in 1..Floor(m, p) : DealtWith(p, k)'
    BY <1>8, <2>1, StaysDealtWith DEF PartInv
  <2>8. marks'[m][p] > 0 => committed'[p] <= marks'[m][p]
    BY <1>1, <2>1 DEF PartInv
  <2> QED BY <2>2, <2>5, <2>6, <2>7, <2>8 DEF PartInv
<1>12. \A p \in Parts : holder'[p] = m <=> session'[m] = "in" /\ next'[m][p] > 0
  BY <1>1, <1>9 DEF DeliveryInv, HolderInv
<1>13. \A p \in Parts : \A k \in 1..committed[p] : DealtWith(p, k)
  BY DEF DeliveryInv, NothingSkipped, DealtWith
<1> QED BY <1>1, <1>7, <1>8, <1>10, <1>11, <1>12, <1>13, OneMember

\* The record at hand, and what is behind it.
LEMMA HeadOfBatch ==
    ASSUME DeliveryInv, NEW m \in Members, Handling(m)
    PROVE  /\ Current(m) \in Records /\ Current(m) = batch[m][1]
           /\ 1 \in DOMAIN batch[m] /\ next[m][Current(m).part] > 0
           /\ Tail(batch[m]) \in Seq(Records) /\ Len(Tail(batch[m])) + 1 = Len(batch[m])
           /\ \A i \in DOMAIN Tail(batch[m]) :
                i + 1 \in DOMAIN batch[m] /\ Tail(batch[m])[i] = batch[m][i + 1]
           /\ \A i \in DOMAIN batch[m] :
                i = 1 \/ (i - 1 \in DOMAIN Tail(batch[m]) /\ Tail(batch[m])[i - 1] = batch[m][i])
<1>1. batch[m] \in Seq(Records) /\ batch[m] # <<>>
  BY DEF DeliveryInv, DeliveryTypes, Handling
<1>2. /\ Current(m) \in Records /\ Current(m) = batch[m][1] /\ 1 \in DOMAIN batch[m]
      /\ Tail(batch[m]) \in Seq(Records) /\ Len(Tail(batch[m])) + 1 = Len(batch[m])
      /\ DOMAIN Tail(batch[m]) = 1..Len(batch[m]) - 1
      /\ DOMAIN batch[m] = 1..Len(batch[m]) /\ Len(batch[m]) \in Nat
      /\ \A i \in DOMAIN Tail(batch[m]) : Tail(batch[m])[i] = batch[m][i + 1]
  BY <1>1 DEF Current
<1>3. next[m][Current(m).part] > 0
  BY <1>2 DEF DeliveryInv, MemberInv
<1> QED BY <1>2, <1>3

\* A member that holds the partition of the record at hand has handled every record
\* before it.
LEMMA HeadIsNext ==
    ASSUME DeliveryInv, NEW m \in Members, Handling(m), holder[Current(m).part] = m
    PROVE  Current(m).offset = Floor(m, Current(m).part) + 1
<1> DEFINE p == Current(m).part
           n == Current(m).offset
           F == Floor(m, p)
<1>1. Current(m) \in Records /\ Current(m) = batch[m][1] /\ 1 \in DOMAIN batch[m]
  BY HeadOfBatch
<1>2. p \in Parts /\ n \in 1..LogLen /\ Current(m) = Rec(p, n)
  BY <1>1 DEF Records, Rec
<1>3. loop[m] = "handle" /\ PartInv(m, p)
  BY <1>2 DEF DeliveryInv, Handling
<1>4. n \in Waiting(m, p)
  BY <1>1, <1>2 DEF Waiting
<1>5. F \in 0..LogLen /\ next[m][p] \in 0..LogLen + 1
  BY <1>2 DEF Floor, DeliveryInv, DeliveryTypes, Offsets
<1>6. F < n /\ n < next[m][p]
  BY <1>2, <1>3, <1>4 DEF PartInv
<1> HIDE DEF p, n, F
<1>7. (F + 1 \in 1..LogLen /\ F < F + 1 /\ F + 1 < next[m][p]) \/ F + 1 = n
  BY <1>2, <1>5, <1>6, DeliveryAssumption
<1>8. SUFFICES ASSUME F + 1 \in 1..LogLen, F + 1 < next[m][p] PROVE n <= F + 1
  BY <1>2, <1>5, <1>6, <1>7 DEF n, F, p
<1>9. F + 1 \in Waiting(m, p)
  <2>1. F < F + 1
    BY <1>5
  <2> QED BY <1>3, <1>8, <2>1 DEF PartInv, F
<1>10. PICK i \in DOMAIN batch[m] : batch[m][i] = Rec(p, F + 1)
  BY <1>9 DEF Waiting
<1>11. CASE i = 1
  BY <1>1, <1>2, <1>5, <1>8, <1>10, <1>11 DEF Rec, n, p
<1>12. CASE i # 1
  <2>1. batch[m] \in Seq(Records)
    BY DEF DeliveryInv, DeliveryTypes
  <2>2. 1 < i
    BY <1>12, <2>1
  <2>3. batch[m][1].part = p /\ batch[m][i].part = p /\ batch[m][1].offset = n /\ batch[m][i].offset = F + 1
    BY <1>1, <1>2, <1>10 DEF Rec, n, p
  <2>4. n < F + 1
    BY <1>1, <2>2, <2>3 DEF DeliveryInv, MemberInv
  <2> QED BY <1>2, <1>5, <2>4
<1> QED BY <1>11, <1>12

LEMMA WaitingBehindHead ==
    ASSUME DeliveryInv, NEW m \in Members, Handling(m), batch'[m] = Tail(batch[m]),
           NEW p \in Parts, NEW k \in 1..LogLen
    PROVE  k \in Waiting(m, p)' <=> k \in Waiting(m, p) /\ Rec(p, k) # Current(m)
<1>1. /\ Current(m) \in Records /\ Current(m) = batch[m][1] /\ 1 \in DOMAIN batch[m]
      /\ \A i \in DOMAIN Tail(batch[m]) :
           i + 1 \in DOMAIN batch[m] /\ Tail(batch[m])[i] = batch[m][i + 1]
      /\ \A i \in DOMAIN batch[m] :
           i = 1 \/ (i - 1 \in DOMAIN Tail(batch[m]) /\ Tail(batch[m])[i - 1] = batch[m][i])
  BY HeadOfBatch
<1>2. ASSUME k \in Waiting(m, p)' PROVE k \in Waiting(m, p) /\ Rec(p, k) # Current(m)
  <2>1. PICK i \in DOMAIN Tail(batch[m]) : Tail(batch[m])[i] = Rec(p, k)
    BY <1>2 DEF Waiting, Rec
  <2>2. i + 1 \in DOMAIN batch[m] /\ batch[m][i + 1] = Rec(p, k)
    BY <1>1, <2>1
  <2>3. k \in Waiting(m, p)
    BY <2>2 DEF Waiting
  <2>4. i \in Nat /\ i >= 1
    <3>1. Tail(batch[m]) \in Seq(Records)
      BY HeadOfBatch
    <3> QED BY <2>1, <3>1
  <2>5. SUFFICES ASSUME Rec(p, k) = Current(m) PROVE FALSE
    BY <2>3
  <2>6. batch[m][1].offset < batch[m][i + 1].offset
    <3>1. 1 < i + 1 /\ batch[m][1].part = batch[m][i + 1].part
      BY <1>1, <2>2, <2>4, <2>5
    <3> QED BY <1>1, <2>2, <3>1 DEF DeliveryInv, MemberInv
  <2>7. batch[m][1].offset = k /\ batch[m][i + 1].offset = k
    BY <1>1, <2>2, <2>5 DEF Rec
  <2> QED BY <2>6, <2>7
<1>3. ASSUME k \in Waiting(m, p), Rec(p, k) # Current(m) PROVE k \in Waiting(m, p)'
  <2>1. PICK i \in DOMAIN batch[m] : batch[m][i] = Rec(p, k)
    BY <1>3 DEF Waiting
  <2>2. i - 1 \in DOMAIN Tail(batch[m]) /\ Tail(batch[m])[i - 1] = Rec(p, k)
    BY <1>1, <1>3, <2>1
  <2> QED BY <2>2 DEF Waiting, Rec
<1> QED BY <1>2, <1>3

\* The mark follows a record that was dealt with.
LEMMA AdvanceKeeps ==
    ASSUME DeliveryInv, NEW m \in Members, Handling(m), Advances(m, Current(m)), Growing,
           NEW p \in Parts, NEW n \in 1..LogLen, Current(m) = Rec(p, n), DealtWith(p, n)',
           tried' \in [Parts -> SUBSET (1..LogLen)], done' \in [Parts -> SUBSET (1..LogLen)],
           UNCHANGED <<groupVars, next>>
    PROVE  DeliveryInv' /\ UNCHANGED committed
<1>0. Current(m).part = p /\ Current(m).offset = n
  BY DEF Rec
<1>1. /\ marks' = [marks EXCEPT ![m][p] = IF n > @ THEN n ELSE @]
      /\ batch' = [batch EXCEPT ![m] = Tail(@)] /\ UNCHANGED <<policy, committed, holder, session, loop, next>>
  BY <1>0 DEF Advances, groupVars, Growing
<1>2. /\ Current(m) \in Records /\ next[m][p] > 0 /\ Tail(batch[m]) \in Seq(Records)
      /\ Len(Tail(batch[m])) + 1 = Len(batch[m]) /\ batch[m] \in Seq(Records)
      /\ \A i \in DOMAIN Tail(batch[m]) :
           i \in Nat /\ i + 1 \in DOMAIN batch[m] /\ Tail(batch[m])[i] = batch[m][i + 1]
  BY <1>0, HeadOfBatch DEF DeliveryInv, DeliveryTypes
<1>3. n \in Nat /\ n >= 1 /\ Current(m) = Rec(p, n) /\ loop[m] = "handle"
  BY DEF Handling
<1>4. /\ batch'[m] = Tail(batch[m])
      /\ marks'[m][p] = IF n > marks[m][p] THEN n ELSE marks[m][p]
      /\ \A q \in Parts \ {p} : marks'[m][q] = marks[m][q]
      /\ \A o \in Members \ {m} : batch'[o] = batch[o] /\ marks'[o] = marks[o]
  BY <1>1, <1>3 DEF DeliveryInv, DeliveryTypes
<1>5. DeliveryTypes'
  <2>1. batch' \in [Members -> Seq(Records)]
    BY <1>1, <1>2 DEF DeliveryInv, DeliveryTypes
  <2>2. n \in Offsets
    BY <1>3, DeliveryAssumption DEF Offsets
  <2>3. marks' \in [Members -> [Parts -> Offsets]]
    BY <1>1, <1>3, <2>2 DEF DeliveryInv, DeliveryTypes
  <2> QED BY <1>1, <2>1, <2>3 DEF DeliveryInv, DeliveryTypes
<1>6. \A o \in Members \ {m} : Kept(o)
  BY <1>1, <1>4 DEF Kept
<1>7. MemberInv(m)'
  <2>1. MemberInv(m)
    BY DEF DeliveryInv
  <2>2. Len(batch'[m]) <= MaxPoll
    BY <1>2, <1>4, <2>1, DeliveryAssumption DEF MemberInv
  <2>3. \A i \in DOMAIN batch'[m] : next'[m][batch'[m][i].part] > 0
    BY <1>1, <1>2, <1>4, <2>1 DEF MemberInv
  <2>4. \A i, j \in DOMAIN batch'[m] :
          i < j /\ batch'[m][i].part = batch'[m][j].part => batch'[m][i].offset < batch'[m][j].offset
    <3> SUFFICES ASSUME NEW i \in DOMAIN Tail(batch[m]), NEW j \in DOMAIN Tail(batch[m]), i < j,
                        Tail(batch[m])[i].part = Tail(batch[m])[j].part
                 PROVE  Tail(batch[m])[i].offset < Tail(batch[m])[j].offset
      BY <1>4
    <3>1. i + 1 < j + 1 /\ i + 1 \in DOMAIN batch[m] /\ j + 1 \in DOMAIN batch[m]
      BY <1>2
    <3>2. Tail(batch[m])[i] = batch[m][i + 1] /\ Tail(batch[m])[j] = batch[m][j + 1]
      BY <1>2
    <3> QED BY <2>1, <3>1, <3>2 DEF MemberInv
  <2>5. \A q \in Parts : marks'[m][q] > 0 => next'[m][q] > 0
    BY <1>1, <1>2, <1>4, <2>1 DEF MemberInv
  <2> QED BY <1>1, <1>3, <2>1, <2>2, <2>3, <2>4, <2>5 DEF MemberInv
<1>8. ASSUME NEW q \in Parts, holder'[q] = m PROVE PartInv(m, q)'
  <2>1. holder[q] = m /\ PartInv(m, q)
    BY <1>1, <1>8 DEF DeliveryInv
  <2>2. /\ marks[m][q] \in Nat /\ committed[q] \in Nat /\ next[m][q] \in Nat
        /\ Floor(m, q) \in Nat /\ marks[m][q] <= Floor(m, q) /\ committed[q] <= Floor(m, q)
    <3>1. marks[m][q] \in Nat /\ committed[q] \in Nat /\ next[m][q] \in Nat
      BY DeliveryAssumption DEF DeliveryInv, DeliveryTypes, Offsets
    <3> QED BY <2>1, <3>1 DEF Floor, PartInv
  <2>3. CASE q = p
    <3>1. n = Floor(m, p) + 1
      BY <1>0, <2>1, <2>3, HeadIsNext
    <3>2. marks'[m][p] = n /\ Floor(m, p)' = n
      <4>1. n > marks[m][p] /\ n > 0
        BY <2>2, <2>3, <3>1
      <4> QED BY <1>4, <4>1 DEF Floor
    <3>3. \A k \in 1..n : DealtWith(p, k)'
      <4>1. \A k \in 1..Floor(m, p) : DealtWith(p, k)'
        BY <1>3, <2>1, <2>3, StaysDealtWith DEF PartInv
      <4>3. \A k \in 1..n : k \in 1..Floor(m, p) \/ k = n
        BY <2>2, <2>3, <3>1
      <4> QED BY <4>1, <4>3
    <3>4. n \in Waiting(m, p)
      <4>1. 1 \in DOMAIN batch[m] /\ batch[m][1] = Current(m)
        BY HeadOfBatch
      <4> QED BY <1>3, <4>1 DEF Waiting
    <3>5. n < next[m][p]
      BY <1>3, <2>1, <2>3, <3>4 DEF PartInv
    <3>6. ASSUME NEW k \in 1..LogLen PROVE k \in Waiting(m, p)' <=> n < k /\ k < next[m][p]
      <4>1. k \in Waiting(m, p)' <=> k \in Waiting(m, p) /\ k # n
        <5>1. Rec(p, k) # Current(m) <=> k # n
          BY <1>3 DEF Rec
        <5> QED BY <1>3, <1>4, <5>1, WaitingBehindHead
      <4>2. k \in Waiting(m, p) <=> Floor(m, p) < k /\ k < next[m][p]
        BY <1>3, <2>1, <2>3 DEF PartInv
      <4> QED BY <1>3, <2>2, <2>3, <3>1, <4>1, <4>2
    <3>7. committed'[p] <= n
      BY <1>1, <2>2, <2>3, <3>1
    <3> QED BY <1>1, <2>3, <3>2, <3>3, <3>5, <3>6, <3>7 DEF PartInv
  <2>4. CASE q # p
    <3>1. marks'[m][q] = marks[m][q] /\ Floor(m, q)' = Floor(m, q)
      BY <1>1, <1>4, <2>4 DEF Floor
    <3>2. ASSUME NEW k \in 1..LogLen PROVE k \in Waiting(m, q)' <=> k \in Waiting(m, q)
      <4>1. Rec(q, k) # Current(m)
        BY <1>3, <2>4 DEF Rec
      <4> QED BY <1>4, <4>1, WaitingBehindHead
    <3>3. \A k \in 1..Floor(m, q) : DealtWith(q, k)'
      BY <2>1, StaysDealtWith DEF PartInv
    <3> QED BY <1>1, <2>1, <3>1, <3>2, <3>3 DEF PartInv
  <2> QED BY <2>3, <2>4
<1>9. \A q \in Parts : holder'[q] = m <=> session'[m] = "in" /\ next'[m][q] > 0
  BY <1>1 DEF DeliveryInv, HolderInv
<1>10. \A q \in Parts : \A k \in 1..committed[q] : DealtWith(q, k)
  BY DEF DeliveryInv, NothingSkipped, DealtWith
<1> QED BY <1>1, <1>5, <1>6, <1>7, <1>8, <1>9, <1>10, OneMember

LEMMA SucceedsKeeps ==
    ASSUME DeliveryInv, NEW m \in Members, Succeeds(m)
    PROVE  DeliveryInv' /\ UNCHANGED committed
<1>1. /\ Handling(m) /\ Advances(m, Current(m)) /\ UNCHANGED <<policy, groupVars, next>>
      /\ tried' = With(tried, Current(m)) /\ done' = With(done, Current(m))
  BY DEF Succeeds, countVars
<1>2. PICK p \in Parts, n \in 1..LogLen : Current(m) = Rec(p, n)
  BY <1>1, HeadOfBatch DEF Records, Rec
<1>3. Current(m).part = p /\ Current(m).offset = n
  BY <1>2 DEF Rec
<1>4. tried' = [tried EXCEPT ![p] = @ \cup {n}] /\ done' = [done EXCEPT ![p] = @ \cup {n}]
  BY <1>1, <1>3 DEF With
<1>5. tried' \in [Parts -> SUBSET (1..LogLen)] /\ done' \in [Parts -> SUBSET (1..LogLen)]
  BY <1>4 DEF DeliveryInv, DeliveryTypes
<1>6. /\ \A q \in Parts : tried[q] \subseteq tried'[q] /\ done[q] \subseteq done'[q]
      /\ n \in tried'[p] /\ n \in done'[p]
  BY <1>4 DEF DeliveryInv, DeliveryTypes
<1>7. Growing
  BY <1>1, <1>6 DEF Growing
<1>8. DealtWith(p, n)'
  BY <1>6 DEF DealtWith
<1> QED BY <1>1, <1>2, <1>5, <1>7, <1>8, AdvanceKeeps

\* A record that is given up on is marked, or ends the loop.
LEMMA FailsKeeps ==
    ASSUME DeliveryInv, NEW m \in Members, Fails(m)
    PROVE  DeliveryInv' /\ UNCHANGED committed
<1>1. /\ Handling(m) /\ tried' = With(tried, Current(m)) /\ UNCHANGED <<groupVars, next, policy>>
      /\ policy = "stop" => Stops(m, Current(m)) /\ UNCHANGED done
      /\ policy # "stop" => Advances(m, Current(m)) /\ done' = Without(done, Current(m))
  BY DEF Fails, Declined
<1>2. PICK p \in Parts, n \in 1..LogLen : Current(m) = Rec(p, n)
  BY <1>1, HeadOfBatch DEF Records, Rec
<1>3. Current(m).part = p /\ Current(m).offset = n
  BY <1>2 DEF Rec
<1>4. tried' = [tried EXCEPT ![p] = @ \cup {n}]
  BY <1>1, <1>3 DEF With
<1>5. /\ tried' \in [Parts -> SUBSET (1..LogLen)]
      /\ \A q \in Parts : tried[q] \subseteq tried'[q]
      /\ n \in tried'[p]
  BY <1>4 DEF DeliveryInv, DeliveryTypes
<1>6. CASE policy # "stop"
  <2>1. done' = [done EXCEPT ![p] = @ \ {n}]
    BY <1>1, <1>3, <1>6 DEF Without
  <2>2. done' \in [Parts -> SUBSET (1..LogLen)]
    BY <2>1 DEF DeliveryInv, DeliveryTypes
  <2>3. Growing
    BY <1>1, <1>5, <1>6 DEF Growing
  <2>4. DealtWith(p, n)'
    BY <1>1, <1>5, <1>6 DEF DealtWith
  <2> QED BY <1>1, <1>2, <1>5, <1>6, <2>2, <2>3, <2>4, AdvanceKeeps
<1>7. CASE policy = "stop"
  <2>1. /\ batch' = [batch EXCEPT ![m] = <<>>] /\ loop' = [loop EXCEPT ![m] = "erring"]
        /\ UNCHANGED <<policy, committed, holder, session, next, marks, done>>
    BY <1>1, <1>7 DEF Stops, groupVars
  <2>2. /\ batch'[m] = <<>> /\ loop'[m] = "erring"
        /\ \A o \in Members \ {m} : batch'[o] = batch[o] /\ loop'[o] = loop[o]
    BY <2>1 DEF DeliveryInv, DeliveryTypes
  <2>3. DeliveryTypes'
    <3>1. <<>> \in Seq(Records)
      OBVIOUS
    <3>2. batch' \in [Members -> Seq(Records)]
      BY <2>1, <3>1 DEF DeliveryInv, DeliveryTypes
    <3>3. loop' \in [Members -> {"poll", "handle", "erring", "failed", "closing"}]
      BY <2>1 DEF DeliveryInv, DeliveryTypes
    <3> QED BY <1>5, <2>1, <3>2, <3>3 DEF DeliveryInv, DeliveryTypes
  <2>4. Growing /\ \A o \in Members \ {m} : Kept(o)
    BY <1>5, <2>1, <2>2 DEF Growing, Kept
  <2>5. MemberInv(m)'
    <3>1. DOMAIN batch'[m] = {} /\ Len(batch'[m]) <= MaxPoll
      BY <2>2, DeliveryAssumption
    <3> QED BY <2>1, <2>2, <3>1 DEF DeliveryInv, MemberInv
  <2>6. ASSUME NEW q \in Parts, holder'[q] = m PROVE PartInv(m, q)'
    <3>1. holder[q] = m /\ PartInv(m, q) /\ Floor(m, q)' = Floor(m, q)
      BY <2>1, <2>6 DEF DeliveryInv, Floor
    <3>2. \A k \in 1..Floor(m, q) : DealtWith(q, k)'
      BY <2>4, <3>1, StaysDealtWith DEF PartInv
    <3> QED BY <2>1, <2>2, <3>1, <3>2 DEF PartInv
  <2>7. \A q \in Parts : holder'[q] = m <=> session'[m] = "in" /\ next'[m][q] > 0
    BY <2>1 DEF DeliveryInv, HolderInv
  <2>8. \A q \in Parts : \A k \in 1..committed[q] : DealtWith(q, k)
    BY DEF DeliveryInv, NothingSkipped, DealtWith
  <2> QED BY <2>1, <2>3, <2>4, <2>5, <2>6, <2>7, <2>8, OneMember
<1> QED BY <1>6, <1>7

-----------------------------------------------------------------------------
LEMMA DeliveryStep ==
    ASSUME DeliveryInv, DeliveryNext \/ UNCHANGED deliveryVars
    PROVE  DeliveryInv' /\ \A p \in Parts : committed'[p] >= committed[p]
<1>0. committed' = committed => \A p \in Parts : committed'[p] >= committed[p]
  <2>1. \A p \in Parts : committed[p] \in Nat
    BY DeliveryAssumption DEF DeliveryInv, DeliveryTypes, Offsets
  <2> QED BY <2>1
<1>1. CASE UNCHANGED deliveryVars
  BY <1>0, <1>1, SameDelivery DEF deliveryVars, groupVars, memberVars, countVars
<1>2. ASSUME NEW m \in Members, Starts(m) PROVE DeliveryInv' /\ committed' = committed
  BY <1>2, StartsKeeps DEF Starts
<1>3. ASSUME NEW m \in Members, Expires(m) PROVE DeliveryInv' /\ committed' = committed
  BY <1>3, ExpiresKeeps DEF Expires
<1>4. ASSUME NEW m \in Members, Loses(m) PROVE DeliveryInv' /\ committed' = committed
  BY <1>4, LosesKeeps DEF Loses
<1>5. ASSUME NEW m \in Members, Tells(m) PROVE DeliveryInv' /\ committed' = committed
  BY <1>5, SameDelivery DEF Tells, groupVars
<1>6. ASSUME NEW m \in Members, NEW p \in Parts, Assigns(m, p)
      PROVE  DeliveryInv' /\ committed' = committed
  BY <1>6, AssignsKeeps DEF Assigns
<1>7. ASSUME NEW m \in Members, NEW p \in Parts, Revokes(m, p)
      PROVE  DeliveryInv' /\ \A q \in Parts : committed'[q] >= committed[q]
  BY <1>7, RevokesKeeps
<1>8. ASSUME NEW m \in Members, Polls(m) PROVE DeliveryInv' /\ committed' = committed
  BY <1>8, PollsKeeps
<1>9. ASSUME NEW m \in Members, CommitsBatch(m)
      PROVE  DeliveryInv' /\ \A q \in Parts : committed'[q] >= committed[q]
  <2>1. CASE loop[m] = "erring"
    BY <1>9, <2>1, CommitKeeps DEF CommitsBatch
  <2>2. CASE loop[m] = "handle"
    BY <1>9, <2>2, CommitKeeps DEF CommitsBatch
  <2> QED BY <1>9, <2>1, <2>2 DEF CommitsBatch
<1>10. ASSUME NEW m \in Members, CommitsLast(m)
       PROVE  DeliveryInv' /\ \A q \in Parts : committed'[q] >= committed[q]
  <2>1. batch[m] = <<>>
    BY <1>10 DEF CommitsLast, DeliveryInv, MemberInv
  <2> QED BY <1>10, <2>1, CommitKeeps DEF CommitsLast
<1>11. ASSUME NEW m \in Members, Succeeds(m) PROVE DeliveryInv' /\ committed' = committed
  BY <1>11, SucceedsKeeps
<1>12. ASSUME NEW m \in Members, Fails(m) PROVE DeliveryInv' /\ committed' = committed
  BY <1>12, FailsKeeps
<1>13. ASSUME NEW m \in Members, Closes(m)
       PROVE  DeliveryInv' /\ \A q \in Parts : committed'[q] >= committed[q]
  BY <1>13, ClosesKeeps
<1>14. ASSUME NEW m \in Members, Crashes(m) PROVE DeliveryInv' /\ committed' = committed
  BY <1>14, CrashesKeeps
<1> QED BY <1>0, <1>1, <1>2, <1>3, <1>4, <1>5, <1>6, <1>7, <1>8, <1>9, <1>10, <1>11, <1>12, <1>13, <1>14
        DEF DeliveryNext, Group, Looping

LEMMA DeliveryInvCorrect == DeliveryInv => DeliveryCorrect
<1> SUFFICES ASSUME DeliveryInv PROVE DeliveryCorrect
  OBVIOUS
<1>1. \A m \in Members : Len(batch[m]) <= MaxPoll
  BY DEF DeliveryInv, MemberInv
<1>2. \A p \in Parts : holder[p] # Nobody => next[holder[p]][p] > 0
  BY DEF DeliveryInv, DeliveryTypes, HolderInv
<1> QED BY <1>1, <1>2 DEF DeliveryInv, DeliveryTypes, DeliveryTypeOK, DeliveryCorrect

\* At least once: however the members of a group crash, are dropped or lose the
\* answer of a commit, nothing is committed that was not handled (mark,
\* pendingRecords, commitPending, onRevoked, onLost of consumer.go).
THEOREM GroupCorrect == DeliverySpec => []DeliveryCorrect
<1>1. DeliveryInv /\ [DeliveryNext]_deliveryVars => DeliveryInv'
  BY DeliveryStep
<1> QED BY <1>1, DeliveryInitial, DeliveryInvCorrect, PTL DEF DeliverySpec

\* And no commit takes the group back, by whichever member and however late.
THEOREM CommitsForward == DeliverySpec => CommitsNeverRewind
<1>1. DeliveryInv /\ [DeliveryNext]_deliveryVars => DeliveryInv'
  BY DeliveryStep
<1>2. DeliveryInv /\ [DeliveryNext]_deliveryVars => [\A p \in Parts : committed'[p] >= committed[p]]_deliveryVars
  BY DeliveryStep
<1> QED BY <1>1, <1>2, DeliveryInitial, PTL DEF DeliverySpec, CommitsNeverRewind

-----------------------------------------------------------------------------
(* The change detector *)

NormalizerTypes ==
    /\ latest \in [AllMarkets -> Entries \cup {Nobody}]
    /\ memory \in [Members -> [AllMarkets -> Entries \cup {Nobody}]]
    /\ attempts \in [Members -> 0..MaxWarm]
    /\ \A m \in Members : ~warmed[m] => attempts[m] < MaxWarm
    /\ warmed \in [Members -> BOOLEAN] /\ ready \in [Members -> BOOLEAN]
    /\ behind \in [Members -> SUBSET AllMarkets]
    /\ unsure \subseteq AllMarkets

\* A process remembers what the topic has, or it is known not to; one that read all
\* of the topic remembers all that it has.
Known(m) == AllMarkets \ (unsure \cup behind[m])
MemoryInv ==
    /\ \A m \in Members : \A k \in Known(m) : memory[m][k] # Nobody => memory[m][k] = latest[k]
    /\ \A m \in Members : \A k \in behind[m] : latest[k] # Nobody
    /\ \A m \in Members : session[m] = "down" =>
          memory[m] = NoMemory /\ behind[m] = {} /\ ~warmed[m] /\ ~ready[m]
    /\ ~cold => \A m \in Members :
          /\ ready[m] => warmed[m]
          /\ warmed[m] => \A k \in Known(m) : memory[m][k] = latest[k]

\* What is on the topic is of the record it was observed in.
TopicInv == \A p \in Parts : \A k \in MarketsOf[p] :
    latest[k] # Nobody => latest[k].fp = Raw[p][latest[k].obs][k]

\* A record that is committed, or that the holder of its partition will commit; and
\* what the topic has of its markets.
Passed(p, n) == n <= committed[p] \/ \E m \in Members : holder[p] = m /\ n <= marks[m][p]
Covered(p, n, k) == latest[k] # Nobody /\ (latest[k].obs >= n \/ latest[k].fp = Raw[p][n][k])
CoverInv == \A p \in Parts : \A n \in 1..LogLen :
    Passed(p, n) /\ n \in done[p] => \A k \in MarketsOf[p] \ unsure : Covered(p, n, k)

NormalizerInv == NormalizerTypes /\ MemoryInv /\ TopicInv /\ CoverInv

\* A market the topic ever had a record of it has a record of.
TrailInv ==
    /\ trail \in [AllMarkets -> SUBSET Entries]
    /\ \A k \in AllMarkets : trail[k] # {} => latest[k] # Nobody

LEMMA NormalizerInitial == NormalizerInit => NormalizerInv
<1> SUFFICES ASSUME NormalizerInit PROVE NormalizerInv
  OBVIOUS
<1>1. /\ latest = NoMemory /\ memory = [m \in Members |-> NoMemory]
      /\ attempts = [m \in Members |-> 0] /\ warmed = [m \in Members |-> FALSE] /\ ready = warmed
      /\ cold = FALSE /\ behind = [m \in Members |-> {}] /\ unsure = {}
      /\ done = [p \in Parts |-> {}]
  BY DEF NormalizerInit, DeliveryInit
<1>2. NoMemory \in [AllMarkets -> Entries \cup {Nobody}] /\ \A k \in AllMarkets : NoMemory[k] = Nobody
  BY DEF NoMemory
<1>3. NormalizerTypes
  <2>1. 0 \in 0..MaxWarm /\ 0 < MaxWarm
    BY NormalizerAssumption
  <2> QED BY <1>1, <1>2, <2>1 DEF NormalizerTypes
<1>4. MemoryInv
  BY <1>1, <1>2 DEF MemoryInv, Known
<1>5. TopicInv
  <2>1. \A p \in Parts : MarketsOf[p] \subseteq AllMarkets
    BY DEF AllMarkets
  <2> QED BY <1>1, <1>2, <2>1 DEF TopicInv
<1>6. CoverInv
  BY <1>1 DEF CoverInv
<1> QED BY <1>3, <1>4, <1>5, <1>6 DEF NormalizerInv

\* Nothing is passed by a step that handles nothing.
QuietStep == \E m \in Members : Group(m) \/ Looping(m) \/ Closes(m) \/ Crashes(m)

LEMMA FreshHolders ==
    ASSUME DeliveryInv, NEW m \in Members, Fresh(m)
    PROVE  \A p \in Parts : \A o \in Members : holder'[p] = o => o # m /\ holder[p] = o
<1>1. holder' = [p \in Parts |-> IF holder[p] = m THEN Nobody ELSE holder[p]]
  BY DEF Fresh
<1> QED BY <1>1, DeliveryAssumption

\* What a commit adds to the group's offset, its member had marked.
LEMMA CommitPasses ==
    ASSUME DeliveryInv, NEW m \in Members, NEW ps \in SUBSET Parts, CommitsThenForgets(m, ps),
           NEW p \in Parts, NEW n \in 1..LogLen, n <= committed'[p]
    PROVE  Passed(p, n)
<1>1. CASE committed'[p] = committed[p]
  BY <1>1 DEF Passed
<1>2. CASE committed'[p] # committed[p]
  <2>1. holder[p] = m
    BY <1>2, CommitMoves
  <2>2. committed'[p] = Accepted(m)[p]
    BY <1>2 DEF CommitsThenForgets
  <2>3. committed'[p] = marks[m][p]
    <3>1. Accepted(m)[p] = IF marks[m][p] > 0 THEN marks[m][p] ELSE committed[p]
      BY DEF Accepted, Reached
    <3> QED BY <1>2, <2>2, <3>1
  <2> QED BY <2>1, <2>3 DEF Passed
<1> QED BY <1>1, <1>2

LEMMA QuietPasses ==
    ASSUME DeliveryInv, QuietStep, NEW p \in Parts, NEW n \in 1..LogLen, Passed(p, n)'
    PROVE  Passed(p, n)
<1>0. n \in Nat /\ n > 0
  OBVIOUS
<1>1. CASE n <= committed'[p]
  <2>1. CASE committed' = committed
    BY <1>1, <2>1 DEF Passed
  <2>2. CASE \E m \in Members, ps \in SUBSET Parts : CommitsThenForgets(m, ps)
    BY <1>1, <2>2, CommitPasses
  <2>3. committed' = committed \/ \E m \in Members, ps \in SUBSET Parts : CommitsThenForgets(m, ps)
    BY DEF QuietStep, Group, Looping, Starts, Expires, Loses, Tells, Assigns, Revokes, Polls, groupVars,
           CommitsBatch, CommitsLast, Commits, Closes, Crashes
  <2> QED BY <2>1, <2>2, <2>3
<1>2. ASSUME NEW o \in Members, holder'[p] = o, n <= marks'[o][p] PROVE Passed(p, n)
  <2>0. \A q \in Parts : marks[o][q] \in Nat
    BY DeliveryAssumption DEF DeliveryInv, DeliveryTypes, Offsets
  <2>1. CASE holder[p] = o /\ marks'[o][p] = marks[o][p]
    BY <1>2, <2>1 DEF Passed
  <2>2. CASE marks'[o][p] = 0
    BY <1>0, <1>2, <2>2
  <2>3. ASSUME NEW m \in Members, NEW q \in Parts, Assigns(m, q) PROVE Passed(p, n)
    <3>1. marks' = marks /\ holder[q] = Nobody /\ holder' = [holder EXCEPT ![q] = m]
      BY <2>3 DEF Assigns
    <3>2. CASE q # p
      <4>1. holder[p] = o
        BY <1>2, <3>1, <3>2 DEF DeliveryInv, DeliveryTypes
      <4> QED BY <2>1, <3>1, <4>1
    <3>3. CASE q = p
      <4>1. holder[p] # o /\ session[o] \in {"out", "in"}
        BY <1>2, <2>3, <3>1, <3>3, DeliveryAssumption DEF Assigns, DeliveryInv, DeliveryTypes
      <4>2. ~(next[o][p] > 0)
        BY <4>1 DEF DeliveryInv, HolderInv, MemberInv
      <4>3. ~(marks[o][p] > 0)
        BY <4>2 DEF DeliveryInv, MemberInv
      <4> QED BY <1>0, <1>2, <2>0, <3>1, <4>3
    <3> QED BY <3>2, <3>3
  <2>4. ASSUME NEW m \in Members, NEW ps \in SUBSET Parts, CommitsThenForgets(m, ps),
               holder'[p] = o => holder[p] = o
        PROVE  Passed(p, n)
    <3>1. marks'[o][p] \in {0, marks[o][p]}
      <4>1. CASE o = m
        BY <2>4, <4>1, CommitMoves
      <4>2. CASE o # m
        BY <2>4, <4>2, CommitMoves
      <4> QED BY <4>1, <4>2
    <3> QED BY <1>2, <2>1, <2>2, <2>4, <3>1
  <2>5. ASSUME NEW m \in Members, Expires(m) PROVE Passed(p, n)
    <3>1. marks' = marks /\ holder' = [q \in Parts |-> IF holder[q] = m THEN Nobody ELSE holder[q]]
      BY <2>5 DEF Expires, memberVars
    <3>2. holder[p] = o
      BY <1>2, <3>1, DeliveryAssumption
    <3> QED BY <2>1, <3>1, <3>2
  <2>6. ASSUME NEW m \in Members, Loses(m) PROVE Passed(p, n)
    <3>1. marks' = [marks EXCEPT ![m] = Unassigned] /\ holder' = holder
      BY <2>6 DEF Loses
    <3>2. marks'[o][p] \in {0, marks[o][p]}
      BY <3>1, Zeros DEF DeliveryInv, DeliveryTypes
    <3> QED BY <1>2, <2>1, <2>2, <3>1, <3>2
  <2>7. ASSUME NEW m \in Members, NEW q \in Parts, Revokes(m, q) PROVE Passed(p, n)
    <3>1. CommitsThenForgets(m, {q}) /\ holder' = [holder EXCEPT ![q] = Nobody] /\ {q} \in SUBSET Parts
      BY <2>7 DEF Revokes
    <3>2. holder'[p] = o => holder[p] = o
      BY <3>1, DeliveryAssumption DEF DeliveryInv, DeliveryTypes
    <3> QED BY <2>4, <3>1, <3>2
  <2>8. ASSUME NEW m \in Members, CommitsBatch(m) \/ CommitsLast(m) PROVE Passed(p, n)
    <3>1. CommitsThenForgets(m, {}) /\ holder' = holder /\ {} \in SUBSET Parts
      BY <2>8 DEF CommitsBatch, CommitsLast, Commits
    <3> QED BY <2>4, <3>1
  <2>9. ASSUME NEW m \in Members, Closes(m) PROVE Passed(p, n)
    <3>1. CommitsThenForgets(m, Parts) /\ Fresh(m) /\ Parts \in SUBSET Parts
      BY <2>9 DEF Closes
    <3> QED BY <2>4, <3>1, FreshHolders
  <2>10. ASSUME NEW m \in Members, Crashes(m) PROVE Passed(p, n)
    <3>1. Fresh(m) /\ marks' = [marks EXCEPT ![m] = Unassigned]
      BY <2>10 DEF Crashes
    <3>2. holder[p] = o /\ o # m
      BY <1>2, <3>1, FreshHolders
    <3>3. marks'[o] = marks[o]
      BY <3>1, <3>2 DEF DeliveryInv, DeliveryTypes
    <3> QED BY <2>1, <3>2, <3>3
  <2>11. ASSUME NEW m \in Members, Starts(m) \/ Tells(m) \/ Polls(m) PROVE Passed(p, n)
    <3>1. marks' = marks /\ holder' = holder
      BY <2>11 DEF Starts, Tells, Polls, memberVars, groupVars
    <3> QED BY <1>2, <2>1, <3>1
  <2> QED BY <2>3, <2>5, <2>6, <2>7, <2>8, <2>9, <2>10, <2>11 DEF QuietStep, Group, Looping
<1> QED BY <1>1, <1>2 DEF Passed

\* Handling a record passes that one, if any.
LEMMA AdvancePasses ==
    ASSUME DeliveryInv, NEW m \in Members, Handling(m), Advances(m, Current(m)), UNCHANGED groupVars,
           NEW p0 \in Parts, NEW n0 \in 1..LogLen, Current(m) = Rec(p0, n0),
           NEW p \in Parts, NEW n \in 1..LogLen, Passed(p, n)'
    PROVE  Passed(p, n) \/ (p = p0 /\ n = n0)
<1>1. /\ marks' = [marks EXCEPT ![m][p0] = IF n0 > @ THEN n0 ELSE @]
      /\ committed' = committed /\ holder' = holder /\ Current(m).part = p0
  BY DEF Advances, groupVars, Rec
<1>2. CASE n <= committed'[p]
  BY <1>1, <1>2 DEF Passed
<1>3. ASSUME NEW o \in Members, holder[p] = o, n <= marks'[o][p] PROVE Passed(p, n) \/ (p = p0 /\ n = n0)
  <2>1. CASE o # m \/ p # p0
    <3>1. marks'[o][p] = marks[o][p]
      BY <1>1, <2>1 DEF DeliveryInv, DeliveryTypes
    <3> QED BY <1>3, <3>1 DEF Passed
  <2>2. CASE o = m /\ p = p0
    <3>1. n0 = Floor(m, p) + 1
      BY <1>1, <1>3, <2>2, HeadIsNext DEF Rec
    <3>2. marks[m][p] \in Nat /\ committed[p] \in Nat
      BY DeliveryAssumption DEF DeliveryInv, DeliveryTypes, Offsets
    <3>3. marks'[m][p] = IF n0 > marks[m][p] THEN n0 ELSE marks[m][p]
      BY <1>1, <2>2 DEF DeliveryInv, DeliveryTypes
    <3>4. n <= Floor(m, p) \/ n = n0
      BY <1>3, <2>2, <3>1, <3>2, <3>3 DEF Floor
    <3>5. CASE n <= Floor(m, p)
      BY <1>3, <2>2, <3>5 DEF Passed, Floor
    <3> QED BY <2>2, <3>4, <3>5
  <2> QED BY <2>1, <2>2
<1> QED BY <1>1, <1>2, <1>3 DEF Passed

LEMMA SucceedsPasses ==
    ASSUME DeliveryInv, NEW m \in Members, Succeeds(m),
           NEW p0 \in Parts, NEW n0 \in 1..LogLen, Current(m) = Rec(p0, n0),
           NEW p \in Parts, NEW n \in 1..LogLen, Passed(p, n)', n \in done'[p]
    PROVE  (Passed(p, n) /\ n \in done[p]) \/ (p = p0 /\ n = n0)
<1>1. Handling(m) /\ Advances(m, Current(m)) /\ UNCHANGED groupVars
  BY DEF Succeeds
<1>2. Passed(p, n) \/ (p = p0 /\ n = n0)
  BY <1>1, AdvancePasses
<1>3. done' = [done EXCEPT ![p0] = @ \cup {n0}]
  BY DEF Succeeds, With, Rec
<1>4. n \in done[p] \/ (p = p0 /\ n = n0)
  BY <1>3 DEF DeliveryInv, DeliveryTypes
<1> QED BY <1>2, <1>4

LEMMA FailsPasses ==
    ASSUME DeliveryInv, NEW m \in Members, Fails(m),
           NEW p \in Parts, NEW n \in 1..LogLen, Passed(p, n)', n \in done'[p]
    PROVE  Passed(p, n) /\ n \in done[p]
<1>1. /\ Handling(m) /\ UNCHANGED groupVars
      /\ policy = "stop" => Stops(m, Current(m)) /\ UNCHANGED done
      /\ policy # "stop" => Advances(m, Current(m)) /\ done' = Without(done, Current(m))
  BY DEF Fails, Declined
<1>2. PICK p0 \in Parts, n0 \in 1..LogLen : Current(m) = Rec(p0, n0)
  BY <1>1, HeadOfBatch DEF Records, Rec
<1>3. CASE policy = "stop"
  BY <1>1, <1>3 DEF Stops, Passed, groupVars
<1>4. CASE policy # "stop"
  <2>1. Passed(p, n) \/ (p = p0 /\ n = n0)
    BY <1>1, <1>2, <1>4, AdvancePasses
  <2>2. done' = [done EXCEPT ![p0] = @ \ {n0}]
    BY <1>1, <1>2, <1>4 DEF Without, Rec
  <2>3. n \in done[p] /\ ~(p = p0 /\ n = n0)
    BY <2>2 DEF DeliveryInv, DeliveryTypes
  <2> QED BY <2>1, <2>3
<1> QED BY <1>3, <1>4

LEMMA QuietDone == QuietStep => UNCHANGED <<policy, tried, done>>
BY DEF QuietStep, Group, Looping, Starts, Expires, Loses, Tells, Assigns, Revokes, Polls, countVars,
       CommitsBatch, CommitsLast, Closes, Crashes

\* Only Fresh takes a session down.
LEMMA StaysUp ==
    ASSUME DeliveryInv, NEW m \in Members, Group(m) \/ Looping(m) \/ Succeeds(m) \/ Fails(m),
           NEW o \in Members, session'[o] = "down"
    PROVE  session[o] = "down"
<1>1. \/ session' = session
      \/ \E s \in {"out", "in", "dropped"} : session' = [session EXCEPT ![m] = s]
  BY DEF Group, Looping, Starts, Expires, Loses, Tells, Assigns, Revokes, Polls, groupVars, CommitsBatch,
         CommitsLast, Succeeds, Fails, Declined
<1> QED BY <1>1 DEF DeliveryInv, DeliveryTypes

\* The topic is not touched, and nothing is passed.
LEMMA NothingPublished ==
    ASSUME DeliveryInv, NormalizerInv, UNCHANGED latest, unsure \subseteq unsure',
           \A p \in Parts : \A n \in 1..LogLen :
              Passed(p, n)' /\ n \in done'[p] => Passed(p, n) /\ n \in done[p]
    PROVE  TopicInv' /\ CoverInv'
<1>1. TopicInv'
  BY DEF NormalizerInv, TopicInv
<1>2. ASSUME NEW p \in Parts, NEW n \in 1..LogLen, Passed(p, n)' /\ n \in done'[p],
             NEW k \in MarketsOf[p] \ unsure'
      PROVE  Covered(p, n, k)'
  <2>1. Covered(p, n, k)
    BY <1>2 DEF NormalizerInv, CoverInv
  <2> QED BY <2>1 DEF Covered
<1> QED BY <1>1, <1>2 DEF CoverInv

LEMMA NormalizerKept ==
    ASSUME DeliveryInv, NormalizerInv, UNCHANGED normalizerVars,
           \A p \in Parts : \A n \in 1..LogLen :
              Passed(p, n)' /\ n \in done'[p] => Passed(p, n) /\ n \in done[p],
           \A o \in Members : session'[o] = "down" => session[o] = "down"
    PROVE  NormalizerInv'
<1>1. UNCHANGED <<latest, memory, attempts, warmed, ready, cold, behind, unsure>>
  BY DEF normalizerVars, processVars
<1>2. TopicInv' /\ CoverInv'
  BY <1>1, NothingPublished
<1>3. NormalizerTypes'
  BY <1>1 DEF NormalizerInv, NormalizerTypes
<1>4. MemoryInv'
  BY <1>1 DEF NormalizerInv, MemoryInv, Known
<1> QED BY <1>2, <1>3, <1>4 DEF NormalizerInv

\* A read of the topic, whole or not: what it leaves of an older record, it is behind on.
LEMMA WarmsKeeps ==
    ASSUME DeliveryInv, NormalizerInv, TrailInv, NEW m \in Members, Warms(m)
    PROVE  NormalizerInv'
<1>1. /\ Handling(m) /\ ~warmed[m]
      /\ ready' = [ready EXCEPT ![m] = TRUE] /\ attempts' = [attempts EXCEPT ![m] = @ + 1]
      /\ UNCHANGED <<deliveryVars, latest, unsure>>
  BY DEF Warms
<1>2. session[m] # "down" /\ session' = session
  <2>1. session[m] = "down" => \A p \in Parts : next[m][p] = 0
    BY DEF DeliveryInv, MemberInv
  <2>2. Current(m).part \in Parts /\ next[m][Current(m).part] > 0
    BY <1>1, HeadOfBatch DEF Records
  <2> QED BY <1>1, <2>1, <2>2 DEF deliveryVars, groupVars
<1>0. latest \in [AllMarkets -> Entries \cup {Nobody}] /\ behind \in [Members -> SUBSET AllMarkets]
  BY DEF NormalizerInv, NormalizerTypes
<1>3. PICK read \in [AllMarkets -> Entries \cup {Nobody}] :
        /\ memory' = [memory EXCEPT ![m] = Absorbed(m, read)]
        /\ \/ /\ read = latest /\ warmed' = [warmed EXCEPT ![m] = TRUE]
              /\ behind' = [behind EXCEPT ![m] = {}] /\ cold' = cold
           \/ /\ Partial(read) /\ warmed' = [warmed EXCEPT ![m] = attempts[m] + 1 >= MaxWarm]
              /\ cold' = TRUE /\ behind' = [behind EXCEPT ![m] = Overtaken(m, read)]
  BY <1>0 DEF Warms
<1>4. /\ \A k \in AllMarkets : Absorbed(m, read)[k] = IF read[k] = Nobody THEN memory[m][k] ELSE read[k]
      /\ Absorbed(m, read) \in [AllMarkets -> Entries \cup {Nobody}]
  BY DEF Absorbed, NormalizerInv, NormalizerTypes
<1>5. /\ memory'[m] = Absorbed(m, read) /\ \A o \in Members \ {m} : memory'[o] = memory[o]
      /\ ready'[m] /\ \A o \in Members \ {m} : ready'[o] = ready[o]
      /\ \A o \in Members \ {m} : warmed'[o] = warmed[o] /\ behind'[o] = behind[o]
  BY <1>1, <1>3, <1>4 DEF NormalizerInv, NormalizerTypes
<1>9. /\ behind' \in [Members -> SUBSET AllMarkets]
      /\ \A k \in AllMarkets :
           k \in behind'[m] <=> IF read[k] = Nobody THEN k \in behind[m] ELSE read[k] # latest[k]
  <2>1. CASE behind' = [behind EXCEPT ![m] = Overtaken(m, read)]
    <3>1. /\ Overtaken(m, read) \in SUBSET AllMarkets
          /\ \A k \in AllMarkets :
               k \in Overtaken(m, read) <=> IF read[k] = Nobody THEN k \in behind[m] ELSE read[k] # latest[k]
      BY DEF Overtaken
    <3> QED BY <1>0, <2>1, <3>1
  <2>2. CASE read = latest /\ behind' = [behind EXCEPT ![m] = {}]
    <3>1. \A k \in behind[m] : latest[k] # Nobody
      BY DEF NormalizerInv, MemoryInv
    <3> QED BY <1>0, <2>2, <3>1
  <2> QED BY <1>3, <2>1, <2>2
<1>6. NormalizerTypes'
  <2>1. attempts[m] + 1 \in 0..MaxWarm /\ (~(attempts[m] + 1 >= MaxWarm) => attempts[m] + 1 < MaxWarm)
    BY <1>1, NormalizerAssumption DEF NormalizerInv, NormalizerTypes
  <2>2. /\ attempts' \in [Members -> 0..MaxWarm] /\ attempts'[m] = attempts[m] + 1
        /\ \A o \in Members \ {m} : attempts'[o] = attempts[o]
    BY <1>1, <2>1 DEF NormalizerInv, NormalizerTypes
  <2>3. /\ warmed' \in [Members -> BOOLEAN] /\ ready' \in [Members -> BOOLEAN]
    <3>1. (attempts[m] + 1 >= MaxWarm) \in BOOLEAN
      OBVIOUS
    <3> QED BY <1>1, <1>3, <3>1 DEF NormalizerInv, NormalizerTypes
  <2>4. ~warmed'[m] => attempts'[m] < MaxWarm
    <3>1. warmed \in [Members -> BOOLEAN]
      BY DEF NormalizerInv, NormalizerTypes
    <3>2. warmed'[m] = TRUE \/ warmed'[m] = (attempts[m] + 1 >= MaxWarm)
      BY <1>3, <3>1
    <3> QED BY <2>1, <2>2, <3>2
  <2>5. \A o \in Members : ~warmed'[o] => attempts'[o] < MaxWarm
    BY <1>5, <2>2, <2>4 DEF NormalizerInv, NormalizerTypes
  <2>6. behind' \in [Members -> SUBSET AllMarkets] /\ memory' \in [Members -> [AllMarkets -> Entries \cup {Nobody}]]
    BY <1>3, <1>4, <1>9 DEF NormalizerInv, NormalizerTypes
  <2> QED BY <1>1, <2>2, <2>3, <2>5, <2>6 DEF NormalizerInv, NormalizerTypes
<1>7. MemoryInv'
  <2>1. ASSUME NEW o \in Members, NEW k \in Known(o)', memory'[o][k] # Nobody
        PROVE  memory'[o][k] = latest'[k]
    <3>1. CASE o # m
      BY <1>1, <1>5, <2>1, <3>1 DEF NormalizerInv, MemoryInv, Known
    <3>2. CASE o = m
      <4>1. k \in AllMarkets \ unsure /\ k \notin behind'[m]
        BY <1>1, <3>2 DEF Known
      <4>2. CASE read[k] = Nobody
        <5>1. memory'[m][k] = memory[m][k] /\ k \in Known(m)
          BY <1>4, <1>5, <1>9, <4>1, <4>2 DEF Known
        <5> QED BY <1>1, <2>1, <3>2, <5>1 DEF NormalizerInv, MemoryInv
      <4>3. CASE read[k] # Nobody
        BY <1>1, <1>4, <1>5, <1>9, <3>2, <4>1, <4>3
      <4> QED BY <4>2, <4>3
    <3> QED BY <3>1, <3>2
  <2>2. ASSUME NEW o \in Members, NEW k \in behind'[o] PROVE latest'[k] # Nobody
    <3>1. k \in AllMarkets
      BY <1>9
    <3>2. CASE o # m \/ k \in behind[m]
      BY <1>1, <1>5, <2>2, <3>2 DEF NormalizerInv, MemoryInv
    <3>3. CASE o = m /\ k \notin behind[m]
      <4>1. read[k] # Nobody /\ read[k] # latest[k]
        BY <1>9, <2>2, <3>1, <3>3
      <4>2. read[k] \in trail[k]
        BY <1>3, <3>1, <4>1 DEF Partial
      <4> QED BY <1>1, <3>1, <4>2 DEF TrailInv
    <3> QED BY <3>2, <3>3
  <2>3. \A o \in Members : session'[o] = "down" =>
          memory'[o] = NoMemory /\ behind'[o] = {} /\ ~warmed'[o] /\ ~ready'[o]
    BY <1>2, <1>5 DEF NormalizerInv, MemoryInv
  <2>4. ASSUME ~cold', NEW o \in Members
        PROVE  /\ ready'[o] => warmed'[o]
               /\ warmed'[o] => \A k \in Known(o)' : memory'[o][k] = latest'[k]
    <3>1. ~cold /\ read = latest /\ warmed' = [warmed EXCEPT ![m] = TRUE]
      BY <1>3, <2>4
    <3>2. CASE o # m
      BY <1>1, <1>5, <3>1, <3>2 DEF NormalizerInv, MemoryInv, Known
    <3>3. CASE o = m
      <4>1. warmed'[m]
        BY <3>1 DEF NormalizerInv, NormalizerTypes
      <4>2. ASSUME NEW k \in Known(m)' PROVE memory'[m][k] = latest'[k]
        <5>1. k \in AllMarkets /\ k \notin unsure /\ k \notin behind'[m]
          BY <1>1 DEF Known
        <5>2. CASE latest[k] # Nobody
          BY <1>1, <1>4, <1>5, <3>1, <5>1, <5>2
        <5>3. CASE latest[k] = Nobody
          <6>1. memory'[m][k] = memory[m][k] /\ k \notin behind[m]
            BY <1>4, <1>5, <1>9, <3>1, <5>1, <5>3
          <6> QED BY <1>1, <5>1, <5>3, <6>1 DEF NormalizerInv, MemoryInv, Known
        <5> QED BY <5>2, <5>3
      <4> QED BY <3>3, <4>1, <4>2
    <3> QED BY <3>2, <3>3
  <2> QED BY <2>1, <2>2, <2>3, <2>4 DEF MemoryInv
<1>8. TopicInv' /\ CoverInv'
  <2>1. \A p \in Parts : \A n \in 1..LogLen :
          Passed(p, n)' /\ n \in done'[p] => Passed(p, n) /\ n \in done[p]
    BY <1>1 DEF Passed, deliveryVars, groupVars, memberVars
  <2> QED BY <1>1, <2>1, NothingPublished
<1> QED BY <1>6, <1>7, <1>8 DEF NormalizerInv

-----------------------------------------------------------------------------
(* What a process puts on the topic *)

\* A process that handles a record of a partition it does not hold was dropped.
LEMMA HandlerHolds ==
    ASSUME DeliveryInv, NEW m \in Members, Handling(m),
           NEW p0 \in Parts, NEW n0 \in 1..LogLen, Current(m) = Rec(p0, n0)
    PROVE  /\ session[m] # "down"
           /\ \/ holder[p0] = m /\ \A n \in 1..LogLen : Passed(p0, n) => n < n0
              \/ holder[p0] # m /\ session[m] = "dropped"
<1>1. next[m][p0] > 0 /\ next[m][p0] # 0
  <2>1. Current(m).part = p0
    BY DEF Rec
  <2> QED BY <2>1, HeadOfBatch
<1>2. session[m] \in {"in", "dropped"}
  BY <1>1 DEF DeliveryInv, DeliveryTypes, MemberInv
<1>3. holder[p0] # m => session[m] = "dropped"
  BY <1>1, <1>2 DEF DeliveryInv, HolderInv
<1>4. ASSUME holder[p0] = m, NEW n \in 1..LogLen, Passed(p0, n) PROVE n < n0
  <2>1. n0 = Floor(m, p0) + 1
    BY <1>4, HeadIsNext DEF Rec
  <2>2. marks[m][p0] \in Nat /\ committed[p0] \in Nat /\ (marks[m][p0] > 0 => committed[p0] <= marks[m][p0])
    BY <1>4, DeliveryAssumption DEF DeliveryInv, DeliveryTypes, Offsets, PartInv
  <2>3. n <= committed[p0] \/ n <= marks[m][p0]
    BY <1>4 DEF Passed
  <2> QED BY <2>1, <2>2, <2>3 DEF Floor
<1> QED BY <1>2, <1>3, <1>4

\* A record that was passed was dealt with, and so was every one before it.
LEMMA PassedBefore ==
    ASSUME DeliveryInv, NEW p \in Parts, NEW n \in 1..LogLen, Passed(p, n), NEW j \in 1..n
    PROVE  Passed(p, j) /\ DealtWith(p, j)
<1>1. CASE n <= committed[p]
  <2>1. j <= committed[p] /\ j \in 1..committed[p]
    BY <1>1, DeliveryAssumption DEF DeliveryInv, DeliveryTypes, Offsets
  <2> QED BY <2>1 DEF Passed, DeliveryInv, NothingSkipped, DealtWith
<1>2. ASSUME NEW m \in Members, holder[p] = m, n <= marks[m][p] PROVE Passed(p, j) /\ DealtWith(p, j)
  <2>1. marks[m][p] \in Nat
    BY DeliveryAssumption DEF DeliveryInv, DeliveryTypes, Offsets
  <2>2. j <= marks[m][p] /\ marks[m][p] > 0 /\ j \in 1..marks[m][p]
    BY <1>2, <2>1
  <2>3. DealtWith(p, j)
    BY <1>2, <2>2 DEF DeliveryInv, PartInv, Floor
  <2> QED BY <1>2, <2>2, <2>3 DEF Passed
<1> QED BY <1>1, <1>2 DEF Passed

\* The topic once the views of ks reach it.
Published(rec, ks) == [k \in AllMarkets |-> IF k \in ks THEN ViewOf(rec, k) ELSE latest[k]]

\* The views of some markets of the record at hand, none of them stale, reach the
\* topic: what it has of the others stays.
LEMMA PublishTopic ==
    ASSUME NormalizerInv, NEW m \in Members,
           NEW p0 \in Parts, NEW n0 \in 1..LogLen, Current(m) = Rec(p0, n0),
           NEW ks \in SUBSET Fresher(m, Current(m)),
           latest' = Published(Current(m), ks)
    PROVE  /\ latest' \in [AllMarkets -> Entries \cup {Nobody}]
           /\ \A k \in ks : /\ k \in AllMarkets /\ k \in MarketsOf[p0] /\ latest'[k] # Nobody
                            /\ latest'[k] = Entry(Raw[p0][n0][k], n0)
                            /\ latest'[k].fp = Raw[p0][n0][k] /\ latest'[k].obs = n0
                            /\ ~Stale(memory[m][k], Entry(Raw[p0][n0][k], n0))
           /\ \A k \in AllMarkets \ ks : latest'[k] = latest[k]
<1>1. Current(m).part = p0 /\ Current(m).offset = n0
  BY DEF Rec
<1>2. /\ \A p \in Parts : MarketsOf[p] \subseteq AllMarkets
      /\ \A k \in MarketsOf[p0] : Raw[p0][n0][k] \in Contents
      /\ \A k : ViewOf(Current(m), k) = Entry(Raw[p0][n0][k], n0)
  <2>1. \A p \in Parts : MarketsOf[p] \subseteq AllMarkets
    BY DEF AllMarkets
  <2>2. \A k \in MarketsOf[p0] : Raw[p0][n0][k] \in Contents
    <3>1. Raw[p0] \in [1..LogLen -> [MarketsOf[p0] -> Contents]]
      BY NormalizerAssumption
    <3>2. Raw[p0][n0] \in [MarketsOf[p0] -> Contents]
      BY <3>1
    <3> QED BY <3>2
  <2>3. \A k : ViewOf(Current(m), k) = Entry(Raw[p0][n0][k], n0)
    BY <1>1 DEF ViewOf
  <2> QED BY <2>1, <2>2, <2>3
<1>3. \A k \in MarketsOf[p0] : /\ Entry(Raw[p0][n0][k], n0) \in Entries
                               /\ Entry(Raw[p0][n0][k], n0) # Nobody
                               /\ Entry(Raw[p0][n0][k], n0).fp = Raw[p0][n0][k]
                               /\ Entry(Raw[p0][n0][k], n0).obs = n0
  BY <1>2, NormalizerAssumption DEF Entry, Entries
<1>4. \A k \in ks : k \in MarketsOf[p0] /\ ~Stale(memory[m][k], Entry(Raw[p0][n0][k], n0))
  BY <1>1, <1>2 DEF Fresher
<1>5. /\ latest' \in [AllMarkets -> Entries \cup {Nobody}]
      /\ \A k \in ks : /\ k \in AllMarkets /\ k \in MarketsOf[p0] /\ latest'[k] # Nobody
                       /\ latest'[k] = Entry(Raw[p0][n0][k], n0)
                       /\ latest'[k].fp = Raw[p0][n0][k] /\ latest'[k].obs = n0
      /\ \A k \in AllMarkets \ ks : latest'[k] = latest[k]
  BY <1>2, <1>3, <1>4 DEF NormalizerInv, NormalizerTypes, Published
<1> QED BY <1>4, <1>5

\* What the topic covered before such a publication it covers still, and nothing on it
\* gets older if every process has read all of it.
LEMMA PublishCovers ==
    ASSUME DeliveryInv, NormalizerInv, NEW m \in Members, Handling(m),
           NEW p0 \in Parts, NEW n0 \in 1..LogLen, Current(m) = Rec(p0, n0),
           NEW ks \in SUBSET Fresher(m, Current(m)),
           latest' = Published(Current(m), ks),
           unsure \cup Misjudged(m, Current(m)) \subseteq unsure'
    PROVE  /\ TopicInv'
           /\ \A p \in Parts : \A n \in 1..LogLen : Passed(p, n) /\ n \in done[p] =>
                \A k \in MarketsOf[p] \ unsure' : Covered(p, n, k)'
           /\ ~cold /\ Prepared(m) => \A k \in AllMarkets \ unsure' :
                latest[k] # Nobody => latest'[k].obs >= latest[k].obs
<1>1. Current(m).part = p0 /\ Current(m).offset = n0
  BY DEF Rec
<1>2. \A p \in Parts : MarketsOf[p] \subseteq AllMarkets
  BY DEF AllMarkets
<1>3. \A k : Entry(Raw[p0][n0][k], n0).obs = n0
  BY DEF Entry
<1>4. \A k \in ks : k \in MarketsOf[p0] /\ ~Stale(memory[m][k], Entry(Raw[p0][n0][k], n0))
  BY PublishTopic
<1>5. /\ latest' \in [AllMarkets -> Entries \cup {Nobody}]
      /\ \A k \in ks : /\ k \in AllMarkets /\ k \in MarketsOf[p0] /\ latest'[k] # Nobody
                       /\ latest'[k] = Entry(Raw[p0][n0][k], n0)
                       /\ latest'[k].fp = Raw[p0][n0][k] /\ latest'[k].obs = n0
      /\ \A k \in AllMarkets \ ks : latest'[k] = latest[k]
  BY PublishTopic
<1>6. \A k \in AllMarkets : latest[k] # Nobody => latest[k].obs \in Nat
  BY DEF NormalizerInv, NormalizerTypes, Entries
<1>7. \A k \in ks \ unsure' :
        /\ k \in Known(m)
        /\ session[m] = "dropped" => memory[m][k] = latest[k] /\ n0 \notin tried[p0] \ done[p0]
  BY <1>1, <1>2, <1>4 DEF Misjudged, Known
<1>8. \A p \in Parts : p # p0 => \A k \in MarketsOf[p] : k \notin ks
  BY <1>4, NormalizerAssumption
<1>9. TopicInv'
  <2> SUFFICES ASSUME NEW p \in Parts, NEW k \in MarketsOf[p], latest'[k] # Nobody
               PROVE  latest'[k].fp = Raw[p][latest'[k].obs][k]
    BY DEF TopicInv
  <2>1. CASE k \in ks
    BY <1>5, <1>8, <2>1
  <2>2. CASE k \notin ks
    BY <1>2, <1>5, <2>2 DEF NormalizerInv, TopicInv
  <2> QED BY <2>1, <2>2
<1>10. ASSUME NEW p \in Parts, NEW n \in 1..LogLen, Passed(p, n), n \in done[p],
              NEW k \in MarketsOf[p] \ unsure'
       PROVE  Covered(p, n, k)'
  <2>1. Covered(p, n, k) /\ k \notin unsure
    BY <1>10 DEF NormalizerInv, CoverInv
  <2>2. CASE k \notin ks
    BY <1>2, <1>5, <2>1, <2>2 DEF Covered
  <2>3. CASE k \in ks /\ n <= n0
    BY <1>5, <2>3 DEF Covered
  <2>4. CASE k \in ks /\ n > n0
    <3>1. p = p0 /\ k \in AllMarkets
      BY <1>5, <1>8, <2>4
    <3>2. session[m] = "dropped"
      BY <1>10, <2>4, <3>1, HandlerHolds
    <3>3. memory[m][k] = latest[k] /\ n0 \notin tried[p0] \ done[p0]
      <4>1. k \in ks \ unsure'
        BY <2>4
      <4> QED BY <1>7, <3>2, <4>1
    <3>4. latest[k] # Nobody /\ latest[k].obs <= n0
      <4>1. ~Stale(latest[k], Entry(Raw[p0][n0][k], n0)) /\ Entry(Raw[p0][n0][k], n0).obs = n0
        BY <1>3, <1>4, <2>4, <3>3
      <4> QED BY <1>6, <2>1, <3>1, <4>1 DEF Stale, Covered
    <3>5. latest[k].fp = Raw[p][n][k]
      BY <1>6, <2>1, <2>4, <3>1, <3>4 DEF Covered
    <3>6. Passed(p0, n0) /\ n0 \in done[p0]
      <4>1. n0 \in 1..n
        BY <2>4
      <4>2. Passed(p0, n0) /\ DealtWith(p0, n0)
        BY <1>10, <3>1, <4>1, PassedBefore
      <4> QED BY <3>3, <4>2 DEF DealtWith
    <3>7. Covered(p0, n0, k)
      BY <1>5, <2>1, <2>4, <3>6 DEF NormalizerInv, CoverInv
    <3>8. latest[k].fp = Raw[p0][n0][k]
      <4>1. CASE latest[k].obs >= n0
        <5>1. latest[k].obs = n0
          BY <1>6, <3>1, <3>4, <4>1
        <5> QED BY <1>5, <2>4, <3>4, <5>1 DEF NormalizerInv, TopicInv
      <4>2. CASE latest[k].fp = Raw[p0][n0][k]
        BY <4>2
      <4> QED BY <3>7, <4>1, <4>2 DEF Covered
    <3>9. latest'[k] # Nobody /\ latest'[k].fp = Raw[p][n][k]
      BY <1>5, <2>4, <3>5, <3>8
    <3> QED BY <3>9 DEF Covered
  <2> QED BY <2>2, <2>3, <2>4
<1>11. ASSUME ~cold, Prepared(m), NEW k \in AllMarkets \ unsure', latest[k] # Nobody
       PROVE  latest'[k].obs >= latest[k].obs
  <2>1. CASE k \notin ks
    BY <1>5, <1>6, <1>11, <2>1
  <2>2. CASE k \in ks
    <3>1. warmed[m] /\ k \in Known(m)
      <4>1. ready[m] => warmed[m]
        BY <1>11 DEF NormalizerInv, MemoryInv
      <4>2. k \in ks \ unsure'
        BY <2>2
      <4> QED BY <1>7, <1>11, <4>1, <4>2 DEF Prepared
    <3>2. memory[m][k] = latest[k]
      BY <1>11, <3>1 DEF NormalizerInv, MemoryInv
    <3>3. ~Stale(latest[k], Entry(Raw[p0][n0][k], n0)) /\ Entry(Raw[p0][n0][k], n0).obs = n0
      BY <1>3, <1>4, <2>2, <3>2
    <3> QED BY <1>5, <1>6, <1>11, <2>2, <3>3 DEF Stale
  <2> QED BY <2>1, <2>2
<1> QED BY <1>9, <1>10, <1>11

\* What each process remembers of the markets it can judge is still the topic's.
LEMMA PublishRemembered ==
    ASSUME DeliveryInv, NormalizerInv, NEW m \in Members, Prepared(m),
           NEW p0 \in Parts, NEW n0 \in 1..LogLen, Current(m) = Rec(p0, n0),
           NEW ks \in SUBSET Fresher(m, Current(m)), NEW known \in SUBSET ks,
           Publishes(m, Current(m), ks, known),
           \A o \in Members : session'[o] = "down" => session[o] = "down"
    PROVE  NormalizerTypes' /\ MemoryInv'
<1>1. /\ latest' = Published(Current(m), ks)
      /\ memory' = [memory EXCEPT ![m] =
                      [k \in AllMarkets |-> IF k \in known THEN ViewOf(Current(m), k) ELSE memory[m][k]]]
      /\ behind' = [n \in Members |-> IF n = m THEN behind[n] \ known
                                      ELSE IF session[n] = "down" THEN {} ELSE behind[n] \cup ks]
      /\ unsure' = unsure \cup (ks \ known) \cup Misjudged(m, Current(m))
      /\ ready' = [ready EXCEPT ![m] = FALSE]
      /\ UNCHANGED <<attempts, warmed, cold>>
  BY DEF Publishes, Appends, Published
<1>2. Handling(m) /\ unsure \cup Misjudged(m, Current(m)) \subseteq unsure'
  BY <1>1 DEF Prepared
<1>3. /\ latest' \in [AllMarkets -> Entries \cup {Nobody}]
      /\ \A k \in ks : k \in AllMarkets /\ latest'[k] # Nobody
      /\ \A k \in AllMarkets \ ks : latest'[k] = latest[k]
  BY <1>1, PublishTopic
<1>4. session[m] # "down"
  BY <1>2, HandlerHolds
<1>5. /\ latest \in [AllMarkets -> Entries \cup {Nobody}]
      /\ memory \in [Members -> [AllMarkets -> Entries \cup {Nobody}]]
      /\ behind \in [Members -> SUBSET AllMarkets]
      /\ unsure \subseteq AllMarkets
  BY DEF NormalizerInv, NormalizerTypes
<1>6. /\ \A k \in AllMarkets : memory'[m][k] = IF k \in known THEN latest'[k] ELSE memory[m][k]
      /\ \A o \in Members \ {m} : memory'[o] = memory[o]
  <2>1. \A k \in known : latest'[k] = ViewOf(Current(m), k)
    BY <1>1, <1>3 DEF Published
  <2>2. memory'[m] = [k \in AllMarkets |-> IF k \in known THEN ViewOf(Current(m), k) ELSE memory[m][k]]
    BY <1>1, <1>5
  <2>3. \A o \in Members \ {m} : memory'[o] = memory[o]
    BY <1>1, <1>5
  <2> QED BY <2>1, <2>2, <2>3
<1>7. /\ behind'[m] = behind[m] \ known
      /\ \A o \in Members \ {m} : behind'[o] = IF session[o] = "down" THEN {} ELSE behind[o] \cup ks
  BY <1>1
<1>8. NormalizerTypes'
  <2>1. memory' \in [Members -> [AllMarkets -> Entries \cup {Nobody}]]
    <3>1. [k \in AllMarkets |-> IF k \in known THEN ViewOf(Current(m), k) ELSE memory[m][k]]
            \in [AllMarkets -> Entries \cup {Nobody}]
      <4>1. \A k \in known : ViewOf(Current(m), k) \in Entries \cup {Nobody}
        BY <1>1, <1>3 DEF Published
      <4> QED BY <1>5, <4>1
    <3> QED BY <1>1, <1>5, <3>1
  <2>2. behind' \in [Members -> SUBSET AllMarkets]
    <3>1. ks \subseteq AllMarkets
      BY <1>3
    <3> QED BY <1>1, <1>5, <3>1
  <2>3. unsure' \subseteq AllMarkets
    <3>1. Misjudged(m, Current(m)) \subseteq AllMarkets
      BY DEF Misjudged, AllMarkets, Rec
    <3> QED BY <1>1, <1>3, <1>5, <3>1
  <2>4. /\ attempts' \in [Members -> 0..MaxWarm]
        /\ \A o \in Members : ~warmed'[o] => attempts'[o] < MaxWarm
        /\ warmed' \in [Members -> BOOLEAN]
    BY <1>1 DEF NormalizerInv, NormalizerTypes
  <2>5. ready' \in [Members -> BOOLEAN]
    BY <1>1 DEF NormalizerInv, NormalizerTypes
  <2> QED BY <1>3, <2>1, <2>2, <2>3, <2>4, <2>5 DEF NormalizerTypes
<1>9. ASSUME NEW o \in Members, NEW k \in Known(o)'
      PROVE  \/ memory'[o][k] = latest'[k]
             \/ session[o] = "down" /\ memory'[o][k] = memory[o][k]
             \/ /\ k \in Known(o)
                /\ memory'[o][k] = memory[o][k] /\ latest'[k] = latest[k]
  <2>1. k \in AllMarkets /\ k \notin unsure' /\ k \notin behind'[o]
    BY DEF Known
  <2>2. CASE o = m /\ k \in known
    BY <1>6, <2>1, <2>2
  <2>3. CASE o = m /\ k \notin known
    <3>1. k \notin ks /\ k \notin unsure /\ k \notin behind[m]
      BY <1>1, <1>7, <2>1, <2>3
    <3> QED BY <1>3, <1>6, <2>1, <2>3, <3>1 DEF Known
  <2>4. CASE o # m /\ session[o] = "down"
    BY <1>6, <2>4
  <2>5. CASE o # m /\ session[o] # "down"
    <3>1. k \notin ks /\ k \notin unsure /\ k \notin behind[o]
      BY <1>1, <1>7, <2>1, <2>5
    <3> QED BY <1>3, <1>6, <2>1, <2>5, <3>1 DEF Known
  <2> QED BY <2>2, <2>3, <2>4, <2>5
<1>10. \A o \in Members : session[o] = "down" =>
          memory[o] = NoMemory /\ behind[o] = {} /\ ~warmed[o] /\ ~ready[o]
  BY DEF NormalizerInv, MemoryInv
<1>11. ASSUME NEW o \in Members, NEW k \in Known(o)', memory'[o][k] # Nobody
       PROVE  memory'[o][k] = latest'[k]
  <2>1. CASE session[o] = "down" /\ memory'[o][k] = memory[o][k]
    <3>1. k \in AllMarkets
      BY DEF Known
    <3> QED BY <1>10, <1>11, <2>1, <3>1 DEF NoMemory
  <2>2. CASE k \in Known(o) /\ memory'[o][k] = memory[o][k] /\ latest'[k] = latest[k]
    BY <1>11, <2>2 DEF NormalizerInv, MemoryInv
  <2> QED BY <1>9, <2>1, <2>2
<1>12. ASSUME NEW o \in Members, NEW k \in behind'[o] PROVE latest'[k] # Nobody
  <2>1. k \in ks \/ k \in behind[o]
    BY <1>7
  <2>2. k \in behind[o] => k \in AllMarkets /\ latest[k] # Nobody
    BY <1>5 DEF NormalizerInv, MemoryInv
  <2> QED BY <1>3, <2>1, <2>2
<1>13. ASSUME NEW o \in Members, session'[o] = "down"
       PROVE  memory'[o] = NoMemory /\ behind'[o] = {} /\ ~warmed'[o] /\ ~ready'[o]
  <2>1. session[o] = "down" /\ o # m
    BY <1>4, <1>13
  <2>2. ready'[o] = ready[o] /\ warmed'[o] = warmed[o]
    BY <1>1, <2>1 DEF NormalizerInv, NormalizerTypes
  <2> QED BY <1>6, <1>7, <1>10, <2>1, <2>2
<1>14. ASSUME ~cold', NEW o \in Members
       PROVE  /\ ready'[o] => warmed'[o]
              /\ warmed'[o] => \A k \in Known(o)' : memory'[o][k] = latest'[k]
  <2>1. ~cold /\ warmed'[o] = warmed[o] /\ (ready'[o] => ready[o])
    BY <1>1, <1>14 DEF NormalizerInv, NormalizerTypes
  <2>2. ready[o] => warmed[o]
    BY <2>1 DEF NormalizerInv, MemoryInv
  <2>3. ASSUME warmed[o], NEW k \in Known(o)' PROVE memory'[o][k] = latest'[k]
    <3>1. session[o] # "down"
      BY <1>10, <2>3
    <3>2. k \in Known(o) => memory[o][k] = latest[k]
      BY <2>1, <2>3 DEF NormalizerInv, MemoryInv
    <3> QED BY <1>9, <3>1, <3>2
  <2> QED BY <2>1, <2>2, <2>3
<1>15. MemoryInv'
  BY <1>11, <1>12, <1>13, <1>14 DEF MemoryInv
<1> QED BY <1>8, <1>15

\* What TopicNeverRegresses says of a step.
NotOlder == \A k \in AllMarkets \ unsure' :
    (latest[k] # Nobody /\ ~cold') => latest'[k].obs >= latest[k].obs

LEMMA SameTopic ==
    ASSUME NormalizerInv, UNCHANGED latest
    PROVE  NotOlder
<1>1. \A k \in AllMarkets : latest[k] # Nobody => latest[k].obs \in Nat
  BY DEF NormalizerInv, NormalizerTypes, Entries
<1> QED BY <1>1 DEF NotOlder

\* A handler that succeeds leaves every market of its record covered: published, or
\* suppressed as older or unchanged against a memory that was the topic.
LEMMA NormalizesKeeps ==
    ASSUME DeliveryInv, NormalizerInv, NEW m \in Members, Normalizes(m)
    PROVE  NormalizerInv' /\ NotOlder
<1>1. Prepared(m) /\ Succeeds(m) /\ Handling(m)
  BY DEF Normalizes, Prepared
<1>2. PICK ks \in Publications(m, Current(m)) : Publishes(m, Current(m), ks, ks)
  BY DEF Normalizes
<1>3. PICK p0 \in Parts, n0 \in 1..LogLen : Current(m) = Rec(p0, n0)
  BY <1>1, HeadOfBatch DEF Records, Rec
<1>4. ks \in SUBSET Fresher(m, Current(m)) /\ Moved(m, Current(m)) \subseteq ks
  BY <1>2 DEF Publications
<1>5. \A o \in Members : session'[o] = "down" => session[o] = "down"
  BY <1>1, StaysUp
<1>6. /\ latest' = Published(Current(m), ks) /\ unsure \cup Misjudged(m, Current(m)) \subseteq unsure'
      /\ cold' = cold
  BY <1>2 DEF Publishes, Appends, Published
<1>7. NormalizerTypes' /\ MemoryInv'
  <2>1. ks \in SUBSET ks
    OBVIOUS
  <2> QED BY <1>1, <1>2, <1>3, <1>4, <1>5, <2>1, PublishRemembered
<1>8. /\ TopicInv'
      /\ \A p \in Parts : \A n \in 1..LogLen : Passed(p, n) /\ n \in done[p] =>
           \A k \in MarketsOf[p] \ unsure' : Covered(p, n, k)'
      /\ ~cold /\ Prepared(m) => \A k \in AllMarkets \ unsure' :
           latest[k] # Nobody => latest'[k].obs >= latest[k].obs
  BY <1>1, <1>3, <1>4, <1>6, PublishCovers
<1>9. ASSUME NEW k \in MarketsOf[p0] \ unsure' PROVE Covered(p0, n0, k)'
  <2>1. k \in AllMarkets /\ Current(m).part = p0
    BY <1>3 DEF AllMarkets, Rec
  <2>2. /\ \A j \in ks : latest'[j] # Nobody /\ latest'[j].obs = n0
        /\ \A j \in AllMarkets \ ks : latest'[j] = latest[j]
    BY <1>3, <1>4, <1>6, PublishTopic
  <2>3. CASE k \in ks
    BY <2>2, <2>3 DEF Covered
  <2>4. CASE k \notin ks
    <3>1. k \in Known(m)
      BY <1>6, <2>1 DEF Known, Misjudged
    <3>2. k \notin Moved(m, Current(m))
      BY <1>4, <2>4
    <3>3. \/ Stale(memory[m][k], ViewOf(Current(m), k))
          \/ Unchanged(memory[m][k], ViewOf(Current(m), k))
      BY <2>1, <3>2 DEF Moved, Fresher
    <3>4. memory[m][k] # Nobody
      BY <3>3 DEF Stale, Unchanged
    <3>5. memory[m][k] = latest[k] /\ latest'[k] = latest[k]
      BY <2>1, <2>2, <2>4, <3>1, <3>4 DEF NormalizerInv, MemoryInv
    <3>6. ViewOf(Current(m), k).fp = Raw[p0][n0][k] /\ ViewOf(Current(m), k).obs = n0
      BY <1>3 DEF ViewOf, Entry, Rec
    <3>7. latest[k].obs \in Nat
      BY <2>1, <3>4, <3>5 DEF NormalizerInv, NormalizerTypes, Entries
    <3>8. latest[k].obs >= n0 \/ latest[k].fp = Raw[p0][n0][k]
      BY <3>3, <3>5, <3>6, <3>7 DEF Stale, Unchanged
    <3> QED BY <3>4, <3>5, <3>8 DEF Covered
  <2> QED BY <2>3, <2>4
<1>10. CoverInv'
  <2> SUFFICES ASSUME NEW p \in Parts, NEW n \in 1..LogLen, Passed(p, n)', n \in done'[p],
                      NEW k \in MarketsOf[p] \ unsure'
               PROVE  Covered(p, n, k)'
    BY DEF CoverInv
  <2>1. (Passed(p, n) /\ n \in done[p]) \/ (p = p0 /\ n = n0)
    BY <1>1, <1>3, SucceedsPasses
  <2> QED BY <1>8, <1>9, <2>1
<1>11. NotOlder
  BY <1>1, <1>6, <1>8 DEF NotOlder
<1> QED BY <1>7, <1>8, <1>10, <1>11 DEF NormalizerInv

\* A handler that fails covers nothing new, whatever got to the topic.
LEMMA BreaksKeeps ==
    ASSUME DeliveryInv, NormalizerInv, NEW m \in Members, Breaks(m)
    PROVE  NormalizerInv' /\ NotOlder
<1>1. Prepared(m) /\ Fails(m) /\ Handling(m)
  BY DEF Breaks, Prepared
<1>2. PICK ks \in Publications(m, Current(m)) : \E sent \in SUBSET ks, f \in ks :
        \/ Publishes(m, Current(m), sent, sent)
        \/ Publishes(m, Current(m), sent \cup {f}, sent)
  BY DEF Breaks
<1>3. PICK p0 \in Parts, n0 \in 1..LogLen : Current(m) = Rec(p0, n0)
  BY <1>1, HeadOfBatch DEF Records, Rec
<1>4. PICK all \in SUBSET Fresher(m, Current(m)) : \E sent \in SUBSET all :
        Publishes(m, Current(m), all, sent)
  <2>1. PICK sent \in SUBSET ks, f \in ks :
          \/ Publishes(m, Current(m), sent, sent)
          \/ Publishes(m, Current(m), sent \cup {f}, sent)
    BY <1>2
  <2>2. sent \in SUBSET Fresher(m, Current(m)) /\ sent \cup {f} \in SUBSET Fresher(m, Current(m))
    BY DEF Publications
  <2>3. sent \in SUBSET sent /\ sent \in SUBSET (sent \cup {f})
    OBVIOUS
  <2> QED BY <2>1, <2>2, <2>3
<1>5. \A o \in Members : session'[o] = "down" => session[o] = "down"
  BY <1>1, StaysUp
<1>6. /\ latest' = Published(Current(m), all) /\ unsure \cup Misjudged(m, Current(m)) \subseteq unsure'
      /\ cold' = cold
  BY <1>4 DEF Publishes, Appends, Published
<1>7. NormalizerTypes' /\ MemoryInv'
  BY <1>1, <1>3, <1>4, <1>5, PublishRemembered
<1>8. /\ TopicInv'
      /\ \A p \in Parts : \A n \in 1..LogLen : Passed(p, n) /\ n \in done[p] =>
           \A k \in MarketsOf[p] \ unsure' : Covered(p, n, k)'
      /\ ~cold /\ Prepared(m) => \A k \in AllMarkets \ unsure' :
           latest[k] # Nobody => latest'[k].obs >= latest[k].obs
  BY <1>1, <1>3, <1>4, <1>6, PublishCovers
<1>9. CoverInv'
  BY <1>1, <1>8, FailsPasses DEF CoverInv
<1>10. NotOlder
  BY <1>1, <1>6, <1>8 DEF NotOlder
<1> QED BY <1>7, <1>8, <1>9, <1>10 DEF NormalizerInv

-----------------------------------------------------------------------------
(* The end of a process *)

\* A process that is gone takes its memory along, and whatever of its record got to the
\* topic the others are behind on.
LEMMA MemoryLost ==
    ASSUME DeliveryInv, NormalizerInv, NEW m \in Members, Fresh(m), Forgets(m),
           NEW sent \in SUBSET AllMarkets,
           latest' \in [AllMarkets -> Entries \cup {Nobody}],
           \A k \in sent : latest'[k] # Nobody,
           \A k \in AllMarkets \ sent : latest'[k] = latest[k],
           behind' \in [Members -> SUBSET AllMarkets], behind'[m] = {},
           \A o \in Members \ {m} : behind'[o] = IF session[o] = "down" THEN {} ELSE behind[o] \cup sent,
           unsure \subseteq unsure', unsure' \subseteq AllMarkets, cold' = cold
    PROVE  NormalizerTypes' /\ MemoryInv'
<1>1. /\ memory' = [memory EXCEPT ![m] = NoMemory] /\ attempts' = [attempts EXCEPT ![m] = 0]
      /\ warmed' = [warmed EXCEPT ![m] = FALSE] /\ ready' = [ready EXCEPT ![m] = FALSE]
  BY DEF Forgets
<1>2. NoMemory \in [AllMarkets -> Entries \cup {Nobody}] /\ \A k \in AllMarkets : NoMemory[k] = Nobody
  BY DEF NoMemory
<1>3. /\ memory'[m] = NoMemory /\ ~warmed'[m] /\ ~ready'[m]
      /\ \A o \in Members \ {m} :
           memory'[o] = memory[o] /\ warmed'[o] = warmed[o] /\ ready'[o] = ready[o]
  BY <1>1 DEF NormalizerInv, NormalizerTypes
<1>4. session' = [session EXCEPT ![m] = "down"]
  BY DEF Fresh
<1>5. NormalizerTypes'
  <2>1. memory' \in [Members -> [AllMarkets -> Entries \cup {Nobody}]]
    BY <1>1, <1>2 DEF NormalizerInv, NormalizerTypes
  <2>2. warmed' \in [Members -> BOOLEAN] /\ ready' \in [Members -> BOOLEAN]
    BY <1>1 DEF NormalizerInv, NormalizerTypes
  <2>3. 0 \in 0..MaxWarm /\ 0 < MaxWarm
    BY NormalizerAssumption
  <2>4. /\ attempts' \in [Members -> 0..MaxWarm] /\ attempts'[m] = 0
        /\ \A o \in Members \ {m} : attempts'[o] = attempts[o]
    BY <1>1, <2>3 DEF NormalizerInv, NormalizerTypes
  <2>5. \A o \in Members : ~warmed'[o] => attempts'[o] < MaxWarm
    BY <1>3, <2>3, <2>4 DEF NormalizerInv, NormalizerTypes
  <2> QED BY <2>1, <2>2, <2>4, <2>5 DEF NormalizerTypes
<1>6. \A o \in Members : session[o] = "down" =>
          memory[o] = NoMemory /\ behind[o] = {} /\ ~warmed[o] /\ ~ready[o]
  BY DEF NormalizerInv, MemoryInv
<1>7. ASSUME NEW o \in Members \ {m}, session[o] # "down", NEW k \in Known(o)'
      PROVE  k \in Known(o) /\ memory'[o][k] = memory[o][k] /\ latest'[k] = latest[k]
  BY <1>3, <1>7 DEF Known
<1>8. ASSUME NEW o \in Members, NEW k \in Known(o)', memory'[o][k] # Nobody
      PROVE  memory'[o][k] = latest'[k]
  <2>1. k \in AllMarkets
    BY DEF Known
  <2>2. o # m /\ session[o] # "down"
    BY <1>2, <1>3, <1>6, <1>8, <2>1
  <2> QED BY <1>7, <1>8, <2>2 DEF NormalizerInv, MemoryInv
<1>9. ASSUME NEW o \in Members, NEW k \in behind'[o] PROVE latest'[k] # Nobody
  <2>1. k \in sent \/ k \in behind[o]
    OBVIOUS
  <2>2. k \in behind[o] => k \in AllMarkets /\ latest[k] # Nobody
    BY DEF NormalizerInv, NormalizerTypes, MemoryInv
  <2> QED BY <2>1, <2>2
<1>10. ASSUME NEW o \in Members, session'[o] = "down"
       PROVE  memory'[o] = NoMemory /\ behind'[o] = {} /\ ~warmed'[o] /\ ~ready'[o]
  <2>1. CASE o = m
    BY <1>3, <2>1
  <2>2. CASE o # m
    <3>1. session[o] = "down"
      BY <1>4, <1>10, <2>2 DEF DeliveryInv, DeliveryTypes
    <3> QED BY <1>3, <1>6, <2>2, <3>1
  <2> QED BY <2>1, <2>2
<1>11. ASSUME ~cold', NEW o \in Members
       PROVE  /\ ready'[o] => warmed'[o]
              /\ warmed'[o] => \A k \in Known(o)' : memory'[o][k] = latest'[k]
  <2>1. CASE o = m
    BY <1>3, <2>1
  <2>2. CASE o # m
    <3>1. /\ ready[o] => warmed[o]
          /\ warmed[o] => \A k \in Known(o) : memory[o][k] = latest[k]
      BY <1>11 DEF NormalizerInv, MemoryInv
    <3>2. warmed[o] => session[o] # "down"
      BY <1>6
    <3> QED BY <1>3, <1>7, <2>2, <3>1, <3>2
  <2> QED BY <2>1, <2>2
<1>12. MemoryInv'
  BY <1>8, <1>9, <1>10, <1>11 DEF MemoryInv
<1> QED BY <1>5, <1>12

\* A process that is gone in the middle of nothing, or of nothing the topic has.
LEMMA ForgetsKeeps ==
    ASSUME DeliveryInv, NormalizerInv, NEW m \in Members, Closes(m) \/ Crashes(m), Forgets(m),
           behind' = [behind EXCEPT ![m] = {}], UNCHANGED <<latest, cold, unsure>>
    PROVE  NormalizerInv' /\ NotOlder
<1>1. Fresh(m) /\ QuietStep
  BY DEF Closes, Crashes, QuietStep
<1>2. \A p \in Parts : \A n \in 1..LogLen : Passed(p, n)' /\ n \in done'[p] => Passed(p, n) /\ n \in done[p]
  BY <1>1, QuietPasses, QuietDone
<1>3. TopicInv' /\ CoverInv'
  BY <1>2, NothingPublished
<1>4. NormalizerTypes' /\ MemoryInv'
  <2>1. /\ behind' \in [Members -> SUBSET AllMarkets] /\ behind'[m] = {}
        /\ \A o \in Members \ {m} : behind'[o] = behind[o]
    BY DEF NormalizerInv, NormalizerTypes
  <2>2. \A o \in Members : session[o] = "down" => behind[o] = {}
    BY DEF NormalizerInv, MemoryInv
  <2>3. \A o \in Members \ {m} : behind'[o] = IF session[o] = "down" THEN {} ELSE behind[o] \cup {}
    BY <2>1, <2>2
  <2>4. /\ latest' \in [AllMarkets -> Entries \cup {Nobody}] /\ unsure \subseteq unsure'
        /\ unsure' \subseteq AllMarkets /\ cold' = cold
    BY DEF NormalizerInv, NormalizerTypes
  <2>5. {} \in SUBSET AllMarkets /\ \A k \in AllMarkets \ {} : latest'[k] = latest[k]
    OBVIOUS
  <2> QED BY <1>1, <2>1, <2>3, <2>4, <2>5, MemoryLost
<1> QED BY <1>3, <1>4, SameTopic DEF NormalizerInv

LEMMA DiesKeeps ==
    ASSUME DeliveryInv, NormalizerInv, NEW m \in Members, Dies(m)
    PROVE  NormalizerInv' /\ NotOlder
<1>1. Crashes(m) /\ Fresh(m) /\ Forgets(m) /\ QuietStep /\ cold' = cold
  BY DEF Dies, Crashes, QuietStep
<1>2. CASE UNCHANGED <<latest, unsure>> /\ behind' = [behind EXCEPT ![m] = {}]
  BY <1>1, <1>2, ForgetsKeeps
<1>3. CASE /\ Prepared(m)
           /\ \E ks \in Publications(m, Current(m)) : \E sent \in SUBSET ks :
                /\ latest' = Published(Current(m), sent)
                /\ behind' = [n \in Members |->
                                IF n = m \/ session[n] = "down" THEN {} ELSE behind[n] \cup sent]
                /\ unsure' = unsure \cup Misjudged(m, Current(m))
  <2>1. PICK sent \in SUBSET Fresher(m, Current(m)) :
          /\ latest' = Published(Current(m), sent)
          /\ behind' = [n \in Members |->
                          IF n = m \/ session[n] = "down" THEN {} ELSE behind[n] \cup sent]
          /\ unsure' = unsure \cup Misjudged(m, Current(m))
    BY <1>3 DEF Publications
  <2>2. Handling(m)
    BY <1>3 DEF Prepared
  <2>3. PICK p0 \in Parts, n0 \in 1..LogLen : Current(m) = Rec(p0, n0)
    BY <2>2, HeadOfBatch DEF Records, Rec
  <2>4. unsure \cup Misjudged(m, Current(m)) \subseteq unsure'
    BY <2>1
  <2>5. /\ latest' \in [AllMarkets -> Entries \cup {Nobody}]
        /\ \A k \in sent : k \in AllMarkets /\ latest'[k] # Nobody
        /\ \A k \in AllMarkets \ sent : latest'[k] = latest[k]
    BY <2>1, <2>3, PublishTopic
  <2>6. /\ TopicInv'
        /\ \A p \in Parts : \A n \in 1..LogLen : Passed(p, n) /\ n \in done[p] =>
             \A k \in MarketsOf[p] \ unsure' : Covered(p, n, k)'
        /\ ~cold /\ Prepared(m) => \A k \in AllMarkets \ unsure' :
             latest[k] # Nobody => latest'[k].obs >= latest[k].obs
    BY <2>1, <2>2, <2>3, <2>4, PublishCovers
  <2>7. CoverInv'
    BY <1>1, <2>6, QuietPasses, QuietDone DEF CoverInv
  <2>8. NotOlder
    BY <1>1, <1>3, <2>6 DEF NotOlder
  <2>9. NormalizerTypes' /\ MemoryInv'
    <3>1. sent \in SUBSET AllMarkets
      BY <2>5
    <3>2. behind \in [Members -> SUBSET AllMarkets] /\ unsure \subseteq AllMarkets
      BY DEF NormalizerInv, NormalizerTypes
    <3>3. behind' \in [Members -> SUBSET AllMarkets] /\ behind'[m] = {}
      BY <2>1, <3>1, <3>2
    <3>4. \A o \in Members \ {m} : behind'[o] = IF session[o] = "down" THEN {} ELSE behind[o] \cup sent
      BY <2>1
    <3>5. unsure' \subseteq AllMarkets /\ unsure \subseteq unsure'
      <4>1. Misjudged(m, Current(m)) \subseteq AllMarkets
        BY <2>3 DEF Misjudged, AllMarkets, Rec
      <4> QED BY <2>1, <3>2, <4>1
    <3> QED BY <1>1, <2>5, <3>1, <3>3, <3>4, <3>5, MemoryLost
  <2> QED BY <2>6, <2>7, <2>8, <2>9 DEF NormalizerInv
<1> QED BY <1>2, <1>3 DEF Dies, Appends, Published

-----------------------------------------------------------------------------
(* The records of the topic *)

LEMMA TrailPublished ==
    ASSUME NormalizerInv, TrailInv, NEW m \in Members, Handling(m), DeliveryInv,
           NEW ks \in SUBSET Fresher(m, Current(m)), Appends(Current(m), ks)
    PROVE  TrailInv'
<1>1. PICK p0 \in Parts, n0 \in 1..LogLen : Current(m) = Rec(p0, n0)
  BY HeadOfBatch DEF Records, Rec
<1>2. latest' = Published(Current(m), ks)
  BY DEF Appends, Published
<1>3. /\ latest' \in [AllMarkets -> Entries \cup {Nobody}]
      /\ \A k \in ks : k \in AllMarkets /\ latest'[k] # Nobody
      /\ \A k \in AllMarkets \ ks : latest'[k] = latest[k]
  BY <1>1, <1>2, PublishTopic
<1>4. \A k \in ks : ViewOf(Current(m), k) \in Entries
  BY <1>2, <1>3 DEF Published
<1>5. trail' = [k \in AllMarkets |->
                  IF k \in ks THEN trail[k] \cup {ViewOf(Current(m), k)} ELSE trail[k]]
  BY DEF Appends
<1>6. trail' \in [AllMarkets -> SUBSET Entries]
  BY <1>4, <1>5 DEF TrailInv
<1>7. \A k \in AllMarkets : trail'[k] # {} => latest'[k] # Nobody
  BY <1>3, <1>5 DEF TrailInv
<1> QED BY <1>6, <1>7 DEF TrailInv

LEMMA TrailStep ==
    ASSUME DeliveryInv, NormalizerInv, TrailInv, NormalizerNext \/ UNCHANGED feedVars
    PROVE  TrailInv'
<1>1. CASE UNCHANGED <<latest, trail>>
  BY <1>1 DEF TrailInv
<1>2. ASSUME NEW m \in Members, NEW ks \in SUBSET Fresher(m, Current(m)), Prepared(m),
             Appends(Current(m), ks)
      PROVE  TrailInv'
  BY <1>2, TrailPublished DEF Prepared
<1>3. ASSUME NEW m \in Members, Normalizes(m) \/ Breaks(m) PROVE TrailInv'
  <2>1. PICK ks \in SUBSET Fresher(m, Current(m)) : Appends(Current(m), ks)
    BY <1>3 DEF Normalizes, Breaks, Publications, Publishes
  <2> QED BY <1>2, <1>3, <2>1 DEF Normalizes, Breaks
<1>4. ASSUME NEW m \in Members, Dies(m), ~UNCHANGED <<latest, trail>> PROVE TrailInv'
  <2>1. PICK ks \in SUBSET Fresher(m, Current(m)) : Prepared(m) /\ Appends(Current(m), ks)
    BY <1>4 DEF Dies, Publications
  <2> QED BY <1>2, <2>1
<1>5. ASSUME UNCHANGED feedVars \/ UNCHANGED normalizerVars PROVE UNCHANGED <<latest, trail>>
  BY <1>5 DEF feedVars, normalizerVars
<1>6. ASSUME NEW m \in Members, Warms(m) PROVE UNCHANGED <<latest, trail>>
  BY <1>6 DEF Warms
<1> QED BY <1>1, <1>3, <1>4, <1>5, <1>6 DEF NormalizerNext

-----------------------------------------------------------------------------
LEMMA FeedStep ==
    ASSUME DeliveryInv, NormalizerInv, TrailInv, NormalizerNext \/ UNCHANGED feedVars
    PROVE  /\ DeliveryNext \/ UNCHANGED deliveryVars
           /\ NormalizerInv' /\ NotOlder
<1>1. CASE UNCHANGED feedVars
  <2>1. UNCHANGED deliveryVars /\ UNCHANGED normalizerVars
    BY <1>1 DEF feedVars
  <2>2. \A p \in Parts : \A n \in 1..LogLen :
          Passed(p, n)' /\ n \in done'[p] => Passed(p, n) /\ n \in done[p]
    BY <2>1 DEF Passed, deliveryVars, groupVars, memberVars
  <2>3. \A o \in Members : session'[o] = "down" => session[o] = "down"
    BY <2>1 DEF deliveryVars, groupVars
  <2>4. UNCHANGED latest
    BY <2>1 DEF normalizerVars
  <2> QED BY <2>1, <2>2, <2>3, <2>4, NormalizerKept, SameTopic
<1>2. ASSUME NEW m \in Members, (Group(m) \/ Looping(m)) /\ UNCHANGED normalizerVars
      PROVE  DeliveryNext /\ NormalizerInv' /\ NotOlder
  <2>1. QuietStep /\ UNCHANGED latest
    BY <1>2 DEF QuietStep, normalizerVars
  <2>2. \A p \in Parts : \A n \in 1..LogLen :
          Passed(p, n)' /\ n \in done'[p] => Passed(p, n) /\ n \in done[p]
    BY <2>1, QuietPasses, QuietDone
  <2>3. \A o \in Members : session'[o] = "down" => session[o] = "down"
    BY <1>2, StaysUp
  <2>4. DeliveryNext
    BY <1>2 DEF DeliveryNext
  <2> QED BY <1>2, <2>1, <2>2, <2>3, <2>4, NormalizerKept, SameTopic
<1>3. ASSUME NEW m \in Members, Fails(m) /\ UNCHANGED normalizerVars
      PROVE  DeliveryNext /\ NormalizerInv' /\ NotOlder
  <2>1. \A o \in Members : session'[o] = "down" => session[o] = "down"
    BY <1>3, StaysUp
  <2>2. DeliveryNext /\ UNCHANGED latest
    BY <1>3 DEF DeliveryNext, normalizerVars
  <2> QED BY <1>3, <2>1, <2>2, FailsPasses, NormalizerKept, SameTopic
<1>4. ASSUME NEW m \in Members, Warms(m) PROVE UNCHANGED deliveryVars /\ NormalizerInv' /\ NotOlder
  BY <1>4, WarmsKeeps, SameTopic DEF Warms
<1>5. ASSUME NEW m \in Members, Normalizes(m) PROVE DeliveryNext /\ NormalizerInv' /\ NotOlder
  BY <1>5, NormalizesKeeps DEF Normalizes, DeliveryNext
<1>6. ASSUME NEW m \in Members, Breaks(m) PROVE DeliveryNext /\ NormalizerInv' /\ NotOlder
  BY <1>6, BreaksKeeps DEF Breaks, DeliveryNext
<1>7. ASSUME NEW m \in Members, Closes(m), Forgets(m), behind' = [behind EXCEPT ![m] = {}],
             UNCHANGED <<latest, trail, cold, unsure>>
      PROVE  DeliveryNext /\ NormalizerInv' /\ NotOlder
  BY <1>7, ForgetsKeeps DEF DeliveryNext
<1>8. ASSUME NEW m \in Members, Dies(m) PROVE DeliveryNext /\ NormalizerInv' /\ NotOlder
  BY <1>8, DiesKeeps DEF Dies, DeliveryNext
<1> QED BY <1>1, <1>2, <1>3, <1>4, <1>5, <1>6, <1>7, <1>8 DEF NormalizerNext

LEMMA NormalizerInvCorrect == DeliveryInv /\ NormalizerInv /\ TrailInv => FeedCorrect
<1> SUFFICES ASSUME DeliveryInv, NormalizerInv, TrailInv PROVE FeedCorrect
  OBVIOUS
<1>1. NormalizerTypeOK
  BY DEF NormalizerInv, NormalizerTypes, NormalizerTypeOK, MemoryInv, Known, TrailInv
<1>2. TopicCovers
  <2> SUFFICES ASSUME NEW p \in Parts, NEW n \in 1..committed[p] \cap done[p], NEW k \in MarketsOf[p] \ unsure
               PROVE  latest[k] # Nobody /\ (latest[k].obs >= n \/ latest[k].fp = Raw[p][n][k])
    BY DEF TopicCovers
  <2>1. n \in 1..LogLen /\ n <= committed[p]
    BY DEF DeliveryInv, DeliveryTypes
  <2> QED BY <2>1 DEF NormalizerInv, CoverInv, Passed, Covered
<1> QED BY <1>1, <1>2, DeliveryInvCorrect DEF FeedCorrect, NormalizerCorrect

FeedInv == DeliveryInv /\ NormalizerInv /\ TrailInv

\* What the detector promises of the topic, and the consumer of its offsets, at any
\* moment: every record that was handled and committed is on the compacted topic,
\* by what it said or by something as new, through crashes between publication and
\* commit, redelivery to a cold successor, reads of the topic that fail and
\* publications whose answer is lost (emit, ensureWarm, commitPending); of the
\* markets nobody decided about with a memory the topic had overtaken.
THEOREM TopicCorrect == NormalizerSpec => []FeedCorrect
<1>1. NormalizerInit => FeedInv
  BY DeliveryInitial, NormalizerInitial DEF NormalizerInit, FeedInv, TrailInv, NoMemory
<1>2. FeedInv /\ [NormalizerNext]_feedVars => FeedInv'
  BY FeedStep, DeliveryStep, TrailStep DEF FeedInv
<1>3. FeedInv => FeedCorrect
  BY NormalizerInvCorrect DEF FeedInv
<1> QED BY <1>1, <1>2, <1>3, PTL DEF NormalizerSpec

\* And of any step: no commit rewinds, and nothing older is put behind what the topic
\* has by a process that has read all of it.
THEOREM TopicForward == NormalizerSpec => FeedSteps
<1>1. NormalizerInit => FeedInv
  BY DeliveryInitial, NormalizerInitial DEF NormalizerInit, FeedInv, TrailInv, NoMemory
<1>2. FeedInv /\ [NormalizerNext]_feedVars => FeedInv'
  BY FeedStep, DeliveryStep, TrailStep DEF FeedInv
<1>3. FeedInv /\ [NormalizerNext]_feedVars
        => [\A p \in Parts : committed'[p] >= committed[p]]_deliveryVars
  BY FeedStep, DeliveryStep DEF FeedInv
<1>4. FeedInv /\ [NormalizerNext]_feedVars
        => [\A k \in AllMarkets \ unsure' :
              (latest[k] # Nobody /\ ~cold') => latest'[k].obs >= latest[k].obs]_feedVars
  BY FeedStep DEF NotOlder, FeedInv
<1>5. NormalizerSpec => CommitsNeverRewind
  BY <1>1, <1>2, <1>3, PTL DEF NormalizerSpec, CommitsNeverRewind
<1>6. NormalizerSpec => TopicNeverRegresses
  BY <1>1, <1>2, <1>4, PTL DEF NormalizerSpec, TopicNeverRegresses
<1> QED BY <1>5, <1>6 DEF FeedSteps
=============================================================================
