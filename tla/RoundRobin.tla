----------------------------- MODULE RoundRobin -----------------------------
(***************************************************************************)
(* The expansion of a round robin into its tickets (RoundRobin in           *)
(* internal/domain/wager.go): the odometer that lists the combinations of   *)
(* the selections, and the total stake. A combination is the sequence of    *)
(* the selections' positions, from 0.                                       *)
(***************************************************************************)
EXTENDS Money, FiniteSets, Sequences
LOCAL INSTANCE SequencesExt

Packed(k) == [i \in 1 .. k |-> i - 1]

\* The rightmost position below its ceiling, 0 when every one is at it.
Movable(idx, n, k) ==
    LET below == {i \in 1 .. k : idx[i] # n - k + (i - 1)}
    IN IF below = {} THEN 0 ELSE CHOOSE i \in below : \A j \in below : j <= i

\* Variant: the positions to the right are not packed again.
Advanced_Unpacked(idx, n, k) == [idx EXCEPT ![Movable(idx, n, k)] = @ + 1]
Advanced(idx, n, k) ==
    LET i == Movable(idx, n, k) IN
    [j \in 1 .. k |-> IF j < i THEN idx[j] ELSE idx[i] + 1 + (j - i)]

Listed(n, k) ==
    LET step[i \in Nat \ {0}] == IF i = 1 THEN Packed(k) ELSE Advanced(step[i - 1], n, k)
        last == CHOOSE i \in 1 .. (2 ^ n) : Movable(step[i], n, k) = 0
                                            /\ \A j \in 1 .. (i - 1) : Movable(step[j], n, k) # 0
    IN [i \in 1 .. last |-> step[i]]

\* The sizes are sorted and de-duplicated: the set of them, taken in order.
CombinationIndexes(n, sizes) ==
    FlattenSeq([i \in 1 .. Cardinality(sizes) |-> Listed(n, SetToSortSeq(sizes, <)[i])])

TotalStake(stake, n, sizes) == MulInt(stake, Len(CombinationIndexes(n, sizes)))

NewRoundRobin(n, sizes, stake) == n >= 2 /\ sizes # {} /\ (\A k \in sizes : k \in 2 .. n) /\ stake > 0

----------------------------------------------------------------------------
\* The odometer lists every combination of the stated sizes once, sizes in
\* ascending order and each size lexicographically, so that the total stake is
\* the sum of the tickets' stakes (RoundRobin.Combinations, TotalStake).
Before(a, b) ==
    \/ Len(a) < Len(b)
    \/ /\ Len(a) = Len(b)
       /\ \E i \in 1 .. Len(a) : a[i] < b[i] /\ \A j \in 1 .. (i - 1) : a[j] = b[j]

ExpansionExact(n, sizes, stake) ==
    NewRoundRobin(n, sizes, stake) =>
       LET all == CombinationIndexes(n, sizes) IN
       /\ \A i \in 1 .. (Len(all) - 1) : Before(all[i], all[i + 1])
       /\ {ToSet(all[i]) : i \in 1 .. Len(all)}
            = {c \in SUBSET (0 .. (n - 1)) : Cardinality(c) \in sizes}
       /\ TotalStake(stake, n, sizes) = Exactly(stake * Len(all))
=============================================================================
