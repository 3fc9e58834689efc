---------------------------- MODULE StoresProofs ----------------------------
(***************************************************************************)
(* Proofs about state that concurrent callers write a transaction, a script *)
(* or a record at a time: the limits of Limits.tla, for any number of        *)
(* changes; the catalogue and the prices of LineWriter.tla, for any feed and *)
(* any writers; a walk through the listings of Pages.tla while rows move;    *)
(* the price topic of Pricer.tla, for any pricers; the subscriptions of      *)
(* Presence.tla, for any connections, sessions and replicas; the copies of a *)
(* ticket, its row and the ledger of Tickets.tla, for any slips; and the     *)
(* arithmetic of Money.tla, for any word.                                    *)
(***************************************************************************)
EXTENDS Limits, LineWriter, Pages, Pricer, Presence, Tickets, FiniteSetTheorems, SequenceTheorems, TLAPS

(* Limits *)

LimitRows == [cap : Caps, asked : Nat, from : Nat, closed : Nat]
Requests == [at : {"rest", "read", "close", "insert", "commit"}, cap : Caps \cup {Removed},
             asked : Nat, seen : Nat]
AuditEntries == [before : Nat, after : Nat]

LimitTypes ==
    /\ clock \in 0 .. MaxClock /\ asked \in 0 .. MaxChanges
    /\ history \in Seq(LimitRows)
    /\ trail \in Seq(AuditEntries)
    /\ \A n \in DOMAIN trail : trail[n].before <= Len(history) /\ trail[n].after <= Len(history)
    /\ change \in [Changers -> Requests]
    /\ \A c \in Changers : change[c].seen <= Len(history)

\* A row that is locked is open, and locked once; a transaction that is about to
\* add a row has waited for every other to be done with the index and the row.
LockInv ==
    /\ \A c \in Changers : change[c].at = "close" => change[c].seen # 0
    /\ \A c \in Changers : Locks(c) \subseteq Unclosed
    /\ \A c \in Changers : change[c].at = "insert" /\ IsRemoval(c) => change[c].seen = 0
    /\ \A c, d \in Changers : c # d => Locks(c) \cap Locks(d) = {}
    /\ \A c \in Changers : Enters(c) =>
          /\ Unclosed \subseteq {change[c].seen}
          /\ \A d \in Others(c) : ~Enters(d) /\ Locks(d) = {}

\* The changes before an entry of the trail have a last one, if there are any.
Before(n) == {m \in Changing : m < n}
LastInv ==
    \A n \in 1 .. Len(trail) + 1 :
        Before(n) = {} \/ \E m \in Before(n) : \A k \in Before(n) : k <= m

LimitsInv == LimitTypes /\ LockInv /\ LastInv /\ TrailIsHistory /\ DecidedOnWhatItReplaced

LEMMA LimitsInitial == LimitsInit => LimitsInv
<1> SUFFICES ASSUME LimitsInit PROVE LimitsInv
  OBVIOUS
<1>1. history = <<>> /\ trail = <<>> /\ clock = 0 /\ asked = 0 /\ change = [c \in Changers |-> Resting]
  BY DEF LimitsInit
<1>2. Resting \in Requests /\ Resting.at = "rest" /\ Resting.seen = 0
  BY DEF Resting, Requests
<1>3. \A c \in Changers : change[c] = Resting
  BY <1>1
<1>4. LimitTypes
  BY <1>1, <1>2, <1>3, LimitsAssumption DEF LimitTypes
<1>5. Unclosed = {} /\ Changing = {} /\ \A c \in Changers : Locks(c) = {} /\ ~Enters(c)
  BY <1>1, <1>2, <1>3 DEF Unclosed, Changing, Locks, Enters
<1>6. LockInv
  BY <1>2, <1>3, <1>5 DEF LockInv
<1>7. LastInv /\ TrailIsHistory /\ DecidedOnWhatItReplaced
  BY <1>1, <1>5 DEF LastInv, Before, TrailIsHistory, Left, DecidedOnWhatItReplaced
<1> QED BY <1>4, <1>6, <1>7 DEF LimitsInv

\* What the trail says is about the tables only.
LEMMA TrailKept ==
    ASSUME LimitsInv, UNCHANGED <<history, trail>>
    PROVE  (LastInv /\ TrailIsHistory /\ DecidedOnWhatItReplaced)' /\ Unclosed' = Unclosed
<1>1. Changing' = Changing /\ Unclosed' = Unclosed
  BY DEF Changing, Unclosed
<1>2. LastInv'
  BY <1>1 DEF LimitsInv, LastInv, Before
<1>3. \A n : Left(n)' = Left(n)
  BY <1>1 DEF Left
<1>4. TrailIsHistory'
  BY <1>1, <1>3 DEF LimitsInv, TrailIsHistory
<1>5. DecidedOnWhatItReplaced'
  BY DEF LimitsInv, DecidedOnWhatItReplaced
<1> QED BY <1>1, <1>2, <1>4, <1>5

\* The types of a request that has got further.
LEMMA RequestKept ==
    ASSUME LimitsInv, NEW c \in Changers, NEW r \in Requests, r.seen <= Len(history),
           change' = [change EXCEPT ![c] = r], UNCHANGED <<history, trail>>,
           clock' \in 0 .. MaxClock, asked' \in 0 .. MaxChanges
    PROVE  /\ LimitTypes' /\ change'[c] = r
           /\ \A d \in Changers \ {c} : change'[d] = change[d]
<1>1. change' \in [Changers -> Requests] /\ change'[c] = r
      /\ \A d \in Changers \ {c} : change'[d] = change[d]
  BY DEF LimitsInv, LimitTypes
<1> QED BY <1>1 DEF LimitsInv, LimitTypes

\* One open limit, or none, and which it is.
LEMMA OpenIsLast ==
    ASSUME LimitsInv
    PROVE  \A i \in Unclosed : i # 0 /\ i \in DOMAIN history /\ \A j \in Unclosed : j = i
BY DEF LimitsInv, TrailIsHistory, Unclosed

\* A request that locks nothing and enters nothing waits for nobody.
LEMMA LocksNothing ==
    ASSUME LimitsInv, NEW c \in Changers, NEW r \in Requests, r.seen <= Len(history),
           change' = [change EXCEPT ![c] = r], UNCHANGED <<history, trail>>,
           clock' \in 0 .. MaxClock, asked' \in 0 .. MaxChanges,
           \/ r.at \in {"rest", "read"}
           \/ r.at = "close" /\ r.seen # 0
           \/ r.at = "insert" /\ r.seen = 0
           \/ r.at = "commit" /\ r.seen = 0 /\ r.cap = Removed
    PROVE  LimitsInv'
<1>1. LimitTypes' /\ change'[c] = r /\ \A d \in Changers \ {c} : change'[d] = change[d]
  BY RequestKept
<1>2. (LastInv /\ TrailIsHistory /\ DecidedOnWhatItReplaced)' /\ Unclosed' = Unclosed
  BY TrailKept
<1>3. Locks(c)' = {} /\ ~Enters(c)'
  BY <1>1 DEF Locks, Enters, IsRemoval
<1>4. \A d \in Changers \ {c} : Locks(d)' = Locks(d) /\ Enters(d)' = Enters(d)
  BY <1>1 DEF Locks, Enters, IsRemoval
<1>5. LockInv'
  <2>1. \A d \in Changers : change'[d].at = "close" => change'[d].seen # 0
    BY <1>1 DEF LimitsInv, LockInv
  <2>2. \A d \in Changers : Locks(d)' \subseteq Unclosed'
    BY <1>2, <1>3, <1>4 DEF LimitsInv, LockInv
  <2>3. \A d \in Changers : change'[d].at = "insert" /\ IsRemoval(d)' => change'[d].seen = 0
    BY <1>1 DEF LimitsInv, LockInv, IsRemoval
  <2>4. \A d, e \in Changers : d # e => Locks(d)' \cap Locks(e)' = {}
    BY <1>3, <1>4 DEF LimitsInv, LockInv
  <2>5. \A d \in Changers : Enters(d)' =>
          /\ Unclosed' \subseteq {change'[d].seen}
          /\ \A e \in Others(d) : ~Enters(e)' /\ Locks(e)' = {}
    <3> SUFFICES ASSUME NEW d \in Changers, Enters(d)'
                 PROVE  /\ Unclosed' \subseteq {change'[d].seen}
                        /\ \A e \in Others(d) : ~Enters(e)' /\ Locks(e)' = {}
      OBVIOUS
    <3>1. d # c /\ Enters(d) /\ change'[d] = change[d]
      BY <1>1, <1>3, <1>4
    <3>2. Unclosed \subseteq {change[d].seen} /\ \A e \in Others(d) : ~Enters(e) /\ Locks(e) = {}
      BY <3>1 DEF LimitsInv, LockInv
    <3> QED BY <1>2, <1>3, <1>4, <3>1, <3>2 DEF Others
  <2>6. \A d \in Changers : Others(d)' = Others(d)
    BY DEF Others
  <2> QED BY <2>1, <2>2, <2>3, <2>4, <2>5, <2>6 DEF LockInv
<1> QED BY <1>1, <1>2, <1>5 DEF LimitsInv

LEMMA AsksForKeeps ==
    ASSUME LimitsInv, NEW c \in Changers, NEW cap \in Caps \cup {Removed}, AsksFor(c, cap)
    PROVE  LimitsInv'
<1> DEFINE r == [at |-> "read", cap |-> cap, asked |-> clock, seen |-> 0]
<1>1. clock \in Nat /\ clock' \in 0 .. MaxClock /\ asked' \in 0 .. MaxChanges /\ Len(history) >= 0
  BY LimitsAssumption DEF AsksFor, LimitsInv, LimitTypes
<1>2. r \in Requests /\ r.at = "read" /\ r.seen = 0
  BY <1>1 DEF Requests
<1>3. change' = [change EXCEPT ![c] = r] /\ UNCHANGED <<history, trail>>
  BY DEF AsksFor
<1> HIDE DEF r
<1> QED BY <1>1, <1>2, <1>3, LocksNothing

LEMMA ReadsOpenKeeps ==
    ASSUME LimitsInv, NEW c \in Changers, ReadsOpen(c)
    PROVE  LimitsInv'
<1>1. /\ change[c] \in Requests /\ Len(history) \in Nat /\ UNCHANGED <<history, trail>>
      /\ clock' \in 0 .. MaxClock /\ asked' \in 0 .. MaxChanges
  BY DEF ReadsOpen, LimitsInv, LimitTypes
<1>2. CASE Unclosed = {}
  <2> DEFINE r == [change[c] EXCEPT !.seen = 0, !.at = "insert"]
  <2>1. r \in Requests /\ r.seen = 0 /\ r.at = "insert"
    BY <1>1 DEF Requests
  <2>2. change' = [change EXCEPT ![c] = r]
    BY <1>2 DEF ReadsOpen
  <2> HIDE DEF r
  <2>3. r.seen <= Len(history)
    BY <1>1, <2>1
  <2> QED BY <1>1, <2>1, <2>2, <2>3, LocksNothing
<1>3. CASE Unclosed # {}
  <2>1. PICK i \in Unclosed :
          change' = [change EXCEPT ![c].seen = i, ![c].at = "close"]
    BY <1>3 DEF ReadsOpen
  <2> DEFINE r == [change[c] EXCEPT !.seen = i, !.at = "close"]
  <2>2. i \in DOMAIN history /\ history \in Seq(LimitRows)
    BY DEF Unclosed, LimitsInv, LimitTypes
  <2>3. i \in Nat /\ i # 0 /\ i <= Len(history)
    BY <2>2
  <2>4. r \in Requests /\ r.seen = i /\ r.at = "close"
    BY <1>1, <2>3 DEF Requests
  <2>5. change' = [change EXCEPT ![c] = r]
    BY <2>1
  <2> HIDE DEF r
  <2> QED BY <1>1, <2>3, <2>4, <2>5, LocksNothing
<1> QED BY <1>2, <1>3

\* The row is still open and nobody has locked it: it is locked now.  A request
\* about to add a row holds the only open one, so there is none to lock.
LEMMA ClosesKeeps ==
    ASSUME LimitsInv, NEW c \in Changers, Closes(c)
    PROVE  LimitsInv'
<1> DEFINE r(at) == [change[c] EXCEPT !.at = at]
<1>1. /\ change[c] \in Requests /\ change[c].at = "close" /\ change[c].seen # 0
      /\ change[c].seen <= Len(history) /\ UNCHANGED <<history, trail>>
      /\ clock' \in 0 .. MaxClock /\ asked' \in 0 .. MaxChanges
      /\ \A d \in Others(c) : change[c].seen \notin Locks(d)
  BY DEF Closes, LimitsInv, LimitTypes, LockInv
<1>2. \A at \in {"rest", "insert", "commit"} :
        r(at) \in Requests /\ r(at).at = at /\ r(at).seen = change[c].seen /\ r(at).cap = change[c].cap
  BY <1>1 DEF Requests
<1>3. CASE To(c, "rest")
  <2>1. change' = [change EXCEPT ![c] = r("rest")]
    BY <1>3 DEF To
  <2> HIDE DEF r
  <2> QED BY <1>1, <1>2, <2>1, LocksNothing
<1>4. ASSUME ~Overtaken(c), NEW at \in {"insert", "commit"}, To(c, at), at = "commit" <=> IsRemoval(c)
      PROVE  LimitsInv'
  <2>1. change' = [change EXCEPT ![c] = r(at)]
    BY <1>4 DEF To
  <2> HIDE DEF r
  <2>2. LimitTypes' /\ change'[c] = r(at) /\ \A d \in Changers \ {c} : change'[d] = change[d]
    BY <1>1, <1>2, <2>1, RequestKept
  <2>3. (LastInv /\ TrailIsHistory /\ DecidedOnWhatItReplaced)' /\ Unclosed' = Unclosed
    BY <1>1, TrailKept
  <2>4. Locks(c)' = {change[c].seen} /\ ~Enters(c)' /\ change[c].seen \in Unclosed /\ Locks(c) = {}
    <3>1. change'[c].at = at /\ change'[c].seen = change[c].seen /\ change'[c].cap = change[c].cap
      BY <1>2, <2>2
    <3>2. Locks(c)' = {change[c].seen} /\ ~Enters(c)'
      BY <1>1, <1>4, <3>1 DEF Locks, Enters, IsRemoval
    <3>3. change[c].seen \in DOMAIN history
      BY <1>1 DEF Requests, LimitsInv, LimitTypes
    <3>4. change[c].seen \in Unclosed
      BY <1>4, <3>3 DEF Overtaken, Unclosed
    <3> QED BY <1>1, <3>2, <3>4 DEF Locks
  <2>5. \A d \in Changers \ {c} : Locks(d)' = Locks(d) /\ Enters(d)' = Enters(d)
    BY <2>2 DEF Locks, Enters, IsRemoval
  <2>6. \A d \in Changers \ {c} : change[c].seen \notin Locks(d)
    BY <1>1 DEF Others
  <2>7. \A d \in Changers \ {c} : ~Enters(d)
    <3> SUFFICES ASSUME NEW d \in Changers \ {c}, Enters(d) PROVE FALSE
      OBVIOUS
    <3>1. change[c].seen = change[d].seen
      BY <2>4 DEF LimitsInv, LockInv
    <3>2. change[d].at = "commit" /\ change[d].seen \in Locks(d)
      BY <1>1, <3>1 DEF Enters, Locks
    <3> QED BY <2>6, <3>1, <3>2
  <2>8. LockInv'
    <3>1. \A d \in Changers : change'[d].at = "close" => change'[d].seen # 0
      BY <1>1, <1>2, <2>2 DEF LimitsInv, LockInv
    <3>2. \A d \in Changers : Locks(d)' \subseteq Unclosed'
      BY <2>3, <2>4, <2>5 DEF LimitsInv, LockInv
    <3>3. \A d \in Changers : change'[d].at = "insert" /\ IsRemoval(d)' => change'[d].seen = 0
      BY <1>2, <1>4, <2>2 DEF LimitsInv, LockInv, IsRemoval
    <3>4. \A d, e \in Changers : d # e => Locks(d)' \cap Locks(e)' = {}
      BY <2>4, <2>5, <2>6 DEF LimitsInv, LockInv
    <3>5. \A d \in Changers : ~Enters(d)'
      BY <2>4, <2>5, <2>7
    <3> QED BY <3>1, <3>2, <3>3, <3>4, <3>5 DEF LockInv
  <2> QED BY <2>2, <2>3, <2>8 DEF LimitsInv
<1>5. CASE ~Overtaken(c) /\ IsRemoval(c) /\ To(c, "commit")
  BY <1>4, <1>5
<1>6. CASE ~Overtaken(c) /\ ~IsRemoval(c) /\ To(c, "insert")
  BY <1>4, <1>6
<1> QED BY <1>3, <1>5, <1>6 DEF Closes

LEMMA InsertsRowKeeps ==
    ASSUME LimitsInv, NEW c \in Changers, InsertsRow(c)
    PROVE  LimitsInv'
<1> DEFINE r(at) == [change[c] EXCEPT !.at = at]
<1>1. /\ change[c] \in Requests /\ change[c].at = "insert"
      /\ change[c].seen <= Len(history) /\ UNCHANGED <<history, trail>>
      /\ clock' \in 0 .. MaxClock /\ asked' \in 0 .. MaxChanges
  BY DEF InsertsRow, LimitsInv, LimitTypes
<1>2. \A at \in {"rest", "commit"} :
        r(at) \in Requests /\ r(at).at = at /\ r(at).seen = change[c].seen /\ r(at).cap = change[c].cap
  BY <1>1 DEF Requests
<1>3. CASE To(c, "rest")
  <2>1. change' = [change EXCEPT ![c] = r("rest")]
    BY <1>3 DEF To
  <2> HIDE DEF r
  <2> QED BY <1>1, <1>2, <2>1, LocksNothing
<1>4. CASE To(c, "commit") /\ IsRemoval(c)
  <2>1. change' = [change EXCEPT ![c] = r("commit")]
    BY <1>4 DEF To
  <2>2. change[c].seen = 0 /\ change[c].cap = Removed
    BY <1>1, <1>4 DEF LimitsInv, LockInv, IsRemoval
  <2> HIDE DEF r
  <2> QED BY <1>1, <1>2, <2>1, <2>2, LocksNothing
<1>5. CASE /\ To(c, "commit") /\ ~IsRemoval(c) /\ ~Occupied(c)
           /\ \A d \in Others(c) : ~Enters(d) /\ Locks(d) = {}
  <2>1. change' = [change EXCEPT ![c] = r("commit")]
    BY <1>5 DEF To
  <2> HIDE DEF r
  <2>2. LimitTypes' /\ change'[c] = r("commit") /\ \A d \in Changers \ {c} : change'[d] = change[d]
    BY <1>1, <1>2, <2>1, RequestKept
  <2>3. (LastInv /\ TrailIsHistory /\ DecidedOnWhatItReplaced)' /\ Unclosed' = Unclosed
    BY <1>1, TrailKept
  <2>4. /\ change'[c].at = "commit" /\ change'[c].seen = change[c].seen /\ change'[c].cap = change[c].cap
    BY <1>2, <2>2
  <2>5. Locks(c)' = Locks(c)
    BY <1>1, <2>4 DEF Locks
  <2>6. \A d \in Changers \ {c} : Locks(d)' = {} /\ ~Enters(d)' /\ Locks(d) = {}
    BY <1>5, <2>2 DEF Locks, Enters, IsRemoval, Others
  <2>7. LockInv'
    <3>1. \A d \in Changers : change'[d].at = "close" => change'[d].seen # 0
      BY <2>2, <2>4 DEF LimitsInv, LockInv
    <3>2. \A d \in Changers : Locks(d)' \subseteq Unclosed'
      BY <2>3, <2>5, <2>6 DEF LimitsInv, LockInv
    <3>3. \A d \in Changers : change'[d].at = "insert" /\ IsRemoval(d)' => change'[d].seen = 0
      BY <2>2, <2>4 DEF LimitsInv, LockInv, IsRemoval
    <3>4. \A d, e \in Changers : d # e => Locks(d)' \cap Locks(e)' = {}
      BY <2>6
    <3>5. \A d \in Changers : Enters(d)' => d = c
      BY <2>6
    <3>6. Unclosed' \subseteq {change'[c].seen}
      BY <1>5, <2>3, <2>4 DEF Occupied
    <3>7. \A d \in Others(c)' : ~Enters(d)' /\ Locks(d)' = {}
      BY <2>6 DEF Others
    <3> QED BY <3>1, <3>2, <3>3, <3>4, <3>5, <3>6, <3>7 DEF LockInv
  <2> QED BY <2>2, <2>3, <2>7 DEF LimitsInv
<1> QED BY <1>3, <1>4, <1>5 DEF InsertsRow

LEMMA AbandonsKeeps ==
    ASSUME LimitsInv, NEW c \in Changers, Abandons(c)
    PROVE  LimitsInv'
<1>1. /\ Len(history) \in Nat /\ UNCHANGED <<history, trail>> /\ change' = [change EXCEPT ![c] = Resting]
      /\ clock' \in 0 .. MaxClock /\ asked' \in 0 .. MaxChanges
  BY DEF Abandons, LimitsInv, LimitTypes
<1>2. Resting \in Requests /\ Resting.at = "rest" /\ Resting.seen <= Len(history)
  BY <1>1 DEF Resting, Requests
<1> QED BY <1>1, <1>2, LocksNothing

LEMMA ClockKeeps ==
    ASSUME LimitsInv, UNCHANGED <<history, trail, change, asked>>, clock' \in 0 .. MaxClock
    PROVE  LimitsInv'
<1>1. (LastInv /\ TrailIsHistory /\ DecidedOnWhatItReplaced)' /\ Unclosed' = Unclosed
  BY TrailKept
<1>2. LimitTypes'
  BY DEF LimitsInv, LimitTypes
<1>3. \A d \in Changers : Locks(d)' = Locks(d) /\ Enters(d)' = Enters(d) /\ IsRemoval(d)' = IsRemoval(d)
                          /\ Others(d)' = Others(d)
  BY DEF Locks, Enters, IsRemoval, Others
<1>4. LockInv'
  <2>1. \A d \in Changers : Enters(d)' =>
          /\ Unclosed' \subseteq {change'[d].seen}
          /\ \A e \in Others(d)' : ~Enters(e)' /\ Locks(e)' = {}
    BY <1>1, <1>3 DEF LimitsInv, LockInv, Others
  <2>2. \A d \in Changers : Locks(d)' \subseteq Unclosed'
    BY <1>1, <1>3 DEF LimitsInv, LockInv
  <2>3. \A d, e \in Changers : d # e => Locks(d)' \cap Locks(e)' = {}
    BY <1>3 DEF LimitsInv, LockInv
  <2> QED BY <1>3, <2>1, <2>2, <2>3 DEF LimitsInv, LockInv
<1> QED BY <1>1, <1>2, <1>4 DEF LimitsInv

-----------------------------------------------------------------------------
(* The commit *)

\* The row a transaction that commits has read is the open one, or there is none.
LEMMA ReplacesLast ==
    ASSUME LimitsInv, NEW c \in Changers, change[c].at = "commit"
    PROVE  /\ change[c].seen # 0 => Unclosed = {change[c].seen}
           /\ ~IsRemoval(c) => Unclosed = {change[c].seen} \ {0}
           /\ change[c].seen \in Nat
<1>1. change[c].seen \in Nat
  BY DEF LimitsInv, LimitTypes, Requests
<1>2. change[c].seen # 0 => change[c].seen \in Unclosed
  BY DEF LimitsInv, LockInv, Locks
<1>3. change[c].seen # 0 => Unclosed = {change[c].seen}
  BY <1>2, OpenIsLast
<1>4. ~IsRemoval(c) => Unclosed \subseteq {change[c].seen}
  BY DEF LimitsInv, LockInv, Enters
<1>5. 0 \notin Unclosed
  BY OpenIsLast
<1> QED BY <1>1, <1>3, <1>4, <1>5

\* The tables after the commit of c.
LEMMA CommitWrites ==
    ASSUME LimitsInv, NEW c \in Changers, CommitsChange(c)
    PROVE  /\ history' \in Seq(LimitRows)
           /\ Len(history') = IF IsRemoval(c) THEN Len(history) ELSE Len(history) + 1
           /\ \A i \in DOMAIN history :
                /\ i \in DOMAIN history' /\ history'[i].cap = history[i].cap
                /\ history'[i].asked = history[i].asked /\ history'[i].from = history[i].from
                /\ history'[i].closed = 0 <=> (history[i].closed = 0 /\ i # change[c].seen)
           /\ ~IsRemoval(c) => history'[Len(history) + 1] = NewRow(c)
           /\ change[c] \in Requests /\ change[c].at = "commit"
<1>1. /\ change[c] \in Requests /\ change[c].at = "commit" /\ history \in Seq(LimitRows)
      /\ DOMAIN history = 1 .. Len(history) /\ Len(history) \in Nat
      /\ change[c].asked \in Nat /\ change[c].seen \in Nat
      /\ \A i \in DOMAIN history : history[i] \in LimitRows
  BY DEF CommitsChange, LimitsInv, LimitTypes, Requests
<1> DEFINE w == WithClosed(c)
           line(i) == IF i = change[c].seen /\ history[i].closed = 0
                     THEN [history[i] EXCEPT !.closed = change[c].asked + 1] ELSE history[i]
<1>2. \A i \in DOMAIN history :
        /\ line(i) \in LimitRows /\ line(i).cap = history[i].cap /\ line(i).asked = history[i].asked
        /\ line(i).from = history[i].from
        /\ line(i).closed = 0 <=> (history[i].closed = 0 /\ i # change[c].seen)
  <2> SUFFICES ASSUME NEW i \in DOMAIN history
               PROVE  /\ line(i) \in LimitRows /\ line(i).cap = history[i].cap /\ line(i).asked = history[i].asked
                      /\ line(i).from = history[i].from
                      /\ line(i).closed = 0 <=> (history[i].closed = 0 /\ i # change[c].seen)
    OBVIOUS
  <2>1. CASE i = change[c].seen /\ history[i].closed = 0
    <3>1. line(i) = [history[i] EXCEPT !.closed = change[c].asked + 1]
      BY <2>1
    <3>2. change[c].asked + 1 \in Nat /\ change[c].asked + 1 # 0
      BY <1>1
    <3> HIDE DEF line
    <3> QED BY <1>1, <2>1, <3>1, <3>2 DEF LimitRows
  <2>2. CASE ~(i = change[c].seen /\ history[i].closed = 0)
    <3>1. line(i) = history[i]
      BY <2>2
    <3> HIDE DEF line
    <3> QED BY <1>1, <2>2, <3>1
  <2> QED BY <2>1, <2>2
<1>0. w = [i \in 1 .. Len(history) |-> line(i)]
  BY <1>1 DEF WithClosed
<1> HIDE DEF line
<1>3. /\ w \in Seq(LimitRows) /\ Len(w) = Len(history) /\ DOMAIN w = DOMAIN history
      /\ \A i \in DOMAIN history : w[i] = line(i)
  <2> HIDE DEF w
  <2> QED BY <1>0, <1>1, <1>2
<1>4. CASE IsRemoval(c)
  <2>1. history' = w
    BY <1>4 DEF CommitsChange
  <2> HIDE DEF w
  <2> QED BY <1>1, <1>2, <1>3, <1>4, <2>1
<1>5. CASE ~IsRemoval(c)
  <2>1. history' = Append(w, NewRow(c))
    BY <1>5 DEF CommitsChange
  <2>2. NewRow(c) \in LimitRows
    BY <1>1, <1>5, LimitsAssumption DEF NewRow, LimitRows, Requests, IsRemoval
  <2> HIDE DEF w
  <2>3. /\ history' \in Seq(LimitRows) /\ Len(history') = Len(history) + 1
        /\ DOMAIN history' = 1 .. Len(history) + 1
        /\ \A i \in DOMAIN history : history'[i] = w[i]
        /\ history'[Len(history) + 1] = NewRow(c)
    BY <1>1, <1>3, <2>1, <2>2
  <2>4. \A i \in DOMAIN history : i \in DOMAIN history'
    BY <1>1, <2>3
  <2> QED BY <1>1, <1>2, <1>3, <1>5, <2>3, <2>4
<1> QED BY <1>4, <1>5

LEMMA CommitTrails ==
    ASSUME LimitsInv, NEW c \in Changers, CommitsChange(c)
    PROVE  LET N == Len(trail) + 1 IN
           /\ trail' \in Seq(AuditEntries) /\ Len(trail') = N /\ N \in Nat
           /\ DOMAIN trail = 1 .. Len(trail) /\ DOMAIN trail' = 1 .. N
           /\ \A n \in DOMAIN trail : trail'[n] = trail[n]
           /\ trail'[N].before = change[c].seen
           /\ trail'[N].after = IF IsRemoval(c) THEN 0 ELSE Len(history) + 1
<1>1. change[c].seen \in Nat /\ Len(history) \in Nat /\ trail \in Seq(AuditEntries)
  BY DEF LimitsInv, LimitTypes, Requests
<1> DEFINE e == [before |-> change[c].seen, after |-> IF IsRemoval(c) THEN 0 ELSE Len(history) + 1]
<1>2. /\ e \in AuditEntries /\ e.before = change[c].seen
      /\ e.after = IF IsRemoval(c) THEN 0 ELSE Len(history) + 1
  BY <1>1 DEF AuditEntries
<1>3. trail' = Append(trail, e)
  BY DEF CommitsChange
<1> HIDE DEF e
<1> QED BY <1>1, <1>2, <1>3

\* What the changes before an entry left is what the last of them left.
Latest(n) == CHOOSE m \in Before(n) : \A k \in Before(n) : k <= m

LEMMA LeftByLatest ==
    ASSUME NEW n, NEW m \in Before(n), \A k \in Before(n) : k <= m, Before(n) \subseteq Nat
    PROVE  Left(n) = trail[m].after
<1>1. Left(n) = trail[Latest(n)].after
  BY DEF Left, Before, Latest
<1>2. Latest(n) \in Before(n) /\ \A k \in Before(n) : k <= Latest(n)
  BY DEF Latest
<1>3. Latest(n) = m
  BY <1>2
<1> QED BY <1>1, <1>3

LEMMA LeftByNone ==
    ASSUME NEW n, Before(n) = {}
    PROVE  Left(n) = 0
BY DEF Left, Before

\* An entry leaves what is said of the ones before it as it was.
LEMMA CommitKeepsTrail ==
    ASSUME LimitsInv, NEW c \in Changers, CommitsChange(c), NEW N, N = Len(trail) + 1
    PROVE  /\ Changing' = Changing \cup (IF IsRemoval(c) /\ change[c].seen = 0 THEN {} ELSE {N})
           /\ Changing \subseteq 1 .. N - 1 /\ N \in Nat
           /\ \A n \in 1 .. N : Before(n)' = Before(n) /\ Left(n)' = Left(n) /\ Before(n) \subseteq Nat
           /\ Before(N) = Changing
<1>1. /\ trail' \in Seq(AuditEntries) /\ N \in Nat /\ trail \in Seq(AuditEntries) /\ Len(trail) = N - 1
      /\ DOMAIN trail = 1 .. N - 1 /\ DOMAIN trail' = 1 .. N
      /\ \A n \in DOMAIN trail : trail'[n] = trail[n]
      /\ trail'[N].before = change[c].seen
      /\ trail'[N].after = IF IsRemoval(c) THEN 0 ELSE Len(history) + 1
  BY CommitTrails DEF LimitsInv, LimitTypes
<1>2. Len(history) + 1 # 0
  BY DEF LimitsInv, LimitTypes
<1>3. Changing' = {n \in 1 .. N : trail'[n].before # 0 \/ trail'[n].after # 0}
  BY <1>1 DEF Changing
<1>4. Changing = {n \in 1 .. N - 1 : trail'[n].before # 0 \/ trail'[n].after # 0}
  BY <1>1 DEF Changing
<1>5. trail'[N].before # 0 \/ trail'[N].after # 0 <=> ~(IsRemoval(c) /\ change[c].seen = 0)
  BY <1>1, <1>2
<1>6. Changing' = Changing \cup (IF IsRemoval(c) /\ change[c].seen = 0 THEN {} ELSE {N})
  BY <1>1, <1>3, <1>4, <1>5
<1>7. Changing \subseteq 1 .. N - 1
  BY <1>4
<1>8. \A n \in 1 .. N : Before(n)' = Before(n) /\ Before(n) \subseteq Nat /\ Before(n) \subseteq DOMAIN trail
  <2>1. \A m \in Changing : m \in Nat /\ m < N /\ m \in DOMAIN trail
    BY <1>1, <1>7
  <2>2. ASSUME NEW n \in 1 .. N PROVE {m \in Changing' : m < n} = {m \in Changing : m < n}
    <3>1. ~(N < n)
      BY <1>1, <2>2
    <3> HIDE DEF Changing
    <3> QED BY <1>6, <3>1
  <2>3. \A n \in 1 .. N : Before(n)' = {m \in Changing' : m < n} /\ Before(n) = {m \in Changing : m < n}
    BY DEF Before
  <2> QED BY <2>1, <2>2, <2>3
<1>9. Before(N) = Changing
  <2>1. \A m \in Changing : m < N
    BY <1>1, <1>7
  <2> QED BY <2>1 DEF Before
<1>10. ASSUME NEW n \in 1 .. N PROVE Left(n)' = Left(n)
  <2>1. CASE Before(n) = {}
    <3>1. Before(n)' = {}
      BY <1>8, <2>1
    <3>2. Left(n)' = 0
      BY <3>1 DEF Left, Before
    <3> QED BY <2>1, <3>2, LeftByNone
  <2>2. CASE Before(n) # {}
    <3>1. n \in 1 .. Len(trail) + 1
      BY <1>1
    <3>2. PICK m \in Before(n) : \A k \in Before(n) : k <= m
      BY <2>2, <3>1 DEF LimitsInv, LastInv
    <3>3. Left(n) = trail[m].after
      BY <1>8, <3>2, LeftByLatest
    <3>4. Left(n)' = trail'[Latest(n)'].after
      BY <1>8, <2>2 DEF Left, Before, Latest
    <3>5. Latest(n)' = Latest(n)
      BY <1>8 DEF Latest
    <3>6. Latest(n) \in Before(n) /\ \A k \in Before(n) : k <= Latest(n)
      BY <3>2 DEF Latest
    <3>7. Latest(n) = m
      BY <1>8, <3>2, <3>6
    <3>8. trail'[m] = trail[m]
      BY <1>1, <1>8, <3>2
    <3> QED BY <3>3, <3>4, <3>5, <3>7, <3>8
  <2> QED BY <2>1, <2>2
<1> QED BY <1>1, <1>6, <1>7, <1>8, <1>9, <1>10

LEMMA CommitKeeps ==
    ASSUME LimitsInv, NEW c \in Changers, CommitsChange(c)
    PROVE  LimitsInv'
<1> DEFINE removal == IsRemoval(c)
           seen == change[c].seen
<1>1. PICK N : N = Len(trail) + 1
  OBVIOUS
<1>2. /\ trail' \in Seq(AuditEntries) /\ Len(trail') = N /\ N \in Nat \ {0}
      /\ DOMAIN trail = 1 .. N - 1 /\ DOMAIN trail' = 1 .. N
      /\ \A n \in DOMAIN trail : trail'[n] = trail[n]
      /\ trail'[N].before = seen /\ trail'[N].after = IF removal THEN 0 ELSE Len(history) + 1
  BY <1>1, CommitTrails DEF LimitsInv, LimitTypes
<1>3. /\ history' \in Seq(LimitRows) /\ Len(history) \in Nat
      /\ Len(history') = IF removal THEN Len(history) ELSE Len(history) + 1
      /\ DOMAIN history = 1 .. Len(history) /\ DOMAIN history' = 1 .. Len(history')
      /\ \A i \in DOMAIN history :
           /\ history'[i].cap = history[i].cap /\ history'[i].asked = history[i].asked
           /\ history'[i].from = history[i].from
           /\ history'[i].closed = 0 <=> (history[i].closed = 0 /\ i # seen)
      /\ ~removal => history'[Len(history) + 1] = NewRow(c)
      /\ change[c] \in Requests /\ change[c].at = "commit"
  BY CommitWrites DEF LimitsInv, LimitTypes
<1>4. /\ change' = [change EXCEPT ![c] = Resting] /\ UNCHANGED <<clock, asked>>
      /\ change'[c] = Resting /\ \A d \in Changers \ {c} : change'[d] = change[d]
  BY DEF CommitsChange, LimitsInv, LimitTypes
<1>5. /\ seen # 0 => Unclosed = {seen}
      /\ ~removal => Unclosed = {seen} \ {0}
      /\ seen \in Nat /\ seen <= Len(history)
  BY <1>3, ReplacesLast DEF LimitsInv, LimitTypes
<1> HIDE DEF removal, seen
<1>0. \A n \in DOMAIN trail : /\ trail[n].before \in Nat /\ trail[n].after \in Nat
                              /\ trail[n].before <= Len(history) /\ trail[n].after <= Len(history)
  <2>1. trail \in Seq(AuditEntries)
    BY DEF LimitsInv, LimitTypes
  <2>2. \A n \in DOMAIN trail : trail[n] \in AuditEntries
    BY <2>1
  <2>3. \A n \in DOMAIN trail : trail[n].before <= Len(history) /\ trail[n].after <= Len(history)
    BY DEF LimitsInv, LimitTypes
  <2> QED BY <2>2, <2>3 DEF AuditEntries
<1>6. removal => Unclosed' = Unclosed \ {seen}
  BY <1>3 DEF Unclosed
<1>7. ~removal => Unclosed' = {Len(history) + 1}
  <2> SUFFICES ASSUME ~removal PROVE Unclosed' = {Len(history) + 1}
    OBVIOUS
  <2>1. history'[Len(history) + 1].closed = 0
    BY <1>3 DEF NewRow
  <2>2. \A i \in DOMAIN history : history'[i].closed # 0
    BY <1>3, <1>5 DEF Unclosed
  <2> QED BY <1>3, <2>1, <2>2 DEF Unclosed
<1>8. LimitTypes'
  <2>1. Resting \in Requests /\ Resting.seen = 0
    BY DEF Resting, Requests
  <2>2. change' \in [Changers -> Requests] /\ \A d \in Changers : change'[d].seen <= Len(history')
    BY <1>3, <1>4, <2>1 DEF LimitsInv, LimitTypes, Requests
  <2>3. \A n \in DOMAIN trail' : trail'[n].before <= Len(history') /\ trail'[n].after <= Len(history')
    <3>2. \A n \in DOMAIN trail : trail'[n].before <= Len(history') /\ trail'[n].after <= Len(history')
      BY <1>0, <1>2, <1>3
    <3>3. trail'[N].before <= Len(history') /\ trail'[N].after <= Len(history')
      BY <1>2, <1>3, <1>5
    <3> QED BY <1>2, <3>2, <3>3
  <2> QED BY <1>2, <1>3, <1>4, <2>2, <2>3 DEF LimitsInv, LimitTypes
<1>9. LockInv'
  <2>1. Locks(c)' = {} /\ ~Enters(c)' /\ change'[c].at = "rest"
    BY <1>4 DEF Locks, Enters, Resting
  <2>2. \A d \in Changers \ {c} : /\ Locks(d)' = Locks(d) /\ Enters(d)' = Enters(d)
                                  /\ IsRemoval(d)' = IsRemoval(d) /\ change'[d] = change[d]
    BY <1>4 DEF Locks, Enters, IsRemoval
  <2>3. Locks(c) = {seen} \ {0} /\ (Enters(c) <=> ~removal)
    BY <1>3 DEF Locks, Enters, seen, removal
  <2>4. \A d \in Changers \ {c} : Locks(d) \subseteq Unclosed \ {seen} /\ (~removal => Locks(d) = {} /\ ~Enters(d))
    <3> SUFFICES ASSUME NEW d \in Changers \ {c}
                 PROVE  Locks(d) \subseteq Unclosed \ {seen} /\ (~removal => Locks(d) = {} /\ ~Enters(d))
      OBVIOUS
    <3>1. Locks(d) \subseteq Unclosed /\ Locks(c) \cap Locks(d) = {} /\ 0 \notin Locks(d)
      BY OpenIsLast DEF LimitsInv, LockInv
    <3>2. ~removal => Locks(d) = {} /\ ~Enters(d)
      BY <2>3 DEF LimitsInv, LockInv, Others
    <3> QED BY <2>3, <3>1, <3>2
  <2>5. \A d \in Changers : Locks(d)' \subseteq Unclosed'
    BY <1>6, <1>7, <2>1, <2>2, <2>4
  <2>6. \A d \in Changers : change'[d].at = "close" => change'[d].seen # 0
    BY <2>1, <2>2 DEF LimitsInv, LockInv
  <2>7. \A d \in Changers : change'[d].at = "insert" /\ IsRemoval(d)' => change'[d].seen = 0
    BY <2>1, <2>2 DEF LimitsInv, LockInv
  <2>8. \A d, e \in Changers : d # e => Locks(d)' \cap Locks(e)' = {}
    BY <2>1, <2>2 DEF LimitsInv, LockInv
  <2>9. \A d \in Changers : Enters(d)' =>
          /\ Unclosed' \subseteq {change'[d].seen}
          /\ \A e \in Others(d)' : ~Enters(e)' /\ Locks(e)' = {}
    <3> SUFFICES ASSUME NEW d \in Changers, Enters(d)'
                 PROVE  /\ Unclosed' \subseteq {change'[d].seen}
                        /\ \A e \in Others(d)' : ~Enters(e)' /\ Locks(e)' = {}
      OBVIOUS
    <3>1. d # c /\ Enters(d) /\ change'[d] = change[d] /\ removal
      BY <2>1, <2>2, <2>4
    <3>2. Unclosed \subseteq {change[d].seen} /\ \A e \in Others(d) : ~Enters(e) /\ Locks(e) = {}
      BY <3>1 DEF LimitsInv, LockInv
    <3>3. Others(d)' = Others(d)
      BY DEF Others
    <3>4. \A e \in Others(d) : ~Enters(e)' /\ Locks(e)' = {}
      BY <2>1, <2>2, <3>2 DEF Others
    <3> QED BY <1>6, <3>1, <3>2, <3>3, <3>4
  <2> QED BY <2>5, <2>6, <2>7, <2>8, <2>9 DEF LockInv
<1>10. /\ Changing' = Changing \cup (IF removal /\ seen = 0 THEN {} ELSE {N})
       /\ Changing \subseteq 1 .. N - 1
       /\ \A n \in 1 .. N : Before(n)' = Before(n) /\ Left(n)' = Left(n)
       /\ Before(N) = Changing
  BY <1>1, CommitKeepsTrail DEF removal, seen
<1>11. ASSUME NEW M, M = N + 1
       PROVE  /\ Before(M)' = Changing'
              /\ M \in Nat
  <2>1. Changing' \subseteq 1 .. N
    BY <1>2, <1>10
  <2>2. \A m \in Changing' : m < M
    BY <1>2, <1>11, <2>1
  <2> QED BY <1>2, <1>11, <2>2 DEF Before
<1>11a. /\ ~(removal /\ seen = 0) => N \in Changing'
        /\ \A k \in Changing' : k \in Nat /\ k <= N
  <2>1. /\ Changing' = Changing \cup (IF removal /\ seen = 0 THEN {} ELSE {N})
        /\ Changing \subseteq 1 .. N - 1
    BY <1>10
  <2>2. N \in Nat
    BY <1>2
  <2> HIDE DEF Changing
  <2> QED BY <2>1, <2>2
<1>12. Left(N) = IF removal /\ seen = 0 THEN Left(N) ELSE seen
  <2>1. Unclosed = {Left(N)} \ {0}
    BY <1>1 DEF LimitsInv, TrailIsHistory
  <2> QED BY <1>5, <2>1
<1>13. ASSUME NEW M, M = N + 1
       PROVE  Left(M)' = IF removal /\ seen = 0 THEN Left(N) ELSE trail'[N].after
  <2>1. Before(M)' = Changing'
    BY <1>11, <1>13
  <2>2. CASE removal /\ seen = 0
    <3>1. Before(M)' = Before(N)
      BY <1>10, <2>1, <2>2
    <3>2. CASE Before(N) = {}
      <4>1. Left(M)' = 0
        BY <3>1, <3>2 DEF Left, Before
      <4> QED BY <2>2, <3>2, <4>1, LeftByNone
    <3>3. CASE Before(N) # {}
      <4>1. Latest(M)' = Latest(N)
        BY <3>1 DEF Latest
      <4>2. Left(N)' = trail'[Latest(N)'].after /\ Latest(N)' = Latest(N)
        <5>1. N \in 1 .. N
          BY <1>2
        <5>2. Before(N)' = Before(N)
          BY <1>10, <5>1
        <5> QED BY <3>3, <5>2 DEF Left, Before, Latest
      <4>3. Left(M)' = trail'[Latest(M)'].after
        BY <3>1, <3>3 DEF Left, Before, Latest
      <4>4. Left(N)' = Left(N)
        BY <1>2, <1>10
      <4> QED BY <2>2, <4>1, <4>2, <4>3, <4>4
    <3> QED BY <3>2, <3>3
  <2>3. CASE ~(removal /\ seen = 0)
    <3>1. N \in Before(M)' /\ \A k \in Before(M)' : k \in Nat /\ k <= N
      BY <1>11a, <2>1, <2>3
    <3>2. Left(M)' = trail'[Latest(M)'].after
      BY <3>1 DEF Left, Before, Latest
    <3>3. Latest(M)' \in Before(M)' /\ \A k \in Before(M)' : k <= Latest(M)'
      BY <3>1 DEF Latest
    <3>4. Latest(M)' = N
      <4>1. Latest(M)' \in Nat /\ Latest(M)' <= N
        BY <3>1, <3>3
      <4>2. N <= Latest(M)'
        BY <3>1, <3>3
      <4> QED BY <1>2, <4>1, <4>2
    <3> QED BY <2>3, <3>2, <3>4
  <2> QED BY <2>2, <2>3
<1>14. LastInv'
  <2>1. \A n \in 1 .. N : Before(n)' = {} \/ \E m \in Before(n)' : \A k \in Before(n)' : k <= m
    BY <1>1, <1>10 DEF LimitsInv, LastInv
  <2>2. ASSUME NEW M, M = N + 1
        PROVE  Before(M)' = {} \/ \E m \in Before(M)' : \A k \in Before(M)' : k <= m
    <3>1. Before(M)' = Changing'
      BY <1>11, <2>2
    <3>2. CASE removal /\ seen = 0
      <4>1. Before(M)' = Before(N)
        BY <1>10, <3>1, <3>2
      <4>2. N \in 1 .. Len(trail) + 1
        BY <1>1, <1>2
      <4> QED BY <4>1, <4>2 DEF LimitsInv, LastInv
    <3>3. CASE ~(removal /\ seen = 0)
      <4>1. N \in Before(M)' /\ \A k \in Before(M)' : k <= N
        BY <1>11a, <3>1, <3>3
      <4> QED BY <4>1
    <3> QED BY <3>2, <3>3
  <2>3. \A n \in 1 .. Len(trail') + 1 : n \in 1 .. N \/ n = N + 1
    BY <1>2
  <2> QED BY <2>1, <2>2, <2>3 DEF LastInv
<1>15. TrailIsHistory'
  <2>1. ASSUME NEW n \in Changing' PROVE trail'[n].before = Left(n)'
    <3>1. CASE n \in Changing
      <4>1. n \in 1 .. N - 1 /\ n \in 1 .. N
        BY <1>2, <1>10, <3>1
      <4>2. trail'[n] = trail[n] /\ Left(n)' = Left(n)
        BY <1>2, <1>10, <4>1
      <4> QED BY <3>1, <4>2 DEF LimitsInv, TrailIsHistory
    <3>2. CASE n \notin Changing
      <4>1. n = N /\ ~(removal /\ seen = 0)
        BY <1>10, <2>1, <3>2
      <4>2. Left(N) = seen
        BY <1>12, <4>1
      <4>3. N \in 1 .. N
        BY <1>2
      <4>4. Left(N)' = Left(N)
        BY <1>10, <4>3
      <4>5. trail'[N].before = seen
        BY <1>2
      <4> QED BY <4>1, <4>2, <4>4, <4>5
    <3> QED BY <3>1, <3>2
  <2>2. ASSUME NEW M, M = N + 1 PROVE Unclosed' = {Left(M)'} \ {0}
    <3>1. Left(M)' = IF removal /\ seen = 0 THEN Left(N) ELSE trail'[N].after
      BY <1>13, <2>2
    <3>2. Unclosed = {Left(N)} \ {0}
      BY <1>1 DEF LimitsInv, TrailIsHistory
    <3>3. 0 \notin Unclosed
      BY <3>2
    <3>4. CASE removal /\ seen = 0
      BY <1>6, <3>1, <3>2, <3>3, <3>4
    <3>5. CASE removal /\ seen # 0
      BY <1>2, <1>5, <1>6, <3>1, <3>5
    <3>6. CASE ~removal
      <4>1. trail'[N].after = Len(history) + 1 /\ Len(history) + 1 # 0
        BY <1>2, <1>3, <3>6
      <4> QED BY <1>7, <3>1, <3>6, <4>1
    <3> QED BY <3>4, <3>5, <3>6
  <2>3. Len(trail') + 1 = N + 1
    BY <1>2
  <2>4. Unclosed' = {Left(Len(trail) + 1)'} \ {0}
    BY <2>2, <2>3
  <2> QED BY <2>1, <2>4 DEF TrailIsHistory
<1>16. DecidedOnWhatItReplaced'
  <2>1. ASSUME NEW n \in DOMAIN trail', trail'[n].after # 0
        PROVE  history'[trail'[n].after].from - history'[trail'[n].after].asked =
                 IF trail'[n].before # 0
                      /\ Looser(history'[trail'[n].after].cap, history'[trail'[n].before].cap)
                 THEN Cooling ELSE 0
    <3>1. CASE n \in DOMAIN trail
      <4> DEFINE was == trail[n].before
                 is == trail[n].after
      <4>1. trail'[n] = trail[n]
        BY <1>2, <3>1
      <4>2. was \in Nat /\ is \in Nat /\ was <= Len(history) /\ is <= Len(history) /\ is # 0
        BY <1>0, <2>1, <3>1, <4>1
      <4>3. history[is].from - history[is].asked =
              IF was # 0 /\ Looser(history[is].cap, history[was].cap) THEN Cooling ELSE 0
        BY <3>1, <4>2 DEF LimitsInv, DecidedOnWhatItReplaced
      <4> HIDE DEF was, is
      <4>4. is \in DOMAIN history /\ (was # 0 => was \in DOMAIN history)
        BY <1>3, <4>2
      <4>5. /\ history'[is].cap = history[is].cap /\ history'[is].from = history[is].from
            /\ history'[is].asked = history[is].asked
            /\ was # 0 => history'[was].cap = history[was].cap
        BY <1>3, <4>4
      <4>6. history'[is].from - history'[is].asked =
              IF was # 0 /\ Looser(history'[is].cap, history'[was].cap) THEN Cooling ELSE 0
        BY <4>3, <4>5
      <4> QED BY <4>1, <4>6 DEF was, is
    <3>2. CASE n = N
      <4>1. ~removal /\ trail'[n].before = seen /\ trail'[n].after = Len(history) + 1
        BY <1>2, <2>1, <3>2
      <4>2. history'[Len(history) + 1] = NewRow(c)
        BY <1>3, <4>1
      <4>3. /\ NewRow(c).cap = change[c].cap /\ NewRow(c).asked = change[c].asked
            /\ NewRow(c).from = change[c].asked + (IF Loosens(c) THEN Cooling ELSE 0)
        BY DEF NewRow
      <4>4. Loosens(c) <=> seen # 0 /\ Looser(change[c].cap, history[seen].cap)
        BY DEF Loosens, seen
      <4>5. seen # 0 => history'[seen].cap = history[seen].cap
        BY <1>3, <1>5
      <4>6. change[c].asked \in Nat /\ Cooling \in Nat
        BY <1>3, LimitsAssumption DEF Requests
      <4>7. NewRow(c).from - NewRow(c).asked = IF Loosens(c) THEN Cooling ELSE 0
        BY <4>3, <4>6
      <4> QED BY <4>1, <4>2, <4>3, <4>4, <4>5, <4>7
    <3>3. n \in DOMAIN trail \/ n = N
      BY <1>2
    <3> QED BY <3>1, <3>2, <3>3
  <2> QED BY <2>1 DEF DecidedOnWhatItReplaced
<1> QED BY <1>8, <1>9, <1>14, <1>15, <1>16 DEF LimitsInv

-----------------------------------------------------------------------------
LEMMA LimitsStep ==
    ASSUME LimitsInv, [LimitsNext]_limitVars
    PROVE  LimitsInv'
<1>1. ASSUME NEW c \in Changers, NEW cap \in Caps \cup {Removed}, AsksFor(c, cap) PROVE LimitsInv'
  BY <1>1, AsksForKeeps
<1>2. ASSUME NEW c \in Changers, ReadsOpen(c) PROVE LimitsInv'
  BY <1>2, ReadsOpenKeeps
<1>3. ASSUME NEW c \in Changers, Closes(c) PROVE LimitsInv'
  BY <1>3, ClosesKeeps
<1>4. ASSUME NEW c \in Changers, InsertsRow(c) PROVE LimitsInv'
  BY <1>4, InsertsRowKeeps
<1>5. ASSUME NEW c \in Changers, CommitsChange(c) PROVE LimitsInv'
  BY <1>5, CommitKeeps
<1>6. ASSUME NEW c \in Changers, Abandons(c) PROVE LimitsInv'
  BY <1>6, AbandonsKeeps
<1>7. CASE ClockTicks
  <2>1. clock' \in 0 .. MaxClock
    BY <1>7, LimitsAssumption DEF ClockTicks, LimitsInv, LimitTypes
  <2> QED BY <1>7, <2>1, ClockKeeps DEF ClockTicks
<1>8. CASE UNCHANGED limitVars
  <2>1. clock' \in 0 .. MaxClock /\ UNCHANGED <<history, trail, change, asked>>
    BY <1>8 DEF limitVars, LimitsInv, LimitTypes
  <2> QED BY <2>1, ClockKeeps
<1> QED BY <1>1, <1>2, <1>3, <1>4, <1>5, <1>6, <1>7, <1>8 DEF LimitsNext

LEMMA LimitsInvCorrect == LimitsInv => LimitsCorrect
<1> SUFFICES ASSUME LimitsInv PROVE LimitsCorrect
  OBVIOUS
<1>1. LimitsTypeOK
  <2>1. \A i \in DOMAIN history : history[i] \in LimitRows
    BY DEF LimitsInv, LimitTypes
  <2>2. \A c \in Changers : change[c].seen \in 0 .. Len(history)
    <3>1. Len(history) \in Nat /\ \A c \in Changers : change[c].seen <= Len(history)
      BY DEF LimitsInv, LimitTypes
    <3>2. \A c \in Changers : change[c].seen \in Nat
      BY DEF LimitsInv, LimitTypes, Requests
    <3>3. \A n, k \in Nat : k <= n => k \in 0 .. n
      OBVIOUS
    <3> QED BY <3>1, <3>2, <3>3
  <2> QED BY <2>1, <2>2 DEF LimitsInv, LimitTypes, LimitsTypeOK, Requests, LimitRows
<1>2. OneOpen
  BY OpenIsLast DEF OneOpen
<1> QED BY <1>1, <1>2 DEF LimitsInv, LimitsCorrect

\* However the requests of one user for one limit interleave, at most one limit is
\* open, the audit log is its history entry by entry, and whether a change had to wait
\* was decided on the limit it replaced (handleSetLimit and handleRemoveLimit of
\* account.go, under the row lock of SupersedeUserLimit and user_limits_current_key).
THEOREM LimitsAudited == LimitsSpec => []LimitsCorrect
<1>1. LimitsInv /\ [LimitsNext]_limitVars => LimitsInv'
  BY LimitsStep
<1> QED BY <1>1, LimitsInitial, LimitsInvCorrect, PTL DEF LimitsSpec

-----------------------------------------------------------------------------
(* Sorting: what Ascending chooses exists *)

\* The library proves set inclusion well founded on finite sets; the order of the
\* naturals inherits it.
LEMMA Smallest ==
    ASSUME NEW T, T \subseteq Nat, T # {}
    PROVE  \E n \in T : \A m \in T : n <= m
<1> DEFINE F == {1 .. n : n \in T}
<1>1. \A n \in T : 1 .. n \in FiniteSubsetsOf(Nat)
  <2> SUFFICES ASSUME NEW n \in T PROVE 1 .. n \in FiniteSubsetsOf(Nat)
    OBVIOUS
  <2>1. n \in Int /\ 1 \in Int /\ 1 .. n \subseteq Nat
    OBVIOUS
  <2>2. IsFiniteSet(1 .. n)
    BY <2>1, FS_Interval
  <2> QED BY <2>1, <2>2 DEF FiniteSubsetsOf
<1>2. F # {} /\ F \subseteq FiniteSubsetsOf(Nat)
  BY <1>1
<1> HIDE DEF F
<1>3. PICK I \in F : \A J \in F : ~(<<J, I>> \in StrictSubsetOrdering(Nat))
  BY <1>2, FS_StrictSubsetOrderingWellFounded, WFMin
<1>4. PICK n \in T : I = 1 .. n
  BY <1>3 DEF F
<1>5. ASSUME NEW m \in T, m < n PROVE FALSE
  <2>1. 1 .. m \in F /\ 1 .. m \in SUBSET Nat /\ 1 .. n \in SUBSET Nat
    BY DEF F
  <2>2. 1 .. m \subseteq 1 .. n /\ 1 .. m # 1 .. n
    <3>1. n \in 1 .. n /\ n \notin 1 .. m
      BY <1>5
    <3> QED BY <1>5, <3>1
  <2>3. <<1 .. m, 1 .. n>> \in StrictSubsetOrdering(Nat)
    BY <2>1, <2>2 DEF StrictSubsetOrdering
  <2> QED BY <1>3, <1>4, <2>1, <2>3
<1> QED BY <1>5

\* s lists the elements of S in their order.
Lists(s, S) ==
    /\ s \in [1 .. Cardinality(S) -> S]
    /\ \A i, j \in DOMAIN s : i < j => s[i] < s[j]

\* By induction on the cardinality: the smallest element comes before the list of the rest.
LEMMA ListExists ==
    ASSUME NEW S, S \subseteq Nat, IsFiniteSet(S)
    PROVE  \E s : Lists(s, S)
<1> DEFINE Unlisted == {n \in Nat : \E T \in SUBSET Nat :
                          IsFiniteSet(T) /\ Cardinality(T) = n /\ ~ \E s : Lists(s, T)}
<1>1. ASSUME Unlisted # {} PROVE FALSE
  <2>1. PICK n \in Unlisted : \A m \in Unlisted : n <= m
    <3> HIDE DEF Unlisted
    <3> SUFFICES Unlisted \subseteq Nat
      BY <1>1, Smallest
    <3> QED BY DEF Unlisted
  <2>2. n \in Nat
    OBVIOUS
  <2>3. PICK T \in SUBSET Nat : IsFiniteSet(T) /\ Cardinality(T) = n /\ ~ \E s : Lists(s, T)
    OBVIOUS
  <2>4. n # 0
    <3> SUFFICES ASSUME n = 0 PROVE FALSE
      OBVIOUS
    <3>1. T = {}
      BY <2>3, FS_EmptySet
    <3>2. [i \in 1 .. 0 |-> 0] \in [1 .. Cardinality(T) -> T]
      BY <2>3
    <3>3. Lists([i \in 1 .. 0 |-> 0], T)
      BY <3>2 DEF Lists
    <3> QED BY <3>3, <2>3
  <2>5. T # {}
    BY <2>2, <2>3, <2>4, FS_EmptySet
  <2>6. PICK x \in T : \A y \in T : x <= y
    BY <2>3, <2>5, Smallest
  <2> DEFINE Rest == T \ {x}
  <2>7. Rest \in SUBSET Nat /\ IsFiniteSet(Rest) /\ Cardinality(Rest) = n - 1
    BY <2>3, FS_RemoveElement
  <2>8. n - 1 \in Nat /\ n - 1 \notin Unlisted
    <3> HIDE DEF Unlisted
    <3> QED BY <2>1, <2>2, <2>4
  <2>9. PICK rest : Lists(rest, Rest)
    BY <2>7, <2>8
  <2> DEFINE all == [i \in 1 .. n |-> IF i = 1 THEN x ELSE rest[i - 1]]
  <2>10. rest \in [1 .. (n - 1) -> Rest] /\ \A i, j \in 1 .. (n - 1) : i < j => rest[i] < rest[j]
    BY <2>7, <2>9 DEF Lists
  <2>11. \A i \in 1 .. n : i = 1 \/ (i - 1 \in 1 .. (n - 1) /\ all[i] = rest[i - 1] /\ all[i] \in Rest)
    BY <2>2, <2>10
  <2>12. all \in [1 .. Cardinality(T) -> T]
    BY <2>3, <2>10, <2>11
  <2> HIDE DEF all
  <2>13. ASSUME NEW i \in 1 .. n, NEW j \in 1 .. n, i < j PROVE all[i] < all[j]
    <3>1. j # 1 /\ all[j] \in Rest /\ j - 1 \in 1 .. (n - 1) /\ all[j] = rest[j - 1]
      BY <2>2, <2>11, <2>13
    <3>2. CASE i = 1
      <4>1. all[i] = x /\ all[j] \in T /\ all[j] # x
        BY <3>1, <3>2, <2>2 DEF all
      <4>2. x <= all[j] /\ x \in Nat /\ all[j] \in Nat
        BY <4>1, <2>6
      <4> QED BY <4>1, <4>2
    <3>3. CASE i # 1
      <4>1. i - 1 \in 1 .. (n - 1) /\ all[i] = rest[i - 1] /\ i - 1 < j - 1
        BY <2>2, <2>11, <2>13, <3>3
      <4>2. rest[i - 1] < rest[j - 1]
        BY <4>1, <3>1, <2>10
      <4> QED BY <4>1, <4>2, <3>1
    <3> QED BY <3>2, <3>3
  <2>14. Lists(all, T)
    BY <2>12, <2>13, <2>3 DEF Lists
  <2> QED BY <2>3, <2>14
<1>2. Cardinality(S) \in Nat
  BY FS_CardinalityType
<1> QED BY <1>1, <1>2

LEMMA AscendingFacts ==
    ASSUME NEW S, S \subseteq Nat, IsFiniteSet(S)
    PROVE  /\ Cardinality(S) \in Nat
           /\ Ascending(S) \in [1 .. Cardinality(S) -> S]
           /\ \A i, j \in 1 .. Cardinality(S) : i < j => Ascending(S)[i] < Ascending(S)[j]
           /\ \A x \in S : \E i \in 1 .. Cardinality(S) : Ascending(S)[i] = x
<1> DEFINE n == Cardinality(S)
           s == Ascending(S)
<1>1. n \in Nat
  BY FS_CardinalityType
<1>2. \E t \in [1 .. Cardinality(S) -> S] : \A i, j \in DOMAIN t : i < j => t[i] < t[j]
  BY ListExists DEF Lists
<1>3. s \in [1 .. n -> S] /\ \A i, j \in DOMAIN s : i < j => s[i] < s[j]
  BY <1>2 DEF Ascending
<1> HIDE DEF s
<1>4. \A i, j \in 1 .. n : i # j => s[i] # s[j]
  <2> SUFFICES ASSUME NEW i \in 1 .. n, NEW j \in 1 .. n, i # j PROVE s[i] # s[j]
    OBVIOUS
  <2>1. s[i] \in S /\ s[j] \in S /\ DOMAIN s = 1 .. n
    BY <1>3
  <2>2. i < j \/ j < i
    BY <1>1
  <2>3. s[i] < s[j] \/ s[j] < s[i]
    BY <1>3, <2>1, <2>2
  <2>4. s[i] \in Nat /\ s[j] \in Nat
    BY <2>1
  <2> QED BY <2>3, <2>4
<1>5. s \in Injection(1 .. n, S)
  BY <1>3, <1>4 DEF Injection, IsInjective
<1>6. Cardinality(1 .. n) = n
  BY <1>1, FS_Interval
<1>7. s \in Surjection(1 .. n, S)
  BY <1>1, <1>5, <1>6, FS_Injection
<1>8. \A x \in S : \E i \in 1 .. n : s[i] = x
  BY <1>7 DEF Surjection
<1> QED BY <1>1, <1>3, <1>8 DEF s

-----------------------------------------------------------------------------
(* The rows of a record, in one order *)

LEMMA ElementsFinite ==
    ASSUME NEW s \in Seq(Nat)
    PROVE  Elements(s) \subseteq Nat /\ IsFiniteSet(Elements(s))
<1> DEFINE S == Elements(s)
<1>1. S = {s[i] : i \in 1 .. Len(s)} /\ Len(s) \in Nat /\ \A i \in 1 .. Len(s) : s[i] \in Nat
  BY DEF Elements
<1> HIDE DEF S
<1>2. S \subseteq Nat
  BY <1>1
<1> DEFINE f == [i \in 1 .. Len(s) |-> s[i]]
<1>3. f \in Surjection(1 .. Len(s), S)
  BY <1>1 DEF Surjection
<1>4. ExistsSurjection(1 .. Len(s), S)
  BY <1>3 DEF ExistsSurjection
<1>5. IsFiniteSet(S)
  BY <1>1, <1>4, FS_NatSurjection
<1> QED BY <1>2, <1>5 DEF S

\* The tables in the order upsertCatalogue writes them.
Place == [sport |-> 1, league |-> 2, event |-> 3, market |-> 4, book |-> 5, selection |-> 6]
Books(r) == Ascending(Elements(Feed[r].books))
Selections(r) == Ascending(Elements(Feed[r].selections))

\* x is locked before y by every transaction that locks both.
Precedes(x, y) ==
    \/ Place[x[1]] < Place[y[1]]
    \/ Place[x[1]] = Place[y[1]] /\ Place[x[1]] > 4 /\ x[2] < y[2]

LEMMA Concatenated ==
    ASSUME NEW S, NEW u \in Seq(S), NEW w \in Seq(S)
    PROVE  /\ u \o w \in Seq(S) /\ Len(u \o w) = Len(u) + Len(w)
           /\ \A i \in 1 .. Len(u) : (u \o w)[i] = u[i]
           /\ \A i \in 1 .. Len(w) : (u \o w)[Len(u) + i] = w[i]
OBVIOUS

\* The rows of a record are its spine's, one after the other.
LEMMA SpineFacts ==
    ASSUME NEW r \in Records
    PROVE  /\ Len(Spines[r]) \in Nat /\ DOMAIN Spines[r] = 1 .. Len(Spines[r])
           /\ RowsIn[r] = {Spines[r][i] : i \in 1 .. Len(Spines[r])}
           /\ \A i \in 1 .. Len(Spines[r]) :
                /\ Spines[r][i][1] \in DOMAIN Place
                /\ Place[Spines[r][i][1]] > 4 => Spines[r][i][2] \in Nat
           /\ \A i, j \in 1 .. Len(Spines[r]) : i < j => Precedes(Spines[r][i], Spines[r][j])
           /\ \A b \in Elements(Feed[r].books) : <<"book", b>> \in RowsIn[r]
           /\ \A s \in Elements(Feed[r].selections) : <<"selection", s>> \in RowsIn[r]
<1> DEFINE head == << <<"sport", Feed[r].sport>>, <<"league", Feed[r].league>>,
                      <<"event", Feed[r].event>>, <<"market", Feed[r].market>> >>
           b == Books(r)
           c == Selections(r)
           n == Cardinality(Elements(Feed[r].books))
           m == Cardinality(Elements(Feed[r].selections))
           bs == RowsOf("book", b)
           cs == RowsOf("selection", c)
           s == Spines[r]
<1>1. /\ Feed[r].books \in Seq(Nat) /\ Feed[r].selections \in Seq(Nat)
      /\ s = SpineOf(r) /\ RowsIn[r] = Elements(s)
  BY WriterAssumption DEF Records, Spines, RowsIn
<1>2. /\ n \in Nat /\ b \in [1 .. n -> Elements(Feed[r].books)]
      /\ \A i, j \in 1 .. n : i < j => b[i] < b[j]
      /\ \A x \in Elements(Feed[r].books) : \E i \in 1 .. n : b[i] = x
      /\ Elements(Feed[r].books) \subseteq Nat
  BY <1>1, ElementsFinite, AscendingFacts DEF Books
<1>3. /\ m \in Nat /\ c \in [1 .. m -> Elements(Feed[r].selections)]
      /\ \A i, j \in 1 .. m : i < j => c[i] < c[j]
      /\ \A x \in Elements(Feed[r].selections) : \E i \in 1 .. m : c[i] = x
      /\ Elements(Feed[r].selections) \subseteq Nat
  BY <1>1, ElementsFinite, AscendingFacts DEF Selections
<1>4. s = head \o bs \o cs
  BY <1>1 DEF SpineOf, Books, Selections
<1> HIDE DEF b, c, n, m, s
<1>5. /\ bs = [i \in 1 .. n |-> <<"book", b[i]>>]
      /\ cs = [i \in 1 .. m |-> <<"selection", c[i]>>]
  BY <1>2, <1>3 DEF RowsOf
<1> HIDE DEF bs, cs
<1> DEFINE V == {head[i] : i \in 1 .. 4} \cup {bs[i] : i \in 1 .. n} \cup {cs[i] : i \in 1 .. m}
<1>6. /\ head \in Seq(V) /\ Len(head) = 4
      /\ bs \in Seq(V) /\ Len(bs) = n
      /\ cs \in Seq(V) /\ Len(cs) = m
  <2>1. head \in Seq(V) /\ Len(head) = 4
    <3>1. head \in [1 .. 4 -> V]
      OBVIOUS
    <3> QED BY <3>1
  <2>2. bs \in [1 .. n -> V] /\ cs \in [1 .. m -> V]
    BY <1>5
  <2> HIDE DEF V
  <2>3. bs \in Seq(V) /\ Len(bs) = n /\ cs \in Seq(V) /\ Len(cs) = m
    BY <2>2, <1>2, <1>3
  <2> QED BY <2>1, <2>3
<1>7. /\ Len(s) = 4 + n + m /\ s \in Seq(V)
      /\ \A i \in 1 .. 4 : s[i] = head[i]
      /\ \A i \in 1 .. n : s[4 + i] = bs[i]
      /\ \A i \in 1 .. m : s[4 + n + i] = cs[i]
  <2> DEFINE fore == head \o bs
  <2> HIDE DEF head, V, fore
  <2>0. \A u, w \in Seq(V) :
          /\ u \o w \in Seq(V) /\ Len(u \o w) = Len(u) + Len(w)
          /\ \A i \in 1 .. Len(u) : (u \o w)[i] = u[i]
          /\ \A i \in 1 .. Len(w) : (u \o w)[Len(u) + i] = w[i]
    BY Concatenated
  <2>1. /\ fore \in Seq(V) /\ Len(fore) = 4 + n
        /\ \A i \in 1 .. 4 : fore[i] = head[i]
        /\ \A i \in 1 .. n : fore[4 + i] = bs[i]
    <3>1. /\ head \o bs \in Seq(V) /\ Len(head \o bs) = Len(head) + Len(bs)
          /\ \A i \in 1 .. Len(head) : (head \o bs)[i] = head[i]
          /\ \A i \in 1 .. Len(bs) : (head \o bs)[Len(head) + i] = bs[i]
      BY <1>6, <2>0
    <3> QED BY <3>1, <1>6 DEF fore
  <2>2. s = fore \o cs
    BY <1>4 DEF fore
  <2> HIDE DEF fore
  <2>3. /\ s \in Seq(V) /\ Len(s) = 4 + n + m
        /\ \A i \in 1 .. (4 + n) : s[i] = fore[i]
        /\ \A i \in 1 .. m : s[4 + n + i] = cs[i]
    <3>1. /\ fore \o cs \in Seq(V) /\ Len(fore \o cs) = Len(fore) + Len(cs)
          /\ \A i \in 1 .. Len(fore) : (fore \o cs)[i] = fore[i]
          /\ \A i \in 1 .. Len(cs) : (fore \o cs)[Len(fore) + i] = cs[i]
      BY <1>6, <2>1, <2>0
    <3> QED BY <3>1, <1>6, <2>1, <2>2
  <2>4. \A i \in 1 .. 4 : i \in 1 .. (4 + n)
    BY <1>2
  <2>5. \A i \in 1 .. n : 4 + i \in 1 .. (4 + n)
    BY <1>2
  <2> QED BY <2>1, <2>3, <2>4, <2>5
<1> HIDE DEF V
<1>8. DOMAIN s = 1 .. Len(s) /\ Len(s) \in Nat
  BY <1>7, <1>2, <1>3
<1>9. /\ s[1] = <<"sport", Feed[r].sport>> /\ s[2] = <<"league", Feed[r].league>>
      /\ s[3] = <<"event", Feed[r].event>> /\ s[4] = <<"market", Feed[r].market>>
      /\ \A i \in 1 .. n : s[4 + i] = <<"book", b[i]>>
      /\ \A i \in 1 .. m : s[4 + n + i] = <<"selection", c[i]>>
  BY <1>5, <1>7
<1> HIDE DEF head
<1>10. RowsIn[r] = {s[i] : i \in 1 .. Len(s)}
  BY <1>1 DEF Elements
\* Where in the spine an index is.
<1>11. \A i \in 1 .. Len(s) :
          \/ i \in {1, 2, 3, 4}
          \/ \E k \in 1 .. n : i = 4 + k
          \/ \E k \in 1 .. m : i = 4 + n + k
  <2> SUFFICES ASSUME NEW i \in 1 .. Len(s), i > 4
               PROVE  \/ \E k \in 1 .. n : i = 4 + k
                      \/ \E k \in 1 .. m : i = 4 + n + k
    BY <1>8
  <2>1. CASE i <= 4 + n
    <3>1. i - 4 \in 1 .. n /\ i = 4 + (i - 4)
      BY <2>1, <1>2, <1>8
    <3> QED BY <3>1
  <2>2. CASE i > 4 + n
    <3>1. i - 4 - n \in 1 .. m /\ i = 4 + n + (i - 4 - n)
      BY <2>2, <1>2, <1>3, <1>7
    <3> QED BY <3>1
  <2> QED BY <2>1, <2>2, <1>2, <1>8
<1>12. \A i \in 1 .. Len(s) : /\ s[i][1] \in DOMAIN Place
                              /\ Place[s[i][1]] > 4 => s[i][2] \in Nat
  <2> SUFFICES ASSUME NEW i \in 1 .. Len(s)
               PROVE  /\ s[i][1] \in DOMAIN Place
                      /\ Place[s[i][1]] > 4 => s[i][2] \in Nat
    OBVIOUS
  <2>1. CASE i \in {1, 2, 3, 4}
    BY <2>1, <1>9 DEF Place
  <2>2. CASE \E k \in 1 .. n : i = 4 + k
    <3>1. PICK k \in 1 .. n : i = 4 + k
      BY <2>2
    <3>2. s[i] = <<"book", b[k]>> /\ b[k] \in Nat
      BY <3>1, <1>2, <1>9
    <3> QED BY <3>2 DEF Place
  <2>3. CASE \E k \in 1 .. m : i = 4 + n + k
    <3>1. PICK k \in 1 .. m : i = 4 + n + k
      BY <2>3
    <3>2. s[i] = <<"selection", c[k]>> /\ c[k] \in Nat
      BY <3>1, <1>3, <1>9
    <3> QED BY <3>2 DEF Place
  <2> QED BY <2>1, <2>2, <2>3, <1>11
<1>13. ASSUME NEW i \in 1 .. Len(s), NEW j \in 1 .. Len(s), i < j
       PROVE  Precedes(s[i], s[j])
  <2>1. CASE j \in {1, 2, 3, 4}
    BY <2>1, <1>8, <1>9, <1>13 DEF Precedes, Place
  <2>2. CASE \E k \in 1 .. n : j = 4 + k
    <3>1. PICK k \in 1 .. n : j = 4 + k
      BY <2>2
    <3>2. s[j][1] = "book" /\ s[j][2] = b[k]
      BY <3>1, <1>9
    <3>3. CASE i \in {1, 2, 3, 4}
      BY <3>2, <3>3, <1>9 DEF Precedes, Place
    <3>4. CASE \E l \in 1 .. n : i = 4 + l
      <4>1. PICK l \in 1 .. n : i = 4 + l
        BY <3>4
      <4>2. s[i][1] = "book" /\ s[i][2] = b[l] /\ l < k
        BY <4>1, <3>1, <1>9, <1>13
      <4>3. b[l] < b[k]
        BY <4>2, <1>2
      <4> QED BY <3>2, <4>2, <4>3 DEF Precedes, Place
    <3>5. CASE \E l \in 1 .. m : i = 4 + n + l
      BY <3>1, <3>5, <1>2, <1>13
    <3> QED BY <3>3, <3>4, <3>5, <1>11
  <2>3. CASE \E k \in 1 .. m : j = 4 + n + k
    <3>1. PICK k \in 1 .. m : j = 4 + n + k
      BY <2>3
    <3>2. s[j][1] = "selection" /\ s[j][2] = c[k]
      BY <3>1, <1>9
    <3>3. CASE i \in {1, 2, 3, 4}
      BY <3>2, <3>3, <1>9 DEF Precedes, Place
    <3>4. CASE \E l \in 1 .. n : i = 4 + l
      BY <3>2, <3>4, <1>9 DEF Precedes, Place
    <3>5. CASE \E l \in 1 .. m : i = 4 + n + l
      <4>1. PICK l \in 1 .. m : i = 4 + n + l
        BY <3>5
      <4>2. s[i][1] = "selection" /\ s[i][2] = c[l] /\ l < k
        BY <4>1, <3>1, <1>2, <1>9, <1>13
      <4>3. c[l] < c[k]
        BY <4>2, <1>3
      <4> QED BY <3>2, <4>2, <4>3 DEF Precedes, Place
    <3> QED BY <3>3, <3>4, <3>5, <1>11
  <2> QED BY <2>1, <2>2, <2>3, <1>11
<1>14. \A x \in Elements(Feed[r].books) : <<"book", x>> \in RowsIn[r]
  <2> SUFFICES ASSUME NEW x \in Elements(Feed[r].books) PROVE <<"book", x>> \in RowsIn[r]
    OBVIOUS
  <2>1. PICK i \in 1 .. n : b[i] = x
    BY <1>2
  <2>2. 4 + i \in 1 .. Len(s) /\ s[4 + i] = <<"book", x>>
    BY <2>1, <1>2, <1>3, <1>7, <1>9
  <2> QED BY <2>2, <1>10
<1>15. \A x \in Elements(Feed[r].selections) : <<"selection", x>> \in RowsIn[r]
  <2> SUFFICES ASSUME NEW x \in Elements(Feed[r].selections) PROVE <<"selection", x>> \in RowsIn[r]
    OBVIOUS
  <2>1. PICK i \in 1 .. m : c[i] = x
    BY <1>3
  <2>2. 4 + n + i \in 1 .. Len(s) /\ s[4 + n + i] = <<"selection", x>>
    BY <2>1, <1>2, <1>3, <1>7, <1>9
  <2> QED BY <2>2, <1>10
<1> QED BY <1>8, <1>10, <1>12, <1>13, <1>14, <1>15 DEF s

\* No row is locked twice, and two rows precede each other in no spine.
LEMMA OneOrder ==
    ASSUME NEW r \in Records, NEW q \in Records,
           NEW x \in RowsIn[r], NEW y \in RowsIn[q]
    PROVE  ~(Precedes(x, y) /\ Precedes(y, x))
<1>1. x[1] \in DOMAIN Place /\ (Place[x[1]] > 4 => x[2] \in Nat)
  BY SpineFacts
<1>2. y[1] \in DOMAIN Place /\ (Place[y[1]] > 4 => y[2] \in Nat)
  BY SpineFacts
<1>3. \A t \in DOMAIN Place : Place[t] \in Nat
  BY DEF Place
<1> QED BY <1>1, <1>2, <1>3 DEF Precedes

-----------------------------------------------------------------------------
(* Transactions *)

Transactions == [rec : Records \cup {NoRow}, step : Nat, puts : SUBSET Rows,
                 inserts : SUBSET NaturalKeys]

WriterTypes ==
    /\ rows \in [Rows -> Records \cup {NoRow}]
    /\ stored \in [NaturalKeys -> 0 .. 1]
    /\ tx \in [Writers -> Transactions]
    /\ committed \subseteq {r \in Records : Feed[r].good}
    /\ handled \subseteq committed

\* Whether the update of a row by a record is not declined.
Rewrites(line, r) == rows[line] = NoRow \/ (Newer(line, rows[line], r) /\ Distinct(rows[line], r))

\* What a transaction decided on a row it has locked, and on a quote it inserts, is still
\* what it would decide.
TxInv(w) ==
    /\ Idle(w) => tx[w] = NoTx
    /\ ~Idle(w) =>
          /\ Feed[tx[w].rec].good
          /\ tx[w].step <= Len(Spine(w)) + 1
          /\ tx[w].puts \subseteq Locked(w)
          /\ \A line \in Locked(w) : line \in tx[w].puts <=> Rewrites(line, tx[w].rec)
          /\ tx[w].step <= Len(Spine(w)) => tx[w].inserts = {}
          /\ tx[w].step > Len(Spine(w)) => tx[w].inserts = NotStored(tx[w].rec)

\* No two transactions hold one row, or are inserting one quote.
Apart ==
    \A v, w \in Writers : v # w =>
        Locked(v) \cap Locked(w) = {} /\ tx[v].inserts \cap tx[w].inserts = {}

\* The quotes stored are those of the records committed.
QuotesInv ==
    /\ \A r \in committed : \A q \in Quotes[r] : stored[q] = 1
    /\ \A q \in NaturalKeys : stored[q] = 1 => \E r \in committed : q \in Quotes[r]

WriterInv ==
    /\ WriterTypes
    /\ \A w \in Writers : TxInv(w)
    /\ Apart
    /\ NewestShown
    /\ QuotesInv

LEMMA WriterInitial == WriterInit => WriterInv
<1> SUFFICES ASSUME WriterInit PROVE WriterInv
  OBVIOUS
<1>1. WriterTypes
  BY DEF WriterInit, WriterTypes, Transactions, NoTx
<1>2. \A w \in Writers : Idle(w) /\ tx[w] = NoTx
  BY DEF WriterInit, Idle, NoTx
<1>3. Apart
  BY <1>2 DEF Apart, Locked, NoTx
<1>4. NewestShown /\ QuotesInv
  BY DEF WriterInit, NewestShown, QuotesInv
<1> QED BY <1>1, <1>2, <1>3, <1>4 DEF WriterInv, TxInv

LEMMA RowsOfRecords ==
    ASSUME NEW r \in Records
    PROVE  RowsIn[r] \subseteq Rows /\ Quotes[r] \subseteq NaturalKeys
BY DEF Rows, NaturalKeys, RowsIn, Quotes

LEMMA LockedRows ==
    ASSUME WriterTypes, NEW w \in Writers, ~Idle(w)
    PROVE  /\ tx[w].rec \in Records /\ tx[w].step \in Nat
           /\ Len(Spine(w)) \in Nat /\ DOMAIN Spine(w) = 1 .. Len(Spine(w))
           /\ Locked(w) \subseteq RowsIn[tx[w].rec]
           /\ tx[w].step >= Len(Spine(w)) => Locked(w) = RowsIn[tx[w].rec]
<1> DEFINE r == tx[w].rec
<1>1. r \in Records /\ tx[w].step \in Nat
  BY DEF WriterTypes, Transactions, Idle
<1> HIDE DEF r
<1>2. Spine(w) = Spines[r]
  BY DEF Spine, r
<1>3. /\ Len(Spines[r]) \in Nat /\ DOMAIN Spines[r] = 1 .. Len(Spines[r])
      /\ RowsIn[r] = {Spines[r][i] : i \in 1 .. Len(Spines[r])}
  BY <1>1, SpineFacts
<1>4. Locked(w) = {Spines[r][i] : i \in DOMAIN Spines[r] \cap (1 .. tx[w].step)}
  BY <1>2 DEF Locked
<1>5. tx[w].step >= Len(Spines[r]) => (1 .. Len(Spines[r])) \cap (1 .. tx[w].step) = 1 .. Len(Spines[r])
  BY <1>1, <1>3
<1> QED BY <1>1, <1>2, <1>3, <1>4, <1>5 DEF r

\* A transaction that does not move keeps what it has.
LEMMA TxStays ==
    ASSUME NEW w, tx'[w] = tx[w]
    PROVE  /\ Locked(w)' = Locked(w) /\ Spine(w)' = Spine(w)
           /\ Idle(w)' = Idle(w)
BY DEF Locked, Idle, Spine

\* One that ends lets go of everything.
LEMMA TxEnds ==
    ASSUME NEW w, tx'[w] = NoTx
    PROVE  Locked(w)' = {} /\ Idle(w)' /\ tx'[w].inserts = {} /\ TxInv(w)'
<1>1. Idle(w)'
  BY DEF Idle, NoTx
<1> QED BY <1>1 DEF Locked, Idle, NoTx, TxInv

\* Steps of one transaction that change no table.
LEMMA Undisturbed ==
    ASSUME WriterInv, NEW w \in Writers, TxInv(w)', tx'[w] \in Transactions,
           tx' = [tx EXCEPT ![w] = tx'[w]],
           UNCHANGED <<rows, stored, handled, committed>>,
           \A v \in Writers \ {w} : Locked(w)' \cap Locked(v) = {}
                                    /\ tx'[w].inserts \cap tx[v].inserts = {}
    PROVE  WriterInv'
<1>1. \A v \in Writers \ {w} : tx'[v] = tx[v]
  BY DEF WriterInv, WriterTypes
<1>2. WriterTypes'
  BY DEF WriterInv, WriterTypes
<1>3. ASSUME NEW v \in Writers \ {w} PROVE TxInv(v)'
  <2>1. tx'[v] = tx[v] /\ Locked(v)' = Locked(v) /\ Spine(v)' = Spine(v) /\ Idle(v)' = Idle(v)
    BY <1>1, TxStays
  <2>2. TxInv(v)
    BY DEF WriterInv
  <2> QED BY <2>1, <2>2 DEF TxInv, Rewrites, NotStored
<1>4. Apart'
  <2> SUFFICES ASSUME NEW u \in Writers, NEW v \in Writers, u # v
               PROVE  Locked(u)' \cap Locked(v)' = {} /\ tx'[u].inserts \cap tx'[v].inserts = {}
    BY DEF Apart
  <2>1. ASSUME NEW x \in Writers \ {w} PROVE Locked(x)' = Locked(x) /\ tx'[x] = tx[x]
    BY <1>1, TxStays
  <2>2. CASE u = w
    BY <2>1, <2>2
  <2>3. CASE v = w
    BY <2>1, <2>3
  <2>4. CASE u # w /\ v # w
    BY <2>1, <2>4 DEF WriterInv, Apart
  <2> QED BY <2>2, <2>3, <2>4
<1>5. NewestShown' /\ QuotesInv'
  BY DEF WriterInv, NewestShown, QuotesInv
<1> QED BY <1>2, <1>3, <1>4, <1>5 DEF WriterInv

LEMMA BeginningStep ==
    ASSUME WriterInv, NEW w \in Writers, NEW r \in Records, Begins(w, r)
    PROVE  WriterInv'
<1> DEFINE new == [NoTx EXCEPT !.rec = r]
<1>1. /\ Feed[r].good /\ tx' = [tx EXCEPT ![w] = new]
      /\ UNCHANGED <<rows, stored, handled, committed>>
  BY DEF Begins
<1>2. tx'[w] = new
  BY <1>1 DEF WriterInv, WriterTypes
<1>3. /\ new.rec = r /\ new.step = 0 /\ new.puts = {} /\ new.inserts = {}
      /\ new \in Transactions
  BY DEF NoTx, Transactions
<1> HIDE DEF new
<1>4. ~Idle(w)' /\ Spine(w)' = Spines[r]
  BY <1>2, <1>3, WriterAssumption DEF Idle, Spine, Records
<1>5. Locked(w)' = {}
  BY <1>2, <1>3 DEF Locked
<1>6. Len(Spines[r]) \in Nat
  BY SpineFacts
<1>7. TxInv(w)'
  BY <1>1, <1>2, <1>3, <1>4, <1>5, <1>6 DEF TxInv
<1> QED BY <1>1, <1>2, <1>3, <1>5, <1>7, Undisturbed

LEMMA UpsertingStep ==
    ASSUME WriterInv, NEW w \in Writers, Upserts(w)
    PROVE  WriterInv'
<1> DEFINE r == tx[w].rec
           k == tx[w].step
           line == Spines[r][k + 1]
           new == [tx[w] EXCEPT !.step = k + 1,
                                !.puts = IF Rewrites(line, r) THEN tx[w].puts \cup {line} ELSE tx[w].puts]
<1>1. /\ WriterTypes /\ TxInv(w) /\ ~Idle(w) /\ k < Len(Spines[r])
      /\ Wanted(w) = line /\ Spine(w) = Spines[r]
      /\ \A v \in Writers : ~WaitsFor(w, v) /\ Upserting(w)
      /\ UNCHANGED <<rows, stored, handled, committed>>
  BY DEF WriterInv, Upserts, Upserting, Wanted, Spine
<1>2. r \in Records /\ k \in Nat /\ tx[w] \in Transactions
  BY <1>1, LockedRows DEF WriterTypes
<1>3. tx' = [tx EXCEPT ![w] = new]
  BY <1>1 DEF Upserts, Rewrites, WriterTypes
<1>4. tx'[w] = new
  BY <1>1, <1>3 DEF WriterTypes
<1>5. /\ Len(Spines[r]) \in Nat /\ DOMAIN Spines[r] = 1 .. Len(Spines[r])
      /\ RowsIn[r] = {Spines[r][i] : i \in 1 .. Len(Spines[r])}
      /\ \A i, j \in 1 .. Len(Spines[r]) : i < j => Precedes(Spines[r][i], Spines[r][j])
  BY <1>2, SpineFacts
<1>6. k + 1 \in 1 .. Len(Spines[r]) /\ line \in RowsIn[r] /\ line \in Rows
  <2>1. k + 1 \in 1 .. Len(Spines[r])
    BY <1>1, <1>2, <1>5
  <2>2. line \in RowsIn[r]
    BY <2>1, <1>5
  <2> QED BY <2>1, <2>2, <1>2, RowsOfRecords
<1>7. /\ new.rec = r /\ new.step = k + 1 /\ new.inserts = tx[w].inserts
      /\ new.puts = IF Rewrites(line, r) THEN tx[w].puts \cup {line} ELSE tx[w].puts
      /\ new \in Transactions
  <2>1. k + 1 \in Nat /\ tx[w].puts \cup {line} \in SUBSET Rows
    BY <1>2, <1>6 DEF Transactions
  <2> QED BY <2>1, <1>2 DEF Transactions
<1> HIDE DEF new
<1>8. ~Idle(w)' /\ Spine(w)' = Spines[r]
  BY <1>1, <1>4, <1>7 DEF Idle, Spine
<1>9. /\ Locked(w) = {Spines[r][i] : i \in DOMAIN Spines[r] \cap (1 .. k)}
      /\ Locked(w)' = {Spines[r][i] : i \in DOMAIN Spines[r] \cap (1 .. (k + 1))}
  BY <1>1, <1>4, <1>7, <1>8 DEF Locked
<1>10. Locked(w)' = Locked(w) \cup {line}
  <2>1. 1 .. (k + 1) = (1 .. k) \cup {k + 1}
    BY <1>2
  <2> QED BY <2>1, <1>5, <1>6, <1>9
<1>11. line \notin Locked(w)
  <2> SUFFICES ASSUME line \in Locked(w) PROVE FALSE
    OBVIOUS
  <2>1. PICK i \in 1 .. Len(Spines[r]) : i \in 1 .. k /\ line = Spines[r][i]
    BY <1>5, <1>9
  <2>2. Precedes(line, line)
    <3>1. i < k + 1
      BY <2>1, <1>2
    <3> QED BY <2>1, <3>1, <1>5, <1>6
  <2> QED BY <2>2, <1>2, <1>6, OneOrder
<1>12. /\ tx[w].inserts = {} /\ tx[w].puts \subseteq Locked(w)
       /\ \A x \in Locked(w) : x \in tx[w].puts <=> Rewrites(x, r)
       /\ Feed[r].good
  BY <1>1, <1>2, <1>5 DEF TxInv
<1>13. TxInv(w)'
  <2>1. tx'[w].puts \subseteq Locked(w)'
    BY <1>4, <1>7, <1>10, <1>12
  <2>2. \A x : Rewrites(x, tx[w].rec)' <=> Rewrites(x, r)
    BY <1>1, <1>4, <1>7 DEF Rewrites
  <2>3. \A x \in Locked(w)' : x \in tx'[w].puts <=> Rewrites(x, r)
    <3> SUFFICES ASSUME NEW x \in Locked(w)' PROVE x \in tx'[w].puts <=> Rewrites(x, r)
      OBVIOUS
    <3>1. CASE x = line
      <4>1. line \notin tx[w].puts
        BY <1>11, <1>12
      <4> QED BY <3>1, <4>1, <1>4, <1>7
    <3>2. CASE x # line
      <4>1. x \in Locked(w)
        BY <3>2, <1>10
      <4>2. x \in tx[w].puts <=> Rewrites(x, r)
        BY <4>1, <1>12
      <4> QED BY <3>2, <4>2, <1>4, <1>7
    <3> QED BY <3>1, <3>2
  <2>4. tx'[w].rec = r /\ tx'[w].step = k + 1 /\ tx'[w].inserts = {}
    BY <1>4, <1>7, <1>12
  <2>5. \A x \in Locked(w)' : x \in tx'[w].puts <=> Rewrites(x, tx[w].rec)'
    BY <2>2, <2>3
  <2>6. tx'[w].step <= Len(Spine(w)') + 1 /\ ~(tx'[w].step > Len(Spine(w)'))
    BY <1>1, <1>2, <1>5, <1>8, <2>4
  <2>7. Feed[tx'[w].rec].good
    BY <1>12, <2>4
  <2> QED BY <1>8, <2>1, <2>4, <2>5, <2>6, <2>7, Zenon DEF TxInv
<1>14. \A v \in Writers \ {w} : Locked(w)' \cap Locked(v) = {}
                                /\ tx'[w].inserts \cap tx[v].inserts = {}
  <2> SUFFICES ASSUME NEW v \in Writers \ {w}
               PROVE  Locked(w)' \cap Locked(v) = {} /\ tx'[w].inserts \cap tx[v].inserts = {}
    OBVIOUS
  <2>1. line \notin Locked(v)
    BY <1>1 DEF WaitsFor
  <2> QED BY <2>1, <1>4, <1>7, <1>10 DEF WriterInv, Apart
<1> QED BY <1>1, <1>3, <1>4, <1>7, <1>13, <1>14, Undisturbed

LEMMA InsertingStep ==
    ASSUME WriterInv, NEW w \in Writers, InsertPrices(w)
    PROVE  WriterInv'
<1> DEFINE r == tx[w].rec
           k == tx[w].step
           new == [tx[w] EXCEPT !.step = k + 1, !.inserts = NotStored(r)]
<1>1. /\ WriterTypes /\ TxInv(w) /\ ~Idle(w) /\ k = Len(Spines[r])
      /\ Spine(w) = Spines[r] /\ Quotes[r] \cap Pending(w) = {}
      /\ tx' = [tx EXCEPT ![w] = new]
      /\ UNCHANGED <<rows, stored, handled, committed>>
  BY DEF WriterInv, InsertPrices, Spine, WriterTypes
<1>2. r \in Records /\ k \in Nat /\ tx[w] \in Transactions
  BY <1>1, LockedRows DEF WriterTypes
<1>3. tx'[w] = new
  BY <1>1 DEF WriterTypes
<1>4. NotStored(r) \subseteq Quotes[r] /\ NotStored(r) \subseteq NaturalKeys
  BY <1>2, RowsOfRecords DEF NotStored
<1>5. /\ new.rec = r /\ new.step = k + 1 /\ new.inserts = NotStored(r) /\ new.puts = tx[w].puts
      /\ new \in Transactions
  <2>1. k + 1 \in Nat
    BY <1>2
  <2> QED BY <2>1, <1>2, <1>4 DEF Transactions
<1> HIDE DEF new
<1>6. ~Idle(w)' /\ Spine(w)' = Spines[r]
  BY <1>1, <1>3, <1>5 DEF Idle, Spine
<1>7. Len(Spines[r]) \in Nat /\ DOMAIN Spines[r] = 1 .. Len(Spines[r])
  BY <1>2, SpineFacts
<1>8. Locked(w)' = Locked(w)
  <2>1. (1 .. k) \cap (1 .. (k + 1)) = 1 .. k /\ (1 .. k) \cap (1 .. k) = 1 .. k
    BY <1>2
  <2> QED BY <2>1, <1>1, <1>3, <1>5, <1>6, <1>7 DEF Locked
<1>9. TxInv(w)'
  <2>1. /\ tx[w].puts \subseteq Locked(w)
        /\ \A x \in Locked(w) : x \in tx[w].puts <=> Rewrites(x, r)
        /\ Feed[r].good
    BY <1>1 DEF TxInv
  <2>2. tx'[w].rec = r /\ tx'[w].step = k + 1 /\ tx'[w].puts = tx[w].puts
        /\ tx'[w].inserts = NotStored(r)
    BY <1>3, <1>5
  <2>3. \A x : Rewrites(x, tx[w].rec)' <=> Rewrites(x, r)
    BY <1>1, <2>2 DEF Rewrites
  <2>4. NotStored(tx[w].rec)' = NotStored(r)
    BY <1>1, <2>2 DEF NotStored
  <2>5. tx'[w].step <= Len(Spine(w)') + 1 /\ ~(tx'[w].step <= Len(Spine(w)'))
    BY <1>1, <1>6, <1>7, <2>2
  <2>6. \A x \in Locked(w)' : x \in tx'[w].puts <=> Rewrites(x, tx[w].rec)'
    BY <1>8, <2>1, <2>2, <2>3
  <2>7. Feed[tx'[w].rec].good /\ tx'[w].puts \subseteq Locked(w)'
    BY <1>8, <2>1, <2>2
  <2>8. tx'[w].inserts = NotStored(tx[w].rec)'
    BY <2>2, <2>4
  <2> QED BY <1>6, <2>5, <2>6, <2>7, <2>8 DEF TxInv
<1>10. \A v \in Writers \ {w} : Locked(w)' \cap Locked(v) = {}
                                /\ tx'[w].inserts \cap tx[v].inserts = {}
  <2> SUFFICES ASSUME NEW v \in Writers \ {w}
               PROVE  Locked(w)' \cap Locked(v) = {} /\ tx'[w].inserts \cap tx[v].inserts = {}
    OBVIOUS
  <2>1. tx[v].inserts \subseteq Pending(w)
    BY DEF Pending
  <2> QED BY <2>1, <1>1, <1>3, <1>4, <1>5, <1>8 DEF WriterInv, Apart
<1> QED BY <1>1, <1>3, <1>5, <1>9, <1>10, Undisturbed

LEMMA RollingStep ==
    ASSUME WriterInv, NEW w \in Writers, RollsBack(w)
    PROVE  WriterInv'
<1>1. /\ tx' = [tx EXCEPT ![w] = NoTx] /\ tx'[w] = NoTx
      /\ UNCHANGED <<rows, stored, handled, committed>>
  BY DEF RollsBack, WriterInv, WriterTypes
<1>2. /\ Locked(w)' = {} /\ tx'[w].inserts = {} /\ TxInv(w)'
  BY <1>1, TxEnds
<1>3. NoTx \in Transactions
  BY DEF NoTx, Transactions
<1> QED BY <1>1, <1>2, <1>3, Undisturbed

\* A commit: what the transaction decided is what the tables need.
LEMMA InstallingStep ==
    ASSUME WriterInv, NEW w \in Writers, Installs(w), handled' \subseteq handled \cup {tx[w].rec}
    PROVE  WriterInv'
<1> DEFINE r == tx[w].rec
<1>1. /\ WriterTypes /\ TxInv(w) /\ ~Idle(w) /\ tx[w].step > Len(Spine(w))
      /\ rows' = [x \in Rows |-> IF x \in tx[w].puts THEN r ELSE rows[x]]
      /\ stored' = [q \in NaturalKeys |-> IF q \in tx[w].inserts THEN stored[q] + 1 ELSE stored[q]]
      /\ committed' = committed \cup {r}
      /\ tx' = [tx EXCEPT ![w] = NoTx]
  BY DEF WriterInv, Installs
<1>2. /\ r \in Records /\ Locked(w) = RowsIn[r]
      /\ RowsIn[r] \subseteq Rows /\ Quotes[r] \subseteq NaturalKeys
  <2>1. r \in Records /\ Locked(w) = RowsIn[r]
    BY <1>1, LockedRows
  <2> QED BY <2>1, RowsOfRecords
<1>3. /\ Feed[r].good /\ tx[w].puts \subseteq RowsIn[r]
      /\ \A x \in RowsIn[r] : x \in tx[w].puts <=> Rewrites(x, r)
      /\ tx[w].inserts = {q \in Quotes[r] : stored[q] = 0}
  BY <1>1, <1>2 DEF TxInv, NotStored
<1>4. tx'[w] = NoTx /\ \A v \in Writers \ {w} : tx'[v] = tx[v]
  BY <1>1 DEF WriterTypes
<1>5. Locked(w)' = {} /\ tx'[w].inserts = {} /\ TxInv(w)'
  BY <1>4, TxEnds
<1>6. \A q \in NaturalKeys : /\ q \in Quotes[r] => stored'[q] = 1
                             /\ q \notin Quotes[r] => stored'[q] = stored[q]
                             /\ stored[q] = 1 => stored'[q] = 1
                             /\ stored'[q] \in 0 .. 1
  BY <1>1, <1>3 DEF WriterTypes
<1>7. WriterTypes'
  <2>1. NoTx \in Transactions
    BY DEF NoTx, Transactions
  <2>2. tx' \in [Writers -> Transactions]
    BY <1>1, <2>1 DEF WriterTypes
  <2>3. rows' \in [Rows -> Records \cup {NoRow}] /\ stored' \in [NaturalKeys -> 0 .. 1]
    BY <1>1, <1>2, <1>6 DEF WriterTypes
  <2> QED BY <2>2, <2>3, <1>1, <1>2, <1>3 DEF WriterTypes
<1>8. ASSUME NEW v \in Writers \ {w} PROVE TxInv(v)'
  <2>1. tx'[v] = tx[v] /\ Locked(v)' = Locked(v) /\ Spine(v)' = Spine(v) /\ Idle(v)' = Idle(v)
    BY <1>4, TxStays
  <2>2. TxInv(v) /\ Locked(v) \cap RowsIn[r] = {} /\ tx[v].inserts \cap tx[w].inserts = {}
    BY <1>2 DEF WriterInv, Apart
  <2>3. CASE Idle(v)
    BY <2>1, <2>2, <2>3 DEF TxInv
  <2>4. CASE ~Idle(v)
    <3>1. tx[v].rec \in Records /\ Locked(v) \subseteq RowsIn[tx[v].rec]
          /\ RowsIn[tx[v].rec] \subseteq Rows /\ Quotes[tx[v].rec] \subseteq NaturalKeys
      <4>1. tx[v].rec \in Records /\ Locked(v) \subseteq RowsIn[tx[v].rec]
        BY <2>4, <1>1, LockedRows
      <4> QED BY <4>1, RowsOfRecords
    <3>2. ASSUME NEW x \in Locked(v) PROVE Rewrites(x, tx[v].rec)' <=> Rewrites(x, tx[v].rec)
      <4>1. rows'[x] = rows[x]
        BY <3>1, <1>1, <1>3, <2>2
      <4> QED BY <4>1, <2>1 DEF Rewrites
    <3>3. tx[v].inserts = NotStored(tx[v].rec) => tx[v].inserts = NotStored(tx[v].rec)'
      <4> SUFFICES ASSUME tx[v].inserts = NotStored(tx[v].rec)
                   PROVE  \A q \in Quotes[tx[v].rec] : stored[q] = 0 <=> stored'[q] = 0
        BY <2>1 DEF NotStored
      <4> SUFFICES ASSUME NEW q \in Quotes[tx[v].rec]
                   PROVE  stored[q] = 0 <=> stored'[q] = 0
        OBVIOUS
      <4>1. q \in NaturalKeys /\ stored[q] \in 0 .. 1
        BY <3>1, <1>1 DEF WriterTypes
      <4>2. stored[q] = 0 => q \in tx[v].inserts
        BY DEF NotStored
      <4> QED BY <4>1, <4>2, <1>1, <2>2
    <3> QED BY <2>1, <2>2, <2>4, <3>2, <3>3 DEF TxInv
  <2> QED BY <2>3, <2>4
<1>9. Apart'
  <2> SUFFICES ASSUME NEW u \in Writers, NEW v \in Writers, u # v
               PROVE  Locked(u)' \cap Locked(v)' = {} /\ tx'[u].inserts \cap tx'[v].inserts = {}
    BY DEF Apart
  <2>1. ASSUME NEW x \in Writers \ {w} PROVE Locked(x)' = Locked(x) /\ tx'[x] = tx[x]
    BY <1>4, TxStays
  <2> QED BY <2>1, <1>5 DEF WriterInv, Apart
<1>10. QuotesInv'
  <2>1. ASSUME NEW p \in committed', NEW q \in Quotes[p] PROVE stored'[q] = 1
    <3>1. p \in Records /\ q \in NaturalKeys
      BY <2>1, <1>1, <1>2, RowsOfRecords DEF WriterTypes
    <3> QED BY <3>1, <2>1, <1>1, <1>6 DEF WriterInv, QuotesInv
  <2>2. ASSUME NEW q \in NaturalKeys, stored'[q] = 1 PROVE \E p \in committed' : q \in Quotes[p]
    BY <2>2, <1>1, <1>6 DEF WriterInv, QuotesInv
  <2> QED BY <2>1, <2>2 DEF QuotesInv
<1>11. NewestShown'
  <2> SUFFICES ASSUME NEW x \in Rows
               PROVE  LET touching == {p \in committed' : x \in RowsIn[p]}
                      IN  /\ (rows'[x] = NoRow) = (touching = {})
                          /\ (x[1] \in TimedTables /\ touching # {}) =>
                               /\ rows'[x] \in touching
                               /\ \A p \in touching : Feed[p].at <= Feed[rows'[x]].at
    BY DEF NewestShown
  <2> DEFINE old == {p \in committed : x \in RowsIn[p]}
             touching == {p \in committed' : x \in RowsIn[p]}
  <2>1. /\ rows[x] = NoRow <=> old = {}
        /\ (x[1] \in TimedTables /\ old # {}) =>
             rows[x] \in old /\ \A p \in old : Feed[p].at <= Feed[rows[x]].at
    BY DEF WriterInv, NewestShown
  <2>2. NoRow \notin Records /\ \A p \in Records : Feed[p].at \in Nat
    BY WriterAssumption DEF Records
  <2>3. old \subseteq Records
    BY <1>1 DEF WriterTypes
  <2>4. /\ touching = IF x \in RowsIn[r] THEN old \cup {r} ELSE old
        /\ rows'[x] = IF x \in tx[w].puts THEN r ELSE rows[x]
    BY <1>1
  <2> HIDE DEF old, touching
  <2>5. CASE x \notin RowsIn[r]
    BY <2>1, <2>4, <2>5, <1>3 DEF touching
  <2>6. CASE x \in tx[w].puts
    <3>1. touching = old \cup {r} /\ rows'[x] = r /\ Rewrites(x, r)
      BY <2>4, <2>6, <1>3
    <3>2. x[1] \in TimedTables => \A p \in touching : Feed[p].at <= Feed[r].at
      <4> SUFFICES ASSUME x[1] \in TimedTables, NEW p \in old PROVE Feed[p].at <= Feed[r].at
        BY <3>1, <2>2, <1>2
      <4>1. rows[x] # NoRow /\ rows[x] \in Records /\ Feed[p].at <= Feed[rows[x]].at
        BY <2>1, <2>3
      <4>2. Feed[r].at >= Feed[rows[x]].at
        BY <3>1, <4>1 DEF Rewrites, Newer
      <4> QED BY <4>1, <4>2, <2>2, <2>3, <1>2
    <3> QED BY <3>1, <3>2, <2>2, <1>2 DEF touching
  <2>7. CASE x \in RowsIn[r] /\ x \notin tx[w].puts
    <3>1. touching = old \cup {r} /\ rows'[x] = rows[x] /\ ~Rewrites(x, r)
      BY <2>4, <2>7, <1>3
    <3>2. rows[x] # NoRow /\ old # {}
      BY <3>1, <2>1 DEF Rewrites
    <3>3. rows[x] = r \/ (x[1] \in TimedTables /\ ~(Feed[r].at >= Feed[rows[x]].at))
      BY <3>1 DEF Rewrites, Newer, Distinct
    <3>4. x[1] \in TimedTables => Feed[r].at <= Feed[rows[x]].at
      <4> SUFFICES ASSUME x[1] \in TimedTables PROVE Feed[r].at <= Feed[rows[x]].at
        OBVIOUS
      <4>1. rows[x] \in Records
        BY <2>1, <2>3, <3>2
      <4> QED BY <3>3, <4>1, <2>2, <1>2
    <3> QED BY <3>1, <3>2, <3>4, <2>1 DEF touching
  <2> QED BY <2>5, <2>6, <2>7, <1>3
<1> QED BY <1>5, <1>7, <1>8, <1>9, <1>10, <1>11 DEF WriterInv

LEMMA WriterStep == WriterInv /\ [WriterNext]_writerVars => WriterInv'
<1> SUFFICES ASSUME WriterInv, [WriterNext]_writerVars PROVE WriterInv'
  OBVIOUS
<1>1. ASSUME UNCHANGED <<rows, stored, tx, handled, committed>> PROVE WriterInv'
  <2>1. \A w : TxInv(w)' <=> TxInv(w)
    BY <1>1 DEF TxInv, Idle, Spine, Locked, Rewrites, NotStored
  <2>2. Apart'
    BY <1>1 DEF WriterInv, Apart, Locked, Idle, Spine
  <2> QED BY <1>1, <2>1, <2>2 DEF WriterInv, WriterTypes, NewestShown, QuotesInv
<1>2. ASSUME NEW w \in Writers, NEW r \in Records, Rejects(w, r) PROVE WriterInv'
  BY <1>1, <1>2 DEF Rejects
<1>3. ASSUME UNCHANGED writerVars PROVE WriterInv'
  BY <1>1, <1>3 DEF writerVars
<1>4. ASSUME NEW w \in Writers, NEW r \in Records, Begins(w, r) PROVE WriterInv'
  BY <1>4, BeginningStep
<1>5. ASSUME NEW w \in Writers, Upserts(w) PROVE WriterInv'
  BY <1>5, UpsertingStep
<1>6. ASSUME NEW w \in Writers, InsertPrices(w) PROVE WriterInv'
  BY <1>6, InsertingStep
<1>7. ASSUME NEW w \in Writers, CommitsRows(w) PROVE WriterInv'
  BY <1>7, InstallingStep DEF CommitsRows
<1>8. ASSUME NEW w \in Writers, CommitUnknown(w) PROVE WriterInv'
  BY <1>8, InstallingStep DEF CommitUnknown
<1>9. ASSUME NEW w \in Writers, RollsBack(w) PROVE WriterInv'
  BY <1>9, RollingStep
<1> QED BY <1>2, <1>3, <1>4, <1>5, <1>6, <1>7, <1>8, <1>9 DEF WriterNext

-----------------------------------------------------------------------------
(* What the tables promise *)

\* Whoever is waited for has locked that row, and what it wants itself comes after.
LEMMA WaitsInOrder ==
    ASSUME WriterTypes, NEW v \in Writers, NEW w \in Writers, WaitsFor(v, w), Upserting(w)
    PROVE  /\ tx[w].rec \in Records /\ Wanted(w) \in RowsIn[tx[w].rec]
           /\ Precedes(Wanted(v), Wanted(w))
<1> DEFINE r == tx[w].rec
           k == tx[w].step
<1>1. ~Idle(w) /\ k < Len(Spines[r]) /\ Wanted(w) = Spines[r][k + 1] /\ Spine(w) = Spines[r]
  BY DEF Upserting, Wanted, Spine
<1>2. r \in Records /\ k \in Nat
  BY <1>1, LockedRows
<1>3. /\ Len(Spines[r]) \in Nat /\ DOMAIN Spines[r] = 1 .. Len(Spines[r])
      /\ RowsIn[r] = {Spines[r][i] : i \in 1 .. Len(Spines[r])}
      /\ \A i, j \in 1 .. Len(Spines[r]) : i < j => Precedes(Spines[r][i], Spines[r][j])
  BY <1>2, SpineFacts
<1>4. PICK i \in 1 .. Len(Spines[r]) : i \in 1 .. k /\ Wanted(v) = Spines[r][i]
  BY <1>1, <1>3 DEF WaitsFor, Locked
<1>5. k + 1 \in 1 .. Len(Spines[r]) /\ i < k + 1
  BY <1>1, <1>2, <1>3, <1>4
<1> QED BY <1>1, <1>2, <1>3, <1>4, <1>5

LEMMA WriterPromises == WriterInv => WriterCorrect
<1> SUFFICES ASSUME WriterInv PROVE WriterCorrect
  OBVIOUS
<1>1. WriterTypes /\ NewestShown
  BY DEF WriterInv
<1>2. WriterTypeOK
  BY DEF WriterInv, WriterTypes, Apart, WriterTypeOK
<1>3. QuotesOnce
  <2>1. \A q \in NaturalKeys : stored[q] \in 0 .. 1
    BY <1>1 DEF WriterTypes
  <2>2. \A r \in handled : r \in committed
    BY <1>1 DEF WriterTypes
  <2> QED BY <2>1, <2>2 DEF WriterInv, QuotesInv, QuotesOnce
<1>4. ParentsExist
  <2> SUFFICES ASSUME NEW q \in NaturalKeys, stored[q] > 0
               PROVE  rows[<<"selection", q[1]>>] # NoRow /\ rows[<<"book", q[2]>>] # NoRow
    BY DEF ParentsExist
  <2>1. stored[q] = 1
    BY <1>1 DEF WriterTypes
  <2>2. PICK r \in committed : q \in Quotes[r]
    BY <2>1 DEF WriterInv, QuotesInv
  <2>3. r \in Records
    BY <1>1 DEF WriterTypes
  <2>4. q[1] \in Elements(Feed[r].selections) /\ q[2] \in Elements(Feed[r].books)
    BY <2>2, <2>3 DEF Quotes, QuotesOf
  <2>5. <<"selection", q[1]>> \in RowsIn[r] /\ <<"book", q[2]>> \in RowsIn[r]
    BY <2>3, <2>4, SpineFacts
  <2>6. \A line \in RowsIn[r] : rows[line] # NoRow
    <3>1. \A line \in RowsIn[r] : line \in Rows /\ r \in {p \in committed : line \in RowsIn[p]}
      BY <2>2, <2>3, RowsOfRecords
    <3> QED BY <3>1, <1>1 DEF NewestShown
  <2> QED BY <2>5, <2>6
<1>5. NoCircularWait
  <2> SUFFICES ASSUME NEW v \in Writers, NEW w \in Writers, WaitsFor(v, w), WaitsFor(w, v)
               PROVE  FALSE
    BY DEF NoCircularWait
  <2>1. Upserting(v) /\ Upserting(w)
    BY DEF WaitsFor
  <2>2. /\ tx[w].rec \in Records /\ Wanted(w) \in RowsIn[tx[w].rec]
        /\ Precedes(Wanted(v), Wanted(w))
    BY <1>1, <2>1, WaitsInOrder
  <2>3. /\ tx[v].rec \in Records /\ Wanted(v) \in RowsIn[tx[v].rec]
        /\ Precedes(Wanted(w), Wanted(v))
    BY <1>1, <2>1, WaitsInOrder
  <2> QED BY <2>2, <2>3, OneOrder
<1> QED BY <1>1, <1>2, <1>3, <1>4, <1>5 DEF WriterCorrect

\* writer.go, upsertCatalogue and insertPrices, with the statements' ON CONFLICT clauses:
\* for every feed, any number of writers and whatever is delivered again, a row shows the
\* newest observation committed, a record acknowledged has its quotes stored once, no quote
\* lacks its parents, and no two transactions wait for each other.
THEOREM LinesCorrect == WriterSpec => []WriterCorrect
<1>1. WriterInit => WriterInv
  BY WriterInitial
<1>2. WriterInv /\ [WriterNext]_writerVars => WriterInv'
  BY WriterStep
<1>3. WriterInv => WriterCorrect
  BY WriterPromises
<1> QED BY <1>1, <1>2, <1>3, PTL DEF WriterSpec

-----------------------------------------------------------------------------
(* Pages of a listing *)

\* A strict order has a first element on every finite set: one before which the fewest come.
LEMMA FirstExists ==
    ASSUME NEW S, IsFiniteSet(S), S # {}, NEW R,
           \A f \in S : <<f, f>> \notin R,
           \A f, g, h \in S : <<f, g>> \in R /\ <<g, h>> \in R => <<f, h>> \in R
    PROVE  \E f \in S : \A g \in S : <<g, f>> \notin R
<1> DEFINE Ahead(f) == {g \in S : <<g, f>> \in R}
           T == {Cardinality(Ahead(f)) : f \in S}
<1>1. \A f \in S : IsFiniteSet(Ahead(f)) /\ Cardinality(Ahead(f)) \in Nat
  <2> SUFFICES ASSUME NEW f \in S PROVE IsFiniteSet(Ahead(f)) /\ Cardinality(Ahead(f)) \in Nat
    OBVIOUS
  <2>1. IsFiniteSet(Ahead(f))
    BY FS_Subset
  <2> QED BY <2>1, FS_CardinalityType
<1>2. T \subseteq Nat /\ T # {}
  <2> HIDE DEF Ahead
  <2> QED BY <1>1
<1>3. PICK n \in T : \A m \in T : n <= m
  <2> HIDE DEF T
  <2> QED BY <1>2, Smallest
<1>4. PICK f \in S : n = Cardinality(Ahead(f))
  OBVIOUS
<1>5. ASSUME NEW g \in S, <<g, f>> \in R PROVE FALSE
  <2>1. Ahead(g) \subseteq Ahead(f) /\ g \in Ahead(f) /\ g \notin Ahead(g)
    BY <1>5
  <2>2. Cardinality(Ahead(g)) <= Cardinality(Ahead(f)) /\ Cardinality(Ahead(g)) # Cardinality(Ahead(f))
    <3> HIDE DEF Ahead
    <3> QED BY <1>1, <2>1, FS_Subset
  <2>3. Cardinality(Ahead(f)) <= Cardinality(Ahead(g))
    <3> HIDE DEF Ahead
    <3>1. Cardinality(Ahead(g)) \in T
      OBVIOUS
    <3> QED BY <3>1, <1>3, <1>4
  <2>4. Cardinality(Ahead(g)) \in Nat /\ Cardinality(Ahead(f)) \in Nat
    BY <1>1
  <2> HIDE DEF Ahead
  <2> QED BY <2>2, <2>3, <2>4
<1> QED BY <1>5

\* Every event has a key, and no two have the same.
LEMMA KeysOrdered ==
    ASSUME PagesTypeOK
    PROVE  /\ \A f \in Fixtures : KeyOf(f) \in Nat \X Nat
           /\ \A f \in Fixtures : ~Follows(KeyOf(f), KeyOf(f))
           /\ \A f, g \in Fixtures : f # g => Follows(KeyOf(f), KeyOf(g)) \/ Follows(KeyOf(g), KeyOf(f))
           /\ \A j, k, l \in Nat \X Nat : Follows(j, k) /\ Follows(k, l) => Follows(j, l)
           /\ \A j, k, l \in Nat \X Nat : Follows(j, k) /\ ~Follows(l, k) => Follows(j, l)
<1>1. \A f \in Fixtures : f \in Nat /\ fixture[f].start \in Nat
  BY PagesAssumption DEF PagesTypeOK
<1>2. \A f \in Fixtures : KeyOf(f) \in Nat \X Nat /\ KeyOf(f)[1] = fixture[f].start /\ KeyOf(f)[2] = f
  BY <1>1 DEF KeyOf
<1>3. \A j \in Nat \X Nat : j[1] \in Nat /\ j[2] \in Nat
  OBVIOUS
<1>4. \A j, k, l \in Nat \X Nat : Follows(j, k) /\ Follows(k, l) => Follows(j, l)
  <2> SUFFICES ASSUME NEW j \in Nat \X Nat, NEW k \in Nat \X Nat, NEW l \in Nat \X Nat,
                      Follows(j, k), Follows(k, l)
               PROVE  Follows(j, l)
    OBVIOUS
  <2>1. j[1] \in Nat /\ j[2] \in Nat /\ k[1] \in Nat /\ k[2] \in Nat /\ l[1] \in Nat /\ l[2] \in Nat
    BY <1>3
  <2> QED BY <2>1 DEF Follows
<1>5. \A j, k, l \in Nat \X Nat : Follows(j, k) /\ ~Follows(l, k) => Follows(j, l)
  <2> SUFFICES ASSUME NEW j \in Nat \X Nat, NEW k \in Nat \X Nat, NEW l \in Nat \X Nat,
                      Follows(j, k), ~Follows(l, k)
               PROVE  Follows(j, l)
    OBVIOUS
  <2>1. j[1] \in Nat /\ j[2] \in Nat /\ k[1] \in Nat /\ k[2] \in Nat /\ l[1] \in Nat /\ l[2] \in Nat
    BY <1>3
  <2> QED BY <2>1 DEF Follows
<1> QED BY <1>1, <1>2, <1>4, <1>5 DEF Follows

\* A page that is not the last ends with an event that what is left follows; the last has
\* all there is.
LEMMA PageFacts ==
    ASSUME PagesTypeOK, NEW S, S \subseteq Fixtures, NEW size \in Nat \ {0}
    PROVE  /\ HasMore(S, size) =>
                /\ LastOf(FirstOf(S, size)) \in S
                /\ \A f \in S : f \in FirstOf(S, size)
                                  <=> ~Follows(KeyOf(f), KeyOf(LastOf(FirstOf(S, size))))
           /\ ~HasMore(S, size) => FirstOf(S, size) = S
<1> DEFINE page == FirstOf(S, size)
           more == FirstOf(S, size + 1)
           Prec(f) == {g \in S : Follows(KeyOf(f), KeyOf(g))}
           after == {p \in S \X S : Follows(KeyOf(p[2]), KeyOf(p[1]))}
           before == {p \in S \X S : Follows(KeyOf(p[1]), KeyOf(p[2]))}
<1>1. IsFiniteSet(S)
  BY PagesAssumption, FS_Subset
<1>2. /\ \A f \in S : KeyOf(f) \in Nat \X Nat /\ ~Follows(KeyOf(f), KeyOf(f))
      /\ \A f, g \in S : f # g => Follows(KeyOf(f), KeyOf(g)) \/ Follows(KeyOf(g), KeyOf(f))
      /\ \A f, g, h \in S :
            Follows(KeyOf(f), KeyOf(g)) /\ Follows(KeyOf(g), KeyOf(h)) => Follows(KeyOf(f), KeyOf(h))
  BY KeysOrdered
<1>3. ASSUME NEW T, T \subseteq S, T # {}
      PROVE  /\ \E f \in T : \A g \in T : ~Follows(KeyOf(f), KeyOf(g))
             /\ \E f \in T : \A g \in T : ~Follows(KeyOf(g), KeyOf(f))
  <2>1. IsFiniteSet(T)
    BY <1>1, <1>3, FS_Subset
  <2>2. /\ \A f, g \in T : <<f, g>> \in after <=> Follows(KeyOf(g), KeyOf(f))
        /\ \A f, g \in T : <<f, g>> \in before <=> Follows(KeyOf(f), KeyOf(g))
    BY <1>3
  <2> HIDE DEF after, before
  <2>3. \E f \in T : \A g \in T : <<g, f>> \notin after
    <3>1. /\ \A f \in T : <<f, f>> \notin after
          /\ \A f, g, h \in T : <<f, g>> \in after /\ <<g, h>> \in after => <<f, h>> \in after
      BY <1>2, <1>3, <2>2
    <3> QED BY <3>1, <2>1, <1>3, FirstExists
  <2>4. \E f \in T : \A g \in T : <<g, f>> \notin before
    <3>1. /\ \A f \in T : <<f, f>> \notin before
          /\ \A f, g, h \in T : <<f, g>> \in before /\ <<g, h>> \in before => <<f, h>> \in before
      BY <1>2, <1>3, <2>2
    <3> QED BY <3>1, <2>1, <1>3, FirstExists
  <2> QED BY <2>2, <2>3, <2>4
<1> HIDE DEF after, before
<1>4. /\ \A f \in S : IsFiniteSet(Prec(f)) /\ Cardinality(Prec(f)) \in Nat
      /\ page = {f \in S : Cardinality(Prec(f)) < size}
      /\ more = {f \in S : Cardinality(Prec(f)) < size + 1}
      /\ page \subseteq more /\ more \subseteq S
  <2>1. ASSUME NEW f \in S PROVE IsFiniteSet(Prec(f)) /\ Cardinality(Prec(f)) \in Nat
    <3>1. IsFiniteSet(Prec(f))
      BY <1>1, FS_Subset
    <3> QED BY <3>1, FS_CardinalityType
  <2>2. /\ page = {f \in S : Cardinality(Prec(f)) < size}
        /\ more = {f \in S : Cardinality(Prec(f)) < size + 1}
    BY DEF FirstOf
  <2>3. page \subseteq more
    <3> HIDE DEF page, more, Prec
    <3> QED BY <2>1, <2>2
  <2> QED BY <2>1, <2>2, <2>3
<1>5. HasMore(S, size) <=> Cardinality(more) > size
  BY DEF HasMore
<1>6. \A f, g \in S : ~Follows(KeyOf(f), KeyOf(g)) => Cardinality(Prec(f)) <= Cardinality(Prec(g))
  <2> SUFFICES ASSUME NEW f \in S, NEW g \in S, ~Follows(KeyOf(f), KeyOf(g))
               PROVE  Cardinality(Prec(f)) <= Cardinality(Prec(g))
    OBVIOUS
  <2>1. Prec(f) \subseteq Prec(g)
    BY <1>2
  <2> HIDE DEF Prec
  <2> QED BY <2>1, <1>4, FS_Subset
<1>7. S # {} => \E f \in S : f \in page
  <2> SUFFICES ASSUME S # {} PROVE \E f \in S : f \in page
    OBVIOUS
  <2>1. PICK f \in S : \A g \in S : ~Follows(KeyOf(f), KeyOf(g))
    BY <1>3
  <2>2. Prec(f) = {}
    BY <2>1
  <2> HIDE DEF Prec, page
  <2> QED BY <2>2, <1>4, FS_EmptySet
<1>8. page # {} => /\ LastOf(page) \in page
                   /\ \A g \in page : ~Follows(KeyOf(g), KeyOf(LastOf(page)))
  <2> SUFFICES ASSUME page # {}
               PROVE  \E f \in page : \A g \in page : ~Follows(KeyOf(g), KeyOf(f))
    BY DEF LastOf
  <2> HIDE DEF page
  <2> QED BY <1>3, <1>4
<1>9. page # {} => \A f \in S : f \in page <=> ~Follows(KeyOf(f), KeyOf(LastOf(page)))
  <2> SUFFICES ASSUME page # {}, NEW f \in S, ~Follows(KeyOf(f), KeyOf(LastOf(page)))
               PROVE  f \in page
    BY <1>8
  <2> HIDE DEF page, Prec
  <2>1. LastOf(page) \in S /\ Cardinality(Prec(LastOf(page))) < size
    BY <1>4, <1>8
  <2>2. Cardinality(Prec(f)) <= Cardinality(Prec(LastOf(page)))
    BY <1>6, <2>1
  <2> QED BY <1>4, <2>1, <2>2
<1>10. HasMore(S, size) => page # {}
  <2> SUFFICES ASSUME S = {} PROVE ~(Cardinality(more) > size)
    BY <1>5, <1>7
  <2> HIDE DEF more
  <2>1. more = {}
    BY <1>4
  <2> QED BY <2>1, FS_EmptySet
<1>11. ASSUME page # S PROVE HasMore(S, size)
  <2> DEFINE left == S \ page
  <2> HIDE DEF page, more, Prec
  <2>1. left # {} /\ left \subseteq S
    BY <1>4, <1>11
  <2>2. PICK m \in left : \A g \in left : ~Follows(KeyOf(m), KeyOf(g))
    BY <1>3, <2>1
  <2>3. m \in S /\ m \notin page /\ Cardinality(Prec(m)) \in Nat /\ Cardinality(Prec(m)) >= size
    BY <1>4, <2>2
  <2>4. Prec(m) \subseteq page /\ m \notin Prec(m)
    BY <1>2, <2>2, <2>3 DEF Prec
  <2>5. IsFiniteSet(page) /\ Cardinality(page) \in Nat /\ Cardinality(Prec(m)) <= Cardinality(page)
    <3>1. IsFiniteSet(page)
      BY <1>1, <1>4, FS_Subset
    <3> QED BY <3>1, <2>4, FS_Subset, FS_CardinalityType
  <2>6. page # {} => Cardinality(page) <= size
    <3> SUFFICES ASSUME page # {} PROVE Cardinality(page) <= size
      OBVIOUS
    <3> DEFINE l == LastOf(page)
    <3>1. l \in S /\ l \in page /\ Cardinality(Prec(l)) < size /\ Cardinality(Prec(l)) \in Nat /\ IsFiniteSet(Prec(l))
      BY <1>4, <1>8
    <3>2. page \subseteq Prec(l) \cup {l}
      BY <1>2, <1>4, <1>8 DEF Prec
    <3> HIDE DEF l
    <3>3. IsFiniteSet(Prec(l) \cup {l}) /\ Cardinality(Prec(l) \cup {l}) <= size
      <4> DEFINE P == Prec(l)
      <4> HIDE DEF P
      <4>1. IsFiniteSet(P) /\ Cardinality(P) < size /\ Cardinality(P) \in Nat
        BY <3>1 DEF P
      <4>2. /\ IsFiniteSet(P \cup {l})
            /\ Cardinality(P \cup {l}) = IF l \in P THEN Cardinality(P) ELSE Cardinality(P) + 1
        BY <4>1, FS_AddElement
      <4>3. Cardinality(P \cup {l}) <= size
        BY <4>1, <4>2
      <4> QED BY <4>2, <4>3 DEF P
    <3>4. Cardinality(page) <= Cardinality(Prec(l) \cup {l}) /\ Cardinality(Prec(l) \cup {l}) \in Nat
      BY <3>2, <3>3, FS_Subset, FS_CardinalityType
    <3> QED BY <3>3, <3>4, <2>5
  <2>7. page = {} => Cardinality(page) <= size
    BY FS_EmptySet
  <2>8. Cardinality(Prec(m)) = size
    BY <2>3, <2>5, <2>6, <2>7
  <2>9. m \in more /\ Prec(m) \subseteq more
    BY <1>4, <2>3, <2>4, <2>8
  <2>10. Cardinality(Prec(m) \cup {m}) = size + 1 /\ IsFiniteSet(Prec(m) \cup {m})
    BY <1>4, <2>3, <2>4, <2>8, FS_AddElement
  <2>11. IsFiniteSet(more)
    BY <1>1, <1>4, FS_Subset
  <2>12. Cardinality(Prec(m) \cup {m}) <= Cardinality(more) /\ Cardinality(more) \in Nat
    BY <2>9, <2>11, FS_Subset, FS_CardinalityType
  <2> QED BY <2>10, <2>12, <1>5
<1> HIDE DEF Prec, more
<1>12. HasMore(S, size) => LastOf(page) \in S
  BY <1>4, <1>8, <1>10
<1> QED BY <1>9, <1>10, <1>11, <1>12

-----------------------------------------------------------------------------
(* A walk *)

Cursors == [key : Nat \X Nat,
            scope : {l.endpoint : l \in Listings} \X {l.selects : l \in Listings}
                      \X (Nat \cup {l.before : l \in Listings})]

PagesTypes ==
    /\ PagesTypeOK
    /\ instant \in Nat /\ listing \in Listings
    /\ fixture \in [Fixtures -> [start : StartTimes, status : Statuses]]
    /\ shown \in [Fixtures -> Nat] /\ steady \subseteq Fixtures
    /\ pageCursor \in Cursors \cup {NoCursor}

\* A walk has one scope from its first page on, that of its cursor; while the client asks
\* for the same, it is the scope of what it asks for.
ScopeInv ==
    /\ walk = "start" => scopes = {} /\ pageCursor = NoCursor /\ ~changed
    /\ walk = "under way" => scopes = {pageCursor.scope}
    /\ walk # "start" => \E s : scopes = {s}
    /\ ~changed => \A s \in scopes :
            /\ s = Scope(listing, s[3])
            /\ listing.before # Default => s[3] = listing.before

PagesInv ==
    /\ PagesTypes
    /\ ScopeInv
    /\ walk = "start" => \A f \in Fixtures : shown[f] = 0
    /\ EachOnce
    /\ WindowKeeps

LEMMA PagesInitial == PagesInit => PagesInv
BY PagesAssumption DEF PagesInit, PagesInv, PagesTypes, PagesTypeOK, ScopeInv, EachOnce, WindowKeeps, Statuses

LEMMA WindowFacts ==
    ASSUME PagesTypes
    PROVE  /\ Scope(listing, WindowOf(listing))[3] = WindowOf(listing)
           /\ listing.before # Default => WindowOf(listing) = listing.before
           /\ Scope(listing, WindowOf(listing))
                \in {l.endpoint : l \in Listings} \X {l.selects : l \in Listings}
                      \X (Nat \cup {l.before : l \in Listings})
<1>1. instant + Horizon \in Nat
  BY PagesAssumption DEF PagesTypes
<1> QED BY <1>1 DEF PagesTypes, WindowOf, Scope

\* What a page does to the walk.
LEMMA PageStep ==
    ASSUME PagesInv, NEW size \in Sizes, GetsPage(size)
    PROVE  PagesInv'
<1> DEFINE window == WindowOf(listing)
           scope == Scope(listing, window)
           all == InListing(listing, window)
           rest == After(all, IF pageCursor = NoCursor THEN NoCursor ELSE pageCursor.key)
           page == FirstOf(rest, size)
<1>1. /\ PagesTypes /\ PagesTypeOK /\ ScopeInv /\ walk \in {"start", "under way"}
      /\ UNCHANGED <<instant, fixture, edits, listing, changed>>
      /\ steady' = IF walk = "start" THEN Fixtures ELSE steady
      /\ Asks(listing, size)
      /\ size \in Nat \ {0}
  BY PagesAssumption DEF PagesInv, PagesTypes, GetsPage
<1>2. /\ scope[3] = window
      /\ listing.before # Default => window = listing.before
      /\ scope \in {l.endpoint : l \in Listings} \X {l.selects : l \in Listings}
                     \X (Nat \cup {l.before : l \in Listings})
  BY <1>1, WindowFacts
<1>3. all \subseteq Fixtures /\ rest \subseteq all
  <2>1. listing.selects \subseteq Fixtures
    BY <1>1, PagesAssumption DEF PagesTypes
  <2> QED BY <2>1 DEF InListing, After
<1>4. /\ pageCursor # NoCursor <=> walk = "under way"
      /\ walk = "under way" => /\ pageCursor \in Cursors /\ pageCursor.key \in Nat \X Nat
                               /\ pageCursor.key # NoCursor /\ scopes = {pageCursor.scope}
  <2>1. walk = "under way" => pageCursor # NoCursor /\ scopes = {pageCursor.scope}
    BY <1>1 DEF PagesTypeOK, ScopeInv
  <2>2. walk = "start" => pageCursor = NoCursor
    BY <1>1 DEF ScopeInv
  <2>3. pageCursor # NoCursor => pageCursor \in Cursors
    BY <1>1 DEF PagesTypes
  <2>4. pageCursor \in Cursors => pageCursor.key \in Nat \X Nat
    BY DEF Cursors
  <2> QED BY <2>1, <2>2, <2>3, <2>4, <1>1, PagesAssumption
<1>5. /\ walk = "start" => rest = all
      /\ walk = "under way" => rest = {f \in all : Follows(KeyOf(f), pageCursor.key)}
  BY <1>4 DEF After
<1> HIDE DEF window, scope, all, rest, page
<1>6. CASE ~Accepted(pageCursor, scope)
  <2>1. walk' = "refused" /\ UNCHANGED <<pageCursor, shown, scopes>>
    BY <1>1, <1>6 DEF Asks, window, scope
  <2>2. walk = "under way" /\ pageCursor.scope # scope /\ steady' = steady
    BY <1>1, <1>4, <1>6 DEF Accepted
  <2>3. ~(~changed /\ listing.before # Default)
    <3> SUFFICES ASSUME ~changed, listing.before # Default PROVE FALSE
      OBVIOUS
    <3>1. pageCursor.scope = Scope(listing, pageCursor.scope[3]) /\ pageCursor.scope[3] = listing.before
      BY <2>2, <1>1, <1>4 DEF ScopeInv
    <3> QED BY <3>1, <2>2, <1>2 DEF scope
  <2>4. PagesTypes'
    BY <1>1, <2>1, <2>2 DEF PagesTypes, PagesTypeOK, Statuses
  <2>5. ScopeInv'
    <3>1. \A s : Scope(listing, s[3])' = Scope(listing, s[3])
      BY <1>1 DEF Scope
    <3> QED BY <3>1, <1>1, <1>4, <2>1, <2>2 DEF ScopeInv
  <2> QED BY <2>1, <2>3, <2>4, <2>5, <1>1 DEF PagesInv, EachOnce, WindowKeeps
<1>7. CASE Accepted(pageCursor, scope)
  <2>1. /\ shown' = [f \in Fixtures |-> IF f \in page THEN shown[f] + 1 ELSE shown[f]]
        /\ scopes' = scopes \cup {scope}
        /\ IF HasMore(rest, size)
             THEN /\ walk' = "under way"
                  /\ pageCursor' = [key |-> KeyOf(LastOf(page)), scope |-> scope]
             ELSE /\ walk' = "done"
                  /\ UNCHANGED pageCursor
    BY <1>1, <1>7 DEF Asks, window, scope, page, rest, all
  <2>2. scopes' = {scope}
    <3>1. CASE walk = "start"
      BY <3>1, <2>1, <1>1 DEF ScopeInv
    <3>2. CASE walk = "under way"
      BY <3>2, <2>1, <1>4, <1>7 DEF Accepted
    <3> QED BY <3>1, <3>2, <1>1
  <2>3. rest \subseteq Fixtures
    BY <1>3
  <2>4. /\ HasMore(rest, size) =>
             /\ LastOf(page) \in rest
             /\ \A f \in rest : f \in page <=> ~Follows(KeyOf(f), KeyOf(LastOf(page)))
        /\ ~HasMore(rest, size) => page = rest
    BY <2>3, <1>1, PageFacts DEF page
  <2>5. /\ \A f \in Fixtures : KeyOf(f) \in Nat \X Nat
        /\ \A j, k, l \in Nat \X Nat : Follows(j, k) /\ ~Follows(l, k) => Follows(j, l)
        /\ \A f \in Fixtures : KeyOf(f)' = KeyOf(f)
    BY <1>1, KeysOrdered DEF KeyOf
  <2>6. HasMore(rest, size) => pageCursor' \in Cursors /\ pageCursor' # NoCursor
                               /\ pageCursor'.key = KeyOf(LastOf(page)) /\ pageCursor'.scope = scope
    <3> SUFFICES ASSUME HasMore(rest, size)
                 PROVE  pageCursor' \in Cursors /\ pageCursor' # NoCursor
                        /\ pageCursor'.key = KeyOf(LastOf(page)) /\ pageCursor'.scope = scope
      OBVIOUS
    <3>0. pageCursor' = [key |-> KeyOf(LastOf(page)), scope |-> scope]
      BY <2>1
    <3>1. KeyOf(LastOf(page)) \in Nat \X Nat
      BY <2>3, <2>4, <2>5
    <3>2. NoCursor \notin Cursors
      BY PagesAssumption DEF Cursors
    <3>3. pageCursor' \in Cursors
      <4> DEFINE W == {l.endpoint : l \in Listings} \X {l.selects : l \in Listings}
                       \X (Nat \cup {l.before : l \in Listings})
      <4>1. scope \in W /\ Cursors = [key : Nat \X Nat, scope : W]
        BY <1>2 DEF Cursors
      <4> HIDE DEF W
      <4>2. [key |-> KeyOf(LastOf(page)), scope |-> scope] \in [key : Nat \X Nat, scope : W]
        BY <3>1, <4>1
      <4> QED BY <3>0, <4>1, <4>2
    <3> QED BY <3>0, <3>2, <3>3
  <2>a. /\ \A f \in Fixtures : shown'[f] = IF f \in page THEN shown[f] + 1 ELSE shown[f]
        /\ \A f \in Fixtures : shown[f] \in Nat
    BY <2>1, <1>1 DEF PagesTypes
  <2>7. PagesTypes'
    <3>1. shown' \in [Fixtures -> Nat]
      <4>1. \A f \in Fixtures : (IF f \in page THEN shown[f] + 1 ELSE shown[f]) \in Nat
        BY <2>a
      <4> QED BY <4>1, <2>1
    <3>2. pageCursor' \in Cursors \cup {NoCursor}
      BY <2>1, <2>6, <1>1 DEF PagesTypes
    <3>3. PagesTypeOK'
      BY <2>1, <2>6, <1>1 DEF PagesTypeOK, Statuses
    <3> QED BY <3>1, <3>2, <3>3, <1>1 DEF PagesTypes, Statuses
  <2>8. /\ scope = Scope(listing, scope[3])
        /\ \A s : Scope(listing, s[3])' = Scope(listing, s[3])
        /\ listing'.before # Default => scope[3] = listing'.before
    <3>1. scope = Scope(listing, scope[3])
      BY <1>2 DEF scope
    <3>2. \A s : Scope(listing, s[3])' = Scope(listing, s[3])
      BY <1>1 DEF Scope
    <3> QED BY <3>1, <3>2, <1>1, <1>2
  <2>9. ScopeInv'
    <3>1. walk' = "under way" => scopes' = {pageCursor'.scope}
      BY <2>1, <2>2, <2>6
    <3> QED BY <3>1, <2>1, <2>2, <2>8 DEF ScopeInv
  \* An event that stays is on this page, on one before, or still to come.
  <2>10. EachOnce'
    <3> SUFFICES ASSUME ~changed', NEW f \in Standing'
                 PROVE  shown'[f] = IF walk' = "done" \/ ~Follows(KeyOf(f)', pageCursor'.key) THEN 1 ELSE 0
      BY DEF EachOnce
    <3>1. f \in steady' /\ f \in all /\ f \in Fixtures
      <4>1. PICK w \in scopes' : f \in steady' /\ f \in InListing(listing, w[3])'
        BY DEF Standing
      <4>2. \A sc : InListing(listing, sc[3])' = InListing(listing, sc[3])
        BY <1>1 DEF InListing
      <4>3. f \in all
        BY <4>1, <4>2, <2>2, <1>2 DEF all
      <4> QED BY <4>1, <4>3, <1>3
    <3>2. CASE walk = "under way" /\ ~Follows(KeyOf(f), pageCursor.key)
      <4>1. f \in Standing
        <5>1. steady' = steady /\ scopes = {scope}
          BY <3>2, <1>1, <1>4, <1>7 DEF Accepted
        <5> QED BY <5>1, <3>1, <1>2 DEF Standing, all
      <4>2. shown[f] = 1
        BY <4>1, <3>2, <1>1 DEF PagesInv, EachOnce
      <4>3. f \notin rest /\ f \notin page
        BY <3>2, <1>5 DEF page, FirstOf
      <4>4. shown'[f] = 1
        BY <4>2, <4>3, <3>1, <2>1
      <4>5. HasMore(rest, size) => ~Follows(KeyOf(f), KeyOf(LastOf(page)))
        <5> SUFFICES ASSUME HasMore(rest, size), Follows(KeyOf(f), KeyOf(LastOf(page))) PROVE FALSE
          OBVIOUS
        <5>1. LastOf(page) \in Fixtures /\ Follows(KeyOf(LastOf(page)), pageCursor.key)
          BY <2>3, <2>4, <3>2, <1>5
        <5>2. Follows(KeyOf(f), pageCursor.key)
          <6>1. /\ KeyOf(f) \in Nat \X Nat /\ KeyOf(LastOf(page)) \in Nat \X Nat
                /\ pageCursor.key \in Nat \X Nat
            BY <5>1, <2>5, <3>1, <3>2, <1>4
          <6>2. \A j, k, l \in Nat \X Nat : Follows(j, k) /\ Follows(k, l) => Follows(j, l)
            BY <1>1, KeysOrdered
          <6> QED BY <6>1, <6>2, <5>1
        <5> QED BY <5>2, <3>2
      <4> QED BY <4>4, <4>5, <2>1, <2>5, <2>6, <3>1
    <3>3. CASE ~(walk = "under way" /\ ~Follows(KeyOf(f), pageCursor.key))
      <4>1. f \in rest
        BY <3>1, <3>3, <1>1, <1>5
      <4>2. shown[f] = 0
        <5>1. CASE walk = "start"
          BY <5>1, <3>1 DEF PagesInv
        <5>2. CASE walk = "under way"
          <6>1. f \in Standing
            <7>1. steady' = steady /\ scopes = {scope}
              BY <5>2, <1>1, <1>4, <1>7 DEF Accepted
            <7> QED BY <7>1, <3>1, <1>2 DEF Standing, all
          <6> QED BY <6>1, <5>2, <3>3, <1>1 DEF PagesInv, EachOnce
        <5> QED BY <5>1, <5>2, <1>1
      <4>3. shown'[f] = IF f \in page THEN 1 ELSE 0
        BY <4>2, <3>1, <2>a
      <4> QED BY <4>1, <4>3, <2>1, <2>4, <2>5, <2>6, <3>1
    <3> QED BY <3>2, <3>3
  <2>11. walk' \notin {"start", "refused"}
    BY <2>1
  <2> QED BY <2>7, <2>9, <2>10, <2>11 DEF PagesInv, WindowKeeps
<1> QED BY <1>6, <1>7

\* An edit takes its event out of those that stay; every other keeps its place.
LEMMA EditStep ==
    ASSUME PagesInv, NEW f \in Fixtures, Edits(f)
    PROVE  PagesInv'
<1>1. PICK s \in StartTimes, status \in Statuses :
        fixture' = [fixture EXCEPT ![f] = [start |-> s, status |-> status]]
  BY DEF Edits
<1>2. /\ steady' = steady \ {f} /\ PagesTypes
      /\ UNCHANGED <<instant, listing, pageCursor, walk, shown, scopes, changed>>
  BY DEF Edits, PagesInv
<1>3. \A g \in Fixtures \ {f} : fixture'[g] = fixture[g]
  BY <1>1, <1>2 DEF PagesTypes
<1>4. PagesTypes'
  <2>1. fixture' \in [Fixtures -> [start : StartTimes, status : Statuses]]
    BY <1>1, <1>2 DEF PagesTypes
  <2>2. \A g \in Fixtures : fixture'[g].start \in StartTimes /\ fixture'[g].status \in Statuses
    BY <2>1
  <2> QED BY <2>1, <2>2, <1>2 DEF PagesTypes, PagesTypeOK
<1>5. ScopeInv'
  <2>1. \A sc : Scope(listing, sc[3])' = Scope(listing, sc[3])
    BY <1>2 DEF Scope
  <2> QED BY <2>1, <1>2 DEF PagesInv, ScopeInv
<1>6. \A g \in Standing' : g \in Standing /\ KeyOf(g)' = KeyOf(g)
  BY <1>2, <1>3 DEF Standing, InListing, KeyOf, PagesTypes
<1>7. EachOnce'
  BY <1>2, <1>6 DEF PagesInv, EachOnce
<1> QED BY <1>2, <1>4, <1>5, <1>7 DEF PagesInv, WindowKeeps

LEMMA PagesStep == PagesInv /\ [PagesNext]_pageVars => PagesInv'
<1> SUFFICES ASSUME PagesInv, [PagesNext]_pageVars PROVE PagesInv'
  OBVIOUS
<1>1. ASSUME NEW size \in Sizes, GetsPage(size) PROVE PagesInv'
  BY <1>1, PageStep
<1>2. ASSUME NEW f \in Fixtures, Edits(f) PROVE PagesInv'
  BY <1>2, EditStep
<1>3. ASSUME NEW l \in Listings, ChangesListing(l) PROVE PagesInv'
  BY <1>3 DEF ChangesListing, PagesInv, PagesTypes, PagesTypeOK, ScopeInv, EachOnce, WindowKeeps, Statuses
<1>4. ASSUME UNCHANGED <<fixture, edits, listing, pageCursor, walk, shown, steady, scopes, changed>>,
             instant' \in Nat
      PROVE  PagesInv'
  <2>1. /\ \A s : Scope(listing, s[3])' = Scope(listing, s[3])
        /\ \A g : KeyOf(g)' = KeyOf(g)
        /\ Standing' = Standing
    BY <1>4 DEF Scope, KeyOf, Standing, InListing
  <2>2. PagesTypes'
    BY <1>4 DEF PagesInv, PagesTypes, PagesTypeOK
  <2>3. ScopeInv'
    BY <1>4, <2>1 DEF PagesInv, ScopeInv
  <2>4. EachOnce'
    BY <1>4, <2>1 DEF PagesInv, EachOnce
  <2> QED BY <1>4, <2>2, <2>3, <2>4 DEF PagesInv, WindowKeeps
<1>5. instant \in Nat
  BY DEF PagesInv, PagesTypes
<1>6. CASE TimePasses
  BY <1>4, <1>5, <1>6 DEF TimePasses
<1>7. CASE UNCHANGED pageVars
  BY <1>4, <1>5, <1>7 DEF pageVars
<1> QED BY <1>1, <1>2, <1>3, <1>6, <1>7 DEF PagesNext

LEMMA PagesPromises == PagesInv => PagesCorrect
<1> SUFFICES ASSUME PagesInv PROVE OneSet
  BY DEF PagesInv, PagesTypes, PagesCorrect
<1>1. CASE walk = "start"
  BY <1>1, FS_EmptySet DEF PagesInv, ScopeInv, OneSet
<1>2. CASE walk # "start"
  <2>1. PICK s : scopes = {s}
    BY <1>2 DEF PagesInv, ScopeInv
  <2>2. Cardinality({s}) = 1
    BY FS_Singleton
  <2> QED BY <2>1, <2>2 DEF OneSet
<1> QED BY <1>1, <1>2

\* board.go and search.go, page by page, with cursor.go's scope and the statements' ORDER BY
\* and LIMIT: for any fixtures, sizes of pages and edits in between, an event that stays
\* comes once, all pages are of one set, and a window of the client's own is not refused.
THEOREM WalksCorrect == PagesSpec => []PagesCorrect
<1>1. PagesInit => PagesInv
  BY PagesInitial
<1>2. PagesInv /\ [PagesNext]_pageVars => PagesInv'
  BY PagesStep
<1>3. PagesInv => PagesCorrect
  BY PagesPromises
<1> QED BY <1>1, <1>2, <1>3, PTL DEF PagesSpec

-----------------------------------------------------------------------------
(* The price of a market *)

\* The observations of the market are published in the order of their instants.
InOrder ==
    \A content \in Inputs : \A i, j \in 1 .. Len(content) :
        (i < j /\ content[i] # Gone /\ content[j] # Gone) => content[i].at <= content[j].at

IsPrice(v) == v # Untracked /\ v.at \in Nat /\ v.fp \notin Unpriceable

PricerTypes ==
    /\ input \in Inputs
    /\ pos \in Nat /\ commit \in Nat /\ furthest \in Nat
    /\ commit <= pos /\ pos <= furthest /\ furthest <= Len(input)
    /\ owner \in Pricers \cup {Untracked}
    /\ stray \in [Pricers -> Nat] /\ \A p \in Pricers : stray[p] <= Len(input)
    /\ priced = Untracked \/ IsPrice(priced)
    /\ \A v \in versions : v = Untracked \/ IsPrice(v)
    /\ DOMAIN tracked = Pricers
    /\ \A p \in Pricers : tracked[p] = Untracked \/ IsPrice(tracked[p])
    /\ warm \in [Pricers -> {"down", "cold", "tried", "warm"}]
    /\ tries \in [Pricers -> Nat]
    /\ revision \in [Pricers -> Revisions]

\* A process that is gone remembers nothing. One that is cold has tries left, but for the
\* first, which it had before it consumed.
TriesInv ==
    \A p \in Pricers :
        /\ warm[p] = "down" => tracked[p] = Untracked /\ tries[p] = 0
        /\ warm[p] \in {"cold", "tried"} => tries[p] <= MaxWarmTries
        /\ tries[p] <= MaxWarmTries + Len(input)
        /\ warm[p] = "tried" => HasRecord(p)

\* Who prices knows what the topic holds.
TrackedInv ==
    (~unsure /\ owner # Untracked /\ warm[owner] \in {"tried", "warm"}) => tracked[owner] = priced

\* The last record that has a price to show after the first n, and what the topic shows of it.
ShownLast(n, k) == k \in Shown(n) /\ \A j \in Shown(n) : j <= k
Matches(v, n) ==
    IF Shown(n) = {} THEN v = Untracked
    ELSE \E k \in Shown(n) : ShownLast(n, k) /\ v # Untracked /\ v.fp = input[k].fp /\ v.at <= input[k].at

\* The topic is as some record between the position and the furthest one left it.
SyncInv == (~unsure /\ missed = {}) => \E j \in pos .. furthest : Matches(priced, j)

DeletedInv == (pos = furthest /\ pos > 0 /\ missed = {} /\ ~late) => (input[pos] = Gone => priced = Untracked)

\* Whatever the order of the observations.
TrackerInv == PricerTypes /\ TriesInv /\ TrackedInv /\ DeletedInv /\ ~regressed

LEMMA PricerInitial == PricerInit => TrackerInv /\ SyncInv
<1> SUFFICES ASSUME PricerInit PROVE TrackerInv /\ SyncInv
  OBVIOUS
<1> DEFINE first == CHOOSE r \in Revisions : \A q \in Revisions : r <= q
<1>1. first \in Revisions
  BY PricerAssumption, Smallest
<1>a. revision = [p \in Pricers |-> first]
  BY DEF PricerInit
<1> HIDE DEF first
<1>b. input \in Inputs /\ Len(input) \in Nat /\ MaxWarmTries \in Nat
  BY PricerAssumption DEF PricerInit
<1>2. PricerTypes
  <2>1. revision \in [Pricers -> Revisions]
    BY <1>1, <1>a
  <2>2. stray \in [Pricers -> Nat] /\ \A p \in Pricers : stray[p] <= Len(input)
    BY <1>b DEF PricerInit
  <2> QED BY <2>1, <2>2, <1>b DEF PricerInit, PricerTypes
<1>3. TriesInv
  <2>1. \A p \in Pricers : tries[p] = 0 /\ warm[p] = "cold"
    BY DEF PricerInit
  <2>2. 0 <= MaxWarmTries /\ 0 <= MaxWarmTries + Len(input)
    BY <1>b
  <2> QED BY <2>1, <2>2 DEF TriesInv
<1>4. TrackedInv /\ DeletedInv /\ ~regressed
  BY DEF PricerInit, TrackedInv, DeletedInv
<1>5. SyncInv
  <2>1. Shown(0) = {} /\ 0 \in pos .. furthest /\ priced = Untracked
    BY DEF PricerInit, Shown
  <2> QED BY <2>1 DEF SyncInv, Matches
<1> QED BY <1>2, <1>3, <1>4, <1>5 DEF TrackerInv

-----------------------------------------------------------------------------
(* One record more *)

\* What can be said of the record at hand.
LEMMA AtHandFacts ==
    ASSUME PricerTypes, NEW p \in Pricers, Prepared(p)
    PROVE  /\ Position(p) \in Nat /\ Position(p) + 1 \in 1 .. Len(input) /\ Len(input) \in Nat
           /\ warm[p] \in {"tried", "warm"} /\ p # Untracked
           /\ AtHand(p) # Gone => AtHand(p).at \in Nat
           /\ AtHand(p) # Gone /\ ~Skipped(p, AtHand(p)) => IsPrice(PublishOutcome(p))
           /\ AtHand(p) # Gone => /\ PublishOutcome(p).fp = AtHand(p).fp
                                 /\ PublishOutcome(p).at = AtHand(p).at
           /\ AtHand(p) = Gone => PublishOutcome(p) = Untracked
<1>1. /\ Position(p) \in Nat /\ Position(p) + 1 \in 1 .. Len(input) /\ Len(input) \in Nat
      /\ warm[p] \in {"tried", "warm"} /\ p # Untracked
  BY PricerAssumption DEF PricerTypes, Prepared, HasRecord, Position
<1>2. AtHand(p) # Gone =>
        /\ AtHand(p).at \in Nat
        /\ Untracked # [fp |-> AtHand(p).fp, rev |-> revision[p], at |-> AtHand(p).at]
  BY <1>1, PricerAssumption DEF PricerTypes, AtHand
<1> QED BY <1>1, <1>2 DEF Entry, IsPrice, Skipped, PublishOutcome

\* What a record that is handled moves, in the partition or in a batch of before.
LEMMA AdvanceFacts ==
    ASSUME PricerTypes, NEW p \in Pricers, Prepared(p), Advance(p)
    PROVE  /\ owner = p => pos' = pos + 1 /\ stray' = stray
           /\ owner # p => pos' = pos
           /\ pos' \in Nat /\ commit <= pos' /\ pos' <= furthest'
           /\ furthest' \in Nat /\ furthest' <= Len(input) /\ furthest <= furthest'
           /\ Position(p) + 1 <= furthest'
           /\ stray' \in [Pricers -> Nat] /\ \A q \in Pricers : stray'[q] <= Len(input)
           /\ \A q \in Pricers \ {p} : owner' = owner /\ Position(q)' = Position(q)
           /\ warm' \in [Pricers -> {"down", "cold", "tried", "warm"}]
           /\ \A q \in Pricers \ {p} : warm'[q] = warm[q]
           /\ warm'[p] \in {"cold", "warm"}
           /\ warm'[p] = "cold" => warm[p] = "tried"
           /\ UNCHANGED <<input, skips, commit, owner, tries, revision>>
<1>1. /\ Position(p) \in Nat /\ Position(p) + 1 \in 1 .. Len(input) /\ Len(input) \in Nat
      /\ warm[p] \in {"tried", "warm"}
  BY AtHandFacts
<1>2. /\ owner = p => pos' = pos + 1 /\ stray' = stray /\ Position(p) = pos
      /\ owner # p => pos' = pos /\ stray' = [stray EXCEPT ![p] = stray[p] + 1] /\ Position(p) = stray[p]
      /\ furthest' = IF furthest > Position(p) THEN furthest ELSE Position(p) + 1
      /\ warm' = [warm EXCEPT ![p] = IF warm[p] = "tried" THEN "cold" ELSE warm[p]]
      /\ UNCHANGED <<input, skips, commit, owner, tries, revision>>
  BY DEF Advance, Attempted, Position
<1>3. /\ stray' \in [Pricers -> Nat] /\ \A q \in Pricers : stray'[q] <= Len(input)
      /\ \A q \in Pricers \ {p} : stray'[q] = stray[q]
  BY <1>1, <1>2 DEF PricerTypes
<1>4. \A q \in Pricers \ {p} : Position(q)' = Position(q)
  BY <1>2, <1>3 DEF Position
<1>5. /\ pos' \in Nat /\ commit <= pos' /\ pos' <= furthest'
      /\ furthest' \in Nat /\ furthest' <= Len(input) /\ furthest <= furthest'
      /\ Position(p) + 1 <= furthest'
  BY <1>1, <1>2 DEF PricerTypes
<1>6. /\ warm' \in [Pricers -> {"down", "cold", "tried", "warm"}]
      /\ \A q \in Pricers \ {p} : warm'[q] = warm[q]
      /\ warm'[p] \in {"cold", "warm"}
      /\ warm'[p] = "cold" => warm[p] = "tried"
  BY <1>1, <1>2 DEF PricerTypes
<1> QED BY <1>2, <1>3, <1>4, <1>5, <1>6

\* Every step that handles a record, whatever it does to the topic.
LEMMA AdvanceKeeps ==
    ASSUME TrackerInv, NEW p \in Pricers, Prepared(p), Advance(p),
           priced' = Untracked \/ IsPrice(priced'), DOMAIN tracked' = Pricers,
           \A v \in versions' : v = Untracked \/ IsPrice(v),
           \A q \in Pricers \ {p} : tracked'[q] = tracked[q],
           tracked'[p] = Untracked \/ IsPrice(tracked'[p]),
           ~regressed',
           ~unsure' => ~unsure /\ IF owner = p THEN tracked'[p] = priced' ELSE priced' = priced,
           missed' = {} => missed = {} /\ (owner = p /\ AtHand(p) = Gone => priced' = Untracked),
           ~late' => ~late /\ (owner = p \/ priced' = priced \/ Position(p) >= pos)
    PROVE  TrackerInv'
<1>1. /\ owner = p => pos' = pos + 1 /\ stray' = stray
      /\ owner # p => pos' = pos
      /\ pos' \in Nat /\ commit <= pos' /\ pos' <= furthest'
      /\ furthest' \in Nat /\ furthest' <= Len(input) /\ furthest <= furthest'
      /\ Position(p) + 1 <= furthest'
      /\ stray' \in [Pricers -> Nat] /\ \A q \in Pricers : stray'[q] <= Len(input)
      /\ \A q \in Pricers \ {p} : owner' = owner /\ Position(q)' = Position(q)
      /\ warm' \in [Pricers -> {"down", "cold", "tried", "warm"}]
      /\ \A q \in Pricers \ {p} : warm'[q] = warm[q]
      /\ warm'[p] \in {"cold", "warm"}
      /\ warm'[p] = "cold" => warm[p] = "tried"
      /\ UNCHANGED <<input, skips, commit, owner, tries, revision>>
  BY AdvanceFacts DEF TrackerInv
<1>2. PricerTypes'
  BY <1>1 DEF TrackerInv, PricerTypes, IsPrice
<1>3. warm[p] \in {"tried", "warm"} /\ p # Untracked /\ Position(p) \in Nat
  BY AtHandFacts DEF TrackerInv
<1>4. TriesInv'
  <2>1. \A q \in Pricers \ {p} : HasRecord(q) => HasRecord(q)'
    BY <1>1 DEF HasRecord
  <2> QED BY <1>1, <1>3, <2>1 DEF TrackerInv, TriesInv
<1>5. TrackedInv'
  <2>1. CASE owner = p
    BY <2>1, <1>1 DEF TrackedInv
  <2>2. CASE owner # p
    BY <2>2, <1>1 DEF TrackerInv, TrackedInv, PricerTypes
  <2> QED BY <2>1, <2>2
<1>6. DeletedInv'
  <2>1. CASE owner = p
    <3>1. AtHand(p) = input[pos + 1]
      BY <2>1 DEF AtHand, Position
    <3> QED BY <2>1, <3>1, <1>1 DEF DeletedInv
  <2>2. CASE owner # p
    <3> SUFFICES ASSUME pos' = furthest', pos' > 0, missed' = {}, ~late'
                 PROVE  input[pos] = Gone => priced' = Untracked
      BY <1>1, <2>2 DEF DeletedInv
    <3>1. pos = furthest /\ Position(p) < pos /\ pos > 0
      BY <1>1, <1>3, <2>2 DEF TrackerInv, PricerTypes
    <3>2. priced' = priced
      BY <1>3, <2>2, <3>1 DEF TrackerInv, PricerTypes
    <3> QED BY <3>1, <3>2 DEF TrackerInv, DeletedInv
  <2> QED BY <2>1, <2>2
<1> QED BY <1>2, <1>4, <1>5, <1>6 DEF TrackerInv

\* A process that ends, with the record it was at or without one.
LEMMA EndKeeps ==
    ASSUME TrackerInv, NEW p \in Pricers, Ends(p),
           priced' = Untracked \/ IsPrice(priced'),
           \A v \in versions' : v = Untracked \/ IsPrice(v),
           UNCHANGED <<input, pos, commit, owner, revision, missed, regressed>>,
           furthest' \in Nat, furthest <= furthest', furthest' <= Len(input),
           ~unsure' => ~unsure /\ (UNCHANGED priced \/ owner = p),
           ~late' => ~late /\ (UNCHANGED priced \/ furthest' > pos)
    PROVE  TrackerInv'
<1>1. /\ DOMAIN tracked' = Pricers /\ tracked'[p] = Untracked /\ warm'[p] = "down" /\ tries'[p] = 0
      /\ \A q \in Pricers \ {p} : tracked'[q] = tracked[q] /\ warm'[q] = warm[q] /\ tries'[q] = tries[q]
      /\ warm' \in [Pricers -> {"down", "cold", "tried", "warm"}] /\ tries' \in [Pricers -> Nat]
  BY DEF Ends, TrackerInv, PricerTypes
<1>6. Len(input) \in Nat /\ MaxWarmTries \in Nat
  BY PricerAssumption DEF TrackerInv, PricerTypes
<1>7. /\ stray' \in [Pricers -> Nat] /\ \A q \in Pricers : stray'[q] <= Len(input)
      /\ \A q \in Pricers \ {p} : stray'[q] = stray[q]
  BY <1>6 DEF Ends, TrackerInv, PricerTypes
<1>2. PricerTypes'
  <2>1. /\ pos' \in Nat /\ commit' \in Nat /\ commit' <= pos' /\ pos' <= furthest'
        /\ furthest' <= Len(input')
    BY DEF TrackerInv, PricerTypes
  <2>2. \A q \in Pricers : tracked'[q] = Untracked \/ IsPrice(tracked'[q])
    BY <1>1 DEF TrackerInv, PricerTypes
  <2> QED BY <1>1, <1>7, <2>1, <2>2 DEF TrackerInv, PricerTypes, IsPrice
<1>3. TriesInv'
  <2>1. \A q \in Pricers \ {p} : HasRecord(q) => HasRecord(q)'
    BY <1>7 DEF HasRecord, Position
  <2> QED BY <1>1, <1>6, <2>1 DEF TrackerInv, TriesInv
<1>4. TrackedInv'
  BY <1>1 DEF TrackerInv, TrackedInv, PricerTypes
<1>5. DeletedInv'
  BY DEF TrackerInv, DeletedInv, PricerTypes
<1> QED BY <1>2, <1>3, <1>4, <1>5 DEF TrackerInv

-----------------------------------------------------------------------------
(* Every step, whatever the order of the observations *)

LEMMA WarmKeeps ==
    ASSUME TrackerInv, NEW p \in Pricers, WarmStart(p)
    PROVE  TrackerInv'
<1>1. /\ warm[p] = "cold" /\ (tries[p] = 0 \/ HasRecord(p))
      /\ tries' = [tries EXCEPT ![p] = tries[p] + 1]
      /\ UNCHANGED <<input, priced, versions, late, skips, pos, commit, owner, stray, furthest, revision, missed, regressed>>
  BY DEF WarmStart, partitionVars, topicVars
<1>2. \/ /\ warm' = [warm EXCEPT ![p] = "warm"]
         /\ tracked' = [tracked EXCEPT ![p] = priced]
         /\ UNCHANGED unsure
      \/ /\ warm' = [warm EXCEPT ![p] = IF tries[p] = 0 THEN "cold"
                                          ELSE IF tries'[p] >= MaxWarmTries THEN "warm" ELSE "tried"]
         /\ UNCHANGED tracked \/ \E v \in versions : tracked' = [tracked EXCEPT ![p] = v]
         /\ ~unsure' => ~unsure /\ (owner = p /\ tries[p] > 0 => tracked'[p] = priced)
  BY DEF WarmStart, Read
<1>3. /\ Len(input) \in Nat /\ MaxWarmTries \in Nat \ {0} /\ tries[p] \in Nat
      /\ HasRecord(p) => Len(input) > 0
      /\ \A q \in Pricers : HasRecord(q)' = HasRecord(q)
      /\ PricerTypes /\ TriesInv /\ TrackedInv
  BY <1>1, PricerAssumption DEF TrackerInv, PricerTypes, HasRecord, Position
<1>4. /\ tries'[p] = tries[p] + 1 /\ tries' \in [Pricers -> Nat]
      /\ \A q \in Pricers \ {p} : tries'[q] = tries[q] /\ warm'[q] = warm[q]
      /\ warm' \in [Pricers -> {"down", "cold", "tried", "warm"}]
  BY <1>1, <1>2, <1>3 DEF PricerTypes
<1>9. /\ DOMAIN tracked' = Pricers
      /\ \A q \in Pricers \ {p} : tracked'[q] = tracked[q]
      /\ tracked'[p] = Untracked \/ IsPrice(tracked'[p])
  <2>1. CASE tracked' = tracked
    BY <1>3, <2>1 DEF PricerTypes
  <2>2. CASE tracked' = [tracked EXCEPT ![p] = priced]
    BY <1>3, <2>2 DEF PricerTypes
  <2>3. ASSUME NEW v \in versions, tracked' = [tracked EXCEPT ![p] = v]
        PROVE  /\ DOMAIN tracked' = Pricers
               /\ \A q \in Pricers \ {p} : tracked'[q] = tracked[q]
               /\ tracked'[p] = Untracked \/ IsPrice(tracked'[p])
    <3>1. v = Untracked \/ IsPrice(v)
      BY <1>3 DEF PricerTypes
    <3>2. DOMAIN tracked = Pricers
      BY <1>3 DEF PricerTypes
    <3>3. tracked'[p] = v
      BY <2>3, <3>2
    <3> QED BY <2>3, <3>1, <3>2, <3>3
  <2> QED BY <1>2, <2>1, <2>2, <2>3
<1>5. PricerTypes'
  <2>1. \A q \in Pricers : tracked'[q] = Untracked \/ IsPrice(tracked'[q])
    BY <1>3, <1>9 DEF PricerTypes
  <2> QED BY <1>1, <1>3, <1>4, <1>9, <2>1 DEF PricerTypes, IsPrice
<1>6. /\ warm'[p] = "cold" => tries[p] = 0
      /\ warm'[p] = "tried" => tries[p] > 0 /\ tries'[p] < MaxWarmTries
      /\ warm'[p] # "down"
  BY <1>1, <1>2, <1>3, <1>4 DEF PricerTypes
<1>7. TriesInv'
  <2> SUFFICES ASSUME NEW q \in Pricers
               PROVE  /\ warm'[q] = "down" => tracked'[q] = Untracked /\ tries'[q] = 0
                      /\ warm'[q] \in {"cold", "tried"} => tries'[q] <= MaxWarmTries
                      /\ tries'[q] <= MaxWarmTries + Len(input')
                      /\ warm'[q] = "tried" => HasRecord(q)
    BY <1>3 DEF TriesInv
  <2>1. CASE q # p
    BY <2>1, <1>1, <1>3, <1>4, <1>9 DEF TriesInv
  <2>2. CASE q = p
    <3>1. tries[p] <= MaxWarmTries
      BY <1>1, <1>3 DEF TriesInv
    <3>2. tries[p] = 0 \/ Len(input) > 0
      BY <1>1, <1>3
    <3> QED BY <2>2, <3>1, <3>2, <1>1, <1>3, <1>4, <1>6
  <2> QED BY <2>1, <2>2
<1>8. TrackedInv'
  <2> SUFFICES ASSUME ~unsure', owner # Untracked, warm'[owner] \in {"tried", "warm"}
               PROVE  tracked'[owner] = priced
    BY <1>1 DEF TrackedInv
  <2>1. owner \in Pricers /\ ~unsure
    BY <1>2, <1>3 DEF PricerTypes
  <2>2. CASE owner # p
    BY <2>1, <2>2, <1>3, <1>4, <1>9 DEF TrackedInv
  <2>3. CASE owner = p
    BY <2>3, <1>1, <1>2, <1>3, <1>4 DEF PricerTypes
  <2> QED BY <2>2, <2>3
<1> QED BY <1>1, <1>5, <1>7, <1>8 DEF TrackerInv, DeletedInv

\* What a publish or a tombstone does to the topic.
LEMMA PutsFacts ==
    ASSUME PricerTypes, NEW p \in Pricers, NEW v, v = Untracked \/ IsPrice(v), PutsPrice(p, v)
    PROVE  /\ priced' = v
           /\ \A w \in versions' : w = Untracked \/ IsPrice(w)
           /\ ~late' => ~late /\ (owner = p \/ priced' = priced \/ Position(p) >= pos)
<1>1. Position(p) \in Nat /\ pos \in Nat
  BY DEF PricerTypes, Position
<1>2. priced' = v /\ versions' = versions \cup {v}
  BY DEF PutsPrice
<1>3. \A w \in versions' : w = Untracked \/ IsPrice(w)
  BY <1>2 DEF PricerTypes
<1>4. ~late' => ~late /\ (owner = p \/ v = priced \/ ~(Position(p) < pos))
  BY DEF PutsPrice
<1> QED BY <1>1, <1>2, <1>3, <1>4

LEMMA PublishKeeps ==
    ASSUME TrackerInv, NEW p \in Pricers, Publishes(p)
    PROVE  TrackerInv'
<1> DEFINE price == PublishOutcome(p)
<1>1. /\ Prepared(p) /\ AtHand(p) # Gone /\ ~Skipped(p, AtHand(p)) /\ Advance(p)
      /\ PutsPrice(p, price) /\ tracked' = [tracked EXCEPT ![p] = price]
      /\ unsure' = (unsure \/ (owner # p /\ priced' # priced))
      /\ regressed' = (regressed \/ (~unsure' /\ priced # Untracked /\ AtHand(p).at < priced.at))
      /\ UNCHANGED missed
  BY DEF Publishes, Intrudes
<1>2. /\ IsPrice(price) /\ warm[p] \in {"tried", "warm"} /\ p # Untracked
      /\ price.at = AtHand(p).at /\ AtHand(p).at \in Nat /\ PricerTypes
  BY <1>1, AtHandFacts DEF TrackerInv
<1> HIDE DEF price
<1>7. /\ priced' = price
      /\ \A w \in versions' : w = Untracked \/ IsPrice(w)
      /\ ~late' => ~late /\ (owner = p \/ priced' = priced \/ Position(p) >= pos)
  BY <1>1, <1>2, PutsFacts
<1>3. ~unsure' => ~(priced # Untracked /\ AtHand(p).at < priced.at)
  <2> SUFFICES ASSUME ~unsure', priced # Untracked PROVE ~(AtHand(p).at < priced.at)
    OBVIOUS
  <2>1. CASE owner = p
    <3>1. tracked[p] = priced
      BY <1>1, <1>2, <2>1 DEF TrackerInv, TrackedInv
    <3>2. ~Outdated(priced, AtHand(p))
      BY <3>1, <1>1 DEF Skipped
    <3> QED BY <3>2 DEF Outdated
  <2>2. CASE owner # p
    <3>1. priced = price
      BY <1>1, <1>7, <2>2
    <3>2. priced.at = AtHand(p).at
      BY <1>2, <3>1
    <3> QED BY <1>2, <3>2
  <2> QED BY <2>1, <2>2
<1>4. DOMAIN tracked' = Pricers /\ tracked'[p] = price /\ \A q \in Pricers \ {p} : tracked'[q] = tracked[q]
  BY <1>1 DEF TrackerInv, PricerTypes
<1>5. ~regressed'
  BY <1>1, <1>3 DEF TrackerInv
<1>6. /\ priced' = Untracked \/ IsPrice(priced')
      /\ tracked'[p] = Untracked \/ IsPrice(tracked'[p])
  BY <1>2, <1>4, <1>7
<1>8. ~unsure' => ~unsure /\ IF owner = p THEN tracked'[p] = priced' ELSE priced' = priced
  BY <1>1, <1>4, <1>7
<1>9. missed' = {} => missed = {} /\ (owner = p /\ AtHand(p) = Gone => priced' = Untracked)
  BY <1>1
<1> QED BY <1>1, <1>4, <1>5, <1>6, <1>7, <1>8, <1>9, AdvanceKeeps

LEMMA DeleteKeeps ==
    ASSUME TrackerInv, NEW p \in Pricers, Deletes(p)
    PROVE  TrackerInv'
<1>1. /\ Prepared(p) /\ Advance(p) /\ AtHand(p) = Gone /\ PutsPrice(p, Untracked)
      /\ tracked' = [tracked EXCEPT ![p] = Untracked]
      /\ unsure' = (unsure \/ (owner # p /\ priced' # priced))
      /\ UNCHANGED <<missed, regressed>>
  BY DEF Deletes, Intrudes, PublishOutcome
<1>2. DOMAIN tracked' = Pricers /\ tracked'[p] = Untracked /\ \A q \in Pricers \ {p} : tracked'[q] = tracked[q]
  BY <1>1 DEF TrackerInv, PricerTypes
<1>3. /\ priced' = Untracked
      /\ \A w \in versions' : w = Untracked \/ IsPrice(w)
      /\ ~late' => ~late /\ (owner = p \/ priced' = priced \/ Position(p) >= pos)
  BY <1>1, PutsFacts DEF TrackerInv
<1>4. ~unsure' => ~unsure /\ IF owner = p THEN tracked'[p] = priced' ELSE priced' = priced
  BY <1>1, <1>2, <1>3
<1>5. missed' = {} => missed = {} /\ (owner = p /\ AtHand(p) = Gone => priced' = Untracked)
  BY <1>1, <1>3
<1>6. ~regressed'
  BY <1>1 DEF TrackerInv
<1> QED BY <1>1, <1>2, <1>3, <1>4, <1>5, <1>6, AdvanceKeeps

LEMMA SkipKeeps ==
    ASSUME TrackerInv, NEW p \in Pricers, Skips(p)
    PROVE  TrackerInv'
<1>1. /\ Prepared(p) /\ Advance(p) /\ AtHand(p) # Gone
      /\ UNCHANGED <<priced, versions, late, tracked, unsure, missed, regressed>>
  BY DEF Skips, topicVars
<1>2. warm[p] \in {"tried", "warm"} /\ p # Untracked
  BY <1>1, AtHandFacts DEF TrackerInv
<1>3. /\ priced' = Untracked \/ IsPrice(priced')
      /\ \A w \in versions' : w = Untracked \/ IsPrice(w)
      /\ DOMAIN tracked' = Pricers /\ (tracked'[p] = Untracked \/ IsPrice(tracked'[p]))
      /\ \A q \in Pricers \ {p} : tracked'[q] = tracked[q]
      /\ ~regressed'
  BY <1>1 DEF TrackerInv, PricerTypes
<1>4. ~unsure' => ~unsure /\ IF owner = p THEN tracked'[p] = priced' ELSE priced' = priced
  BY <1>1, <1>2 DEF TrackerInv, TrackedInv
<1>5. /\ missed' = {} => missed = {} /\ (owner = p /\ AtHand(p) = Gone => priced' = Untracked)
      /\ ~late' => ~late /\ (owner = p \/ priced' = priced \/ Position(p) >= pos)
  BY <1>1
<1> QED BY <1>1, <1>3, <1>4, <1>5, AdvanceKeeps

LEMMA FailKeeps ==
    ASSUME TrackerInv, NEW p \in Pricers, PublishFails(p)
    PROVE  TrackerInv'
<1>1. Prepared(p) /\ (AtHand(p) # Gone => ~Skipped(p, AtHand(p))) /\ UNCHANGED regressed
  BY DEF PublishFails
<1>2. /\ Position(p) \in Nat /\ Position(p) + 1 \in 1 .. Len(input) /\ Len(input) \in Nat
      /\ warm[p] \in {"tried", "warm"} /\ p # Untracked
      /\ PublishOutcome(p) = Untracked \/ IsPrice(PublishOutcome(p))
      /\ PricerTypes
  BY <1>1, AtHandFacts DEF TrackerInv
<1>3. /\ priced' = Untracked \/ IsPrice(priced')
      /\ \A w \in versions' : w = Untracked \/ IsPrice(w)
      /\ ~late' => ~late /\ (owner = p \/ priced' = priced \/ Position(p) >= pos)
  <2>1. CASE UNCHANGED topicVars
    BY <2>1, <1>2 DEF topicVars, PricerTypes
  <2>2. CASE PutsPrice(p, PublishOutcome(p))
    BY <2>2, <1>2, PutsFacts
  <2> QED BY <2>1, <2>2 DEF PublishFails
<1>4. CASE skips
  <2>1. /\ Advance(p) /\ unsure' = (unsure \/ priced' # priced)
        /\ missed' = IF owner = p THEN missed \cup {pos + 1} ELSE missed
        /\ UNCHANGED tracked
    BY <1>4 DEF PublishFails
  <2>2. /\ DOMAIN tracked' = Pricers /\ (tracked'[p] = Untracked \/ IsPrice(tracked'[p]))
        /\ \A q \in Pricers \ {p} : tracked'[q] = tracked[q]
        /\ ~regressed'
    BY <2>1, <1>1 DEF TrackerInv, PricerTypes
  <2>3. ~unsure' => ~unsure /\ IF owner = p THEN tracked'[p] = priced' ELSE priced' = priced
    BY <2>1, <1>2 DEF TrackerInv, TrackedInv
  <2>4. missed' = {} => missed = {} /\ (owner = p /\ AtHand(p) = Gone => priced' = Untracked)
    BY <2>1
  <2> QED BY <2>1, <2>2, <2>3, <2>4, <1>1, <1>3, AdvanceKeeps
<1>5. CASE ~skips
  <2>1. /\ Ends(p) /\ Attempted(p) /\ unsure' = (unsure \/ (owner # p /\ priced' # priced))
        /\ UNCHANGED <<input, skips, pos, commit, owner, revision, missed>>
    BY <1>5 DEF PublishFails, Intrudes
  <2>2. /\ furthest' \in Nat /\ furthest <= furthest' /\ furthest' <= Len(input) /\ furthest' > Position(p)
    BY <2>1, <1>2 DEF Attempted, PricerTypes
  <2>3. ~late' => ~late /\ (UNCHANGED priced \/ furthest' > pos)
    BY <2>2, <1>2, <1>3 DEF Position, PricerTypes
  <2>4. ~unsure' => ~unsure /\ (UNCHANGED priced \/ owner = p)
    BY <2>1
  <2> QED BY <2>1, <2>2, <2>3, <2>4, <1>1, <1>3, EndKeeps
<1> QED BY <1>4, <1>5

LEMMA MoveKeeps ==
    ASSUME TrackerInv, NEW p \in Pricers, Moves(p)
    PROVE  TrackerInv'
<1>1. /\ owner # p /\ warm[p] # "down" /\ owner' = p /\ pos' = commit /\ stray[p] = Len(input)
      /\ \/ (owner # Untracked => warm[owner] # "tried") /\ stray' = stray
         \/ owner # Untracked /\ stray' = [stray EXCEPT ![owner] = pos]
      /\ unsure' = (unsure \/ (warm[p] = "warm" /\ tracked[p] # priced))
      /\ UNCHANGED <<input, priced, versions, late, skips, commit, furthest, tracked, warm, tries, revision, missed, regressed>>
  BY DEF Moves, LetsGo, trackerVars, topicVars
<1>2. p # Untracked /\ PricerTypes /\ TriesInv /\ Len(input) \in Nat
  BY PricerAssumption DEF TrackerInv, PricerTypes
<1>7. /\ stray' \in [Pricers -> Nat] /\ \A q \in Pricers : stray'[q] <= Len(input)
      /\ \A q \in Pricers : q # owner => stray'[q] = stray[q]
      /\ owner # Untracked /\ warm[owner] = "tried" => stray'[owner] = pos
  <2>1. /\ stray \in [Pricers -> Nat] /\ \A q \in Pricers : stray[q] <= Len(input)
        /\ pos \in Nat /\ pos <= Len(input) /\ owner \in Pricers \cup {Untracked}
    BY <1>2 DEF PricerTypes
  <2>2. CASE (owner # Untracked => warm[owner] # "tried") /\ stray' = stray
    BY <2>1, <2>2
  <2>3. CASE owner # Untracked /\ stray' = [stray EXCEPT ![owner] = pos]
    BY <2>1, <2>3
  <2> QED BY <1>1, <2>2, <2>3
<1>3. PricerTypes'
  BY <1>1, <1>2, <1>7 DEF PricerTypes, IsPrice
<1>8. warm[p] # "tried"
  BY <1>1, <1>2 DEF TriesInv, HasRecord, Position
<1>4. TriesInv'
  <2>1. ASSUME NEW q \in Pricers, warm[q] = "tried" PROVE HasRecord(q)'
    <3>1. q # p /\ HasRecord(q) /\ q # Untracked
      BY <1>2, <1>8, <2>1, PricerAssumption DEF TriesInv
    <3>2. stray'[q] = Position(q)
      BY <1>7, <2>1, <3>1 DEF Position
    <3> QED BY <1>1, <3>1, <3>2 DEF HasRecord, Position
  <2> QED BY <1>1, <1>2, <2>1 DEF TriesInv
<1>5. TrackedInv'
  BY <1>1, <1>8 DEF TrackedInv
<1>6. DeletedInv'
  BY <1>1 DEF TrackerInv, DeletedInv, PricerTypes
<1> QED BY <1>1, <1>3, <1>4, <1>5, <1>6 DEF TrackerInv

LEMMA StartKeeps ==
    ASSUME TrackerInv, NEW p \in Pricers, StartsProcess(p)
    PROVE  TrackerInv'
<1>1. /\ warm[p] = "down" /\ warm' = [warm EXCEPT ![p] = "cold"]
      /\ pos' \in {commit, pos} /\ (owner # p => pos' = pos)
      /\ UNCHANGED <<input, priced, versions, late, skips, commit, owner, stray, furthest, tracked, tries, unsure, missed, regressed>>
  BY DEF StartsProcess, topicVars
<1>2. PICK r \in Revisions : revision' = [revision EXCEPT ![p] = r]
  BY DEF StartsProcess
<1>3. /\ warm' \in [Pricers -> {"down", "cold", "tried", "warm"}] /\ warm'[p] = "cold"
      /\ \A q \in Pricers \ {p} : warm'[q] = warm[q]
      /\ revision' \in [Pricers -> Revisions]
  BY <1>1, <1>2 DEF TrackerInv, PricerTypes
<1>4. PricerTypes'
  BY <1>1, <1>3 DEF TrackerInv, PricerTypes, IsPrice
<1>5. TriesInv'
  <2>1. tries[p] = 0 /\ MaxWarmTries \in Nat
    BY <1>1, PricerAssumption DEF TrackerInv, TriesInv
  <2>2. \A q \in Pricers \ {p} : HasRecord(q)' = HasRecord(q)
    BY <1>1 DEF HasRecord, Position
  <2> QED BY <1>1, <1>3, <2>1, <2>2 DEF TrackerInv, TriesInv
<1>6. TrackedInv'
  BY <1>1, <1>3 DEF TrackerInv, TrackedInv, PricerTypes
<1>7. DeletedInv'
  BY <1>1 DEF TrackerInv, DeletedInv, PricerTypes
<1> QED BY <1>1, <1>4, <1>5, <1>6, <1>7 DEF TrackerInv

LEMMA LearnKeeps ==
    ASSUME TrackerInv, NEW p \in Pricers, Learns(p)
    PROVE  TrackerInv'
<1>1. /\ warm[p] # "tried" /\ stray' = [stray EXCEPT ![p] = Len(input)]
      /\ UNCHANGED <<input, priced, versions, late, pos, commit, owner, furthest, tracked, warm, tries,
                     revision, unsure, missed, regressed>>
  BY DEF Learns, topicVars, trackerVars
<1>2. Len(input) \in Nat
  BY PricerAssumption DEF TrackerInv, PricerTypes
<1>3. /\ stray' \in [Pricers -> Nat] /\ \A q \in Pricers : stray'[q] <= Len(input)
      /\ \A q \in Pricers \ {p} : stray'[q] = stray[q]
  BY <1>1, <1>2 DEF TrackerInv, PricerTypes
<1>4. PricerTypes'
  BY <1>1, <1>3 DEF TrackerInv, PricerTypes, IsPrice
<1>5. TriesInv'
  <2>1. \A q \in Pricers \ {p} : HasRecord(q)' = HasRecord(q)
    BY <1>1, <1>3 DEF HasRecord, Position
  <2> QED BY <1>1, <2>1 DEF TrackerInv, TriesInv
<1>6. TrackedInv' /\ DeletedInv' /\ ~regressed'
  BY <1>1 DEF TrackerInv, TrackedInv, DeletedInv
<1> QED BY <1>4, <1>5, <1>6 DEF TrackerInv

LEMMA TrackerStep == TrackerInv /\ [PricerNext]_pricerVars => TrackerInv'
<1> SUFFICES ASSUME TrackerInv, [PricerNext]_pricerVars PROVE TrackerInv'
  OBVIOUS
<1>1. ASSUME NEW p \in Pricers, WarmStart(p) PROVE TrackerInv'
  BY <1>1, WarmKeeps
<1>2. ASSUME NEW p \in Pricers, Skips(p) PROVE TrackerInv'
  BY <1>2, SkipKeeps
<1>3. ASSUME NEW p \in Pricers, Publishes(p) PROVE TrackerInv'
  BY <1>3, PublishKeeps
<1>4. ASSUME NEW p \in Pricers, Deletes(p) PROVE TrackerInv'
  BY <1>4, DeleteKeeps
<1>5. ASSUME NEW p \in Pricers, PublishFails(p) PROVE TrackerInv'
  BY <1>5, FailKeeps
<1>6. ASSUME NEW p \in Pricers, PricerDies(p) PROVE TrackerInv'
  <2>1. /\ Ends(p)
        /\ UNCHANGED <<input, priced, versions, late, pos, commit, owner, furthest, revision, unsure, missed, regressed>>
    BY <1>6 DEF PricerDies, topicVars
  <2>2. /\ furthest \in Nat /\ furthest <= Len(input) /\ (priced = Untracked \/ IsPrice(priced))
        /\ \A w \in versions : w = Untracked \/ IsPrice(w)
    BY DEF TrackerInv, PricerTypes
  <2>3. /\ furthest' \in Nat /\ furthest <= furthest' /\ furthest' <= Len(input)
        /\ (priced' = Untracked \/ IsPrice(priced'))
        /\ \A w \in versions' : w = Untracked \/ IsPrice(w)
        /\ ~unsure' => ~unsure /\ (UNCHANGED priced \/ owner = p)
        /\ ~late' => ~late /\ (UNCHANGED priced \/ furthest' > pos)
    BY <2>1, <2>2
  <2> QED BY <2>1, <2>3, EndKeeps
<1>7. ASSUME NEW p \in Pricers, StartsProcess(p) PROVE TrackerInv'
  BY <1>7, StartKeeps
<1>8. ASSUME NEW p \in Pricers, Moves(p) PROVE TrackerInv'
  BY <1>8, MoveKeeps
<1>11. ASSUME NEW p \in Pricers, Learns(p) PROVE TrackerInv'
  BY <1>11, LearnKeeps
<1>9. CASE CommitsGroup
  <2>1. /\ commit' = pos
        /\ UNCHANGED <<input, priced, versions, late, pos, owner, stray, furthest, tracked, warm, tries,
                       revision, unsure, missed, regressed>>
    BY <1>9 DEF CommitsGroup, topicVars, trackerVars
  <2>2. PricerTypes'
    BY <2>1 DEF TrackerInv, PricerTypes, IsPrice
  <2> QED BY <2>1, <2>2 DEF TrackerInv, TriesInv, TrackedInv, DeletedInv, HasRecord, Position
<1>10. CASE UNCHANGED pricerVars
  BY <1>10 DEF pricerVars, partitionVars, topicVars, trackerVars, TrackerInv, PricerTypes, TriesInv, TrackedInv,
               DeletedInv, IsPrice, HasRecord, Position
<1> QED BY <1>1, <1>2, <1>3, <1>4, <1>5, <1>6, <1>7, <1>8, <1>9, <1>10, <1>11 DEF PricerNext

-----------------------------------------------------------------------------
(* Which price is shown, when the observations are in order *)

\* What one record more does to the records that have a price to show.
LEMMA ShownNext ==
    ASSUME PricerTypes, pos + 1 \in 1 .. Len(input)
    PROVE  LET rec == input[pos + 1] IN
           /\ rec = Gone => Shown(pos + 1) = {}
           /\ rec # Gone /\ rec.fp \in Unpriceable => Shown(pos + 1) = Shown(pos)
           /\ rec # Gone /\ rec.fp \notin Unpriceable => Shown(pos + 1) = Shown(pos) \cup {pos + 1}
           /\ Shown(pos) \subseteq 1 .. pos /\ \A k \in Shown(pos) : input[k] # Gone
<1> DEFINE rec == input[pos + 1]
<1>1. pos \in Nat /\ 1 .. (pos + 1) = (1 .. pos) \cup {pos + 1}
  BY DEF PricerTypes
<1>2. CASE rec = Gone
  <2>1. pos + 1 \in Tombs(pos + 1)
    BY <1>1, <1>2 DEF Tombs
  <2> QED BY <2>1, <1>1, <1>2 DEF Shown
<1>3. CASE rec # Gone
  <2>1. Tombs(pos + 1) = Tombs(pos)
    BY <1>1, <1>3 DEF Tombs
  <2>2. \A t \in Tombs(pos) : t < pos + 1
    BY <1>1 DEF Tombs
  <2> QED BY <2>1, <2>2, <1>1, <1>3 DEF Shown
<1> QED BY <1>1, <1>2, <1>3 DEF Shown

\* A step of the owner that writes what the record at hand says.
LEMMA WritesMatch ==
    ASSUME PricerTypes, NEW p \in Pricers, owner = p, Prepared(p), AtHand(p) # Gone => ~Skipped(p, AtHand(p))
    PROVE  Matches(PublishOutcome(p), pos + 1)
<1> DEFINE rec == AtHand(p)
<1>1. /\ pos + 1 \in 1 .. Len(input) /\ pos \in Nat /\ rec = input[pos + 1]
      /\ rec # Gone => /\ rec.at \in Nat /\ IsPrice(PublishOutcome(p))
                       /\ PublishOutcome(p).fp = rec.fp /\ PublishOutcome(p).at = rec.at
      /\ rec = Gone => PublishOutcome(p) = Untracked
  <2>1. Position(p) = pos
    BY DEF Position
  <2> QED BY <2>1, AtHandFacts DEF PricerTypes, AtHand
<1>4. rec # Gone => rec.fp \notin Unpriceable
  BY DEF Skipped
<1> HIDE DEF rec
<1>2. CASE rec = Gone
  <2>1. Shown(pos + 1) = {}
    BY <1>1, <1>2, ShownNext
  <2> QED BY <1>1, <1>2, <2>1 DEF Matches
<1>3. CASE rec # Gone
  <2>2. Shown(pos + 1) = Shown(pos) \cup {pos + 1} /\ Shown(pos) \subseteq 1 .. pos
    BY <1>1, <1>3, <1>4, ShownNext
  <2>3. ShownLast(pos + 1, pos + 1)
    BY <1>1, <2>2 DEF ShownLast
  <2>4. PublishOutcome(p) # Untracked /\ PublishOutcome(p).fp = input[pos + 1].fp
        /\ PublishOutcome(p).at <= input[pos + 1].at
    BY <1>1, <1>3 DEF IsPrice
  <2> QED BY <2>2, <2>3, <2>4 DEF Matches
<1> QED BY <1>2, <1>3

\* A record that is skipped, by an owner that knows the topic, changes nothing there.
LEMMA SkipsMatch ==
    ASSUME InOrder, PricerTypes, NEW p \in Pricers, owner = p, Prepared(p), AtHand(p) # Gone,
           Skipped(p, AtHand(p)), tracked[p] = priced, Matches(priced, pos)
    PROVE  Matches(priced, pos + 1)
<1> DEFINE rec == AtHand(p)
<1>1. /\ pos + 1 \in 1 .. Len(input) /\ pos \in Nat /\ Len(input) \in Nat
      /\ rec.at \in Nat /\ rec = input[pos + 1] /\ input \in Inputs
  <2>1. Position(p) = pos
    BY DEF Position
  <2> QED BY <2>1, AtHandFacts DEF PricerTypes, AtHand
<1>6. rec # Gone /\ Skipped(p, rec)
  OBVIOUS
<1> HIDE DEF rec
<1>2. /\ rec.fp \in Unpriceable => Shown(pos + 1) = Shown(pos)
      /\ rec.fp \notin Unpriceable => Shown(pos + 1) = Shown(pos) \cup {pos + 1}
      /\ Shown(pos) \subseteq 1 .. pos /\ \A k \in Shown(pos) : input[k] # Gone
  BY <1>1, <1>6, ShownNext
<1>3. priced # Untracked => priced.at \in Nat /\ priced.at <= rec.at
  <2> SUFFICES ASSUME priced # Untracked PROVE priced.at \in Nat /\ priced.at <= rec.at
    OBVIOUS
  <2>1. PICK k \in Shown(pos) : priced.at <= input[k].at
    BY DEF Matches
  <2>2. k \in 1 .. Len(input) /\ k < pos + 1 /\ input[k] # Gone
    BY <1>1, <1>2, <2>1
  <2>3. input[k].at <= rec.at /\ input[k].at \in Nat
    BY <1>1, <1>6, <2>2, PricerAssumption DEF InOrder
  <2>4. priced.at \in Nat
    BY DEF PricerTypes, IsPrice
  <2> QED BY <2>1, <2>3, <2>4, <1>1
<1>4. CASE rec.fp \in Unpriceable
  BY <1>2, <1>4 DEF Matches, ShownLast
<1>5. CASE rec.fp \notin Unpriceable
  <2>1. ~Outdated(priced, rec)
    BY <1>1, <1>3 DEF Outdated
  <2>2. priced # Untracked /\ priced.fp = rec.fp
    BY <1>5, <1>6, <2>1 DEF Skipped, Same
  <2>3. ShownLast(pos + 1, pos + 1) /\ pos + 1 \in Shown(pos + 1)
    BY <1>1, <1>2, <1>5 DEF ShownLast
  <2>4. priced # Untracked /\ priced.fp = input[pos + 1].fp /\ priced.at <= input[pos + 1].at
    BY <1>1, <1>3, <2>2
  <2> QED BY <2>3, <2>4 DEF Matches
<1> QED BY <1>4, <1>5

\* A step of the owner that handled the record at hand, or only wrote what it says.
LEMMA SyncHandled ==
    ASSUME InOrder, TrackerInv, SyncInv, NEW p \in Pricers, owner = p, Prepared(p),
           UNCHANGED input,
           furthest' \in Nat, furthest <= furthest', pos + 1 <= furthest', pos' \in {pos, pos + 1},
           missed' = {} => missed = {}, ~unsure' => ~unsure,
           \/ priced' = PublishOutcome(p) /\ (AtHand(p) # Gone => ~Skipped(p, AtHand(p)))
           \/ priced' = priced /\ pos' = pos
           \/ priced' = priced /\ AtHand(p) # Gone /\ Skipped(p, AtHand(p))
           \/ priced' = priced /\ missed' # {}
    PROVE  SyncInv'
<1> SUFFICES ASSUME ~unsure', missed' = {} PROVE \E j \in pos' .. furthest' : Matches(priced, j)'
  BY DEF SyncInv
<1>2. \A j : Matches(priced, j)' <=> Matches(priced', j)
  BY DEF Matches, ShownLast, Shown, Tombs
<1>3. /\ PricerTypes /\ pos \in Nat /\ furthest \in Nat /\ owner # Untracked
      /\ warm[p] \in {"tried", "warm"}
  BY AtHandFacts DEF TrackerInv, PricerTypes
<1>4. tracked[p] = priced
  BY <1>3 DEF TrackerInv, TrackedInv
<1>5. PICK j \in pos .. furthest : Matches(priced, j)
  BY DEF SyncInv
<1>6. CASE priced' = PublishOutcome(p) /\ (AtHand(p) # Gone => ~Skipped(p, AtHand(p)))
  <2>1. Matches(priced', pos + 1) /\ pos + 1 \in pos' .. furthest'
    BY <1>3, <1>6, WritesMatch
  <2> QED BY <2>1, <1>2
<1>7. CASE priced' = priced /\ pos' = pos
  <2>1. Matches(priced', j) /\ j \in pos' .. furthest'
    BY <1>3, <1>5, <1>7
  <2> QED BY <2>1, <1>2
<1>8. CASE priced' = priced /\ AtHand(p) # Gone /\ Skipped(p, AtHand(p))
  <2>1. CASE j = pos
    <3>1. Matches(priced', pos + 1) /\ pos + 1 \in pos' .. furthest'
      BY <1>3, <1>4, <1>5, <1>8, <2>1, SkipsMatch
    <3> QED BY <3>1, <1>2
  <2>2. CASE j # pos
    <3>1. Matches(priced', j) /\ j \in pos' .. furthest'
      BY <1>3, <1>5, <1>8, <2>2
    <3> QED BY <3>1, <1>2
  <2> QED BY <2>1, <2>2
<1> QED BY <1>6, <1>7, <1>8

\* One that leaves the topic as it is, or is not sure of it, and may go back.
LEMMA SyncRests ==
    ASSUME TrackerInv, SyncInv, UNCHANGED input, furthest' \in Nat, furthest <= furthest',
           missed' = {} => missed = {}, ~unsure' => ~unsure /\ priced' = priced, pos' \in {pos, commit}
    PROVE  SyncInv'
<1> SUFFICES ASSUME ~unsure', missed' = {} PROVE \E j \in pos' .. furthest' : Matches(priced, j)'
  BY DEF SyncInv
<1>1. PICK j \in pos .. furthest : Matches(priced, j)
  BY DEF SyncInv
<1>2. j \in pos' .. furthest'
  BY DEF TrackerInv, PricerTypes
<1>3. Matches(priced, j)'
  BY <1>1 DEF Matches, ShownLast, Shown, Tombs
<1> QED BY <1>2, <1>3

\* A record handled by a replica that was dropped.
LEMMA SyncStrays ==
    ASSUME TrackerInv, SyncInv, NEW p \in Pricers, owner # p, Prepared(p),
           Advance(p) \/ (Attempted(p) /\ UNCHANGED <<input, pos>>),
           missed' = {} => missed = {}, ~unsure' => ~unsure /\ priced' = priced
    PROVE  SyncInv'
<1>1. Position(p) \in Nat /\ furthest \in Nat
  BY AtHandFacts DEF TrackerInv, PricerTypes
<1>2. UNCHANGED <<input, pos>> /\ furthest' \in Nat /\ furthest <= furthest'
  BY <1>1 DEF Advance, Attempted
<1> QED BY <1>2, SyncRests

LEMMA SyncStep ==
    ASSUME InOrder
    PROVE  TrackerInv /\ SyncInv /\ [PricerNext]_pricerVars => SyncInv'
<1> SUFFICES ASSUME TrackerInv, SyncInv, [PricerNext]_pricerVars PROVE SyncInv'
  OBVIOUS
<1>a. ASSUME NEW p \in Pricers, owner = p, Prepared(p), Advance(p)
      PROVE  /\ UNCHANGED input /\ pos' = pos + 1
             /\ furthest' \in Nat /\ furthest <= furthest' /\ pos + 1 <= furthest'
  <2>1. Position(p) = pos
    BY <1>a DEF Position
  <2> QED BY <1>a, <2>1, AdvanceFacts DEF TrackerInv
<1>b. furthest \in Nat /\ furthest <= furthest
  BY DEF TrackerInv, PricerTypes
<1>1. ASSUME NEW p \in Pricers, WarmStart(p) PROVE SyncInv'
  <2>1. UNCHANGED <<input, priced, furthest, missed, pos>>
    BY <1>1 DEF WarmStart, partitionVars, topicVars
  <2>2. ~unsure' => ~unsure
    BY <1>1 DEF WarmStart
  <2> QED BY <2>1, <2>2, <1>b, SyncRests
<1>2. ASSUME NEW p \in Pricers, Skips(p) PROVE SyncInv'
  <2>1. /\ Prepared(p) /\ Advance(p) /\ AtHand(p) # Gone /\ Skipped(p, AtHand(p))
        /\ UNCHANGED <<priced, unsure, missed>>
    BY <1>2 DEF Skips, topicVars
  <2>2. CASE owner = p
    BY <2>1, <2>2, <1>a, SyncHandled
  <2>3. CASE owner # p
    BY <2>1, <2>3, SyncStrays
  <2> QED BY <2>2, <2>3
<1>3. ASSUME NEW p \in Pricers, Publishes(p) PROVE SyncInv'
  <2>1. /\ Prepared(p) /\ Advance(p) /\ AtHand(p) # Gone /\ ~Skipped(p, AtHand(p)) /\ priced' = PublishOutcome(p)
        /\ unsure' = (unsure \/ (owner # p /\ priced' # priced)) /\ UNCHANGED missed
    BY <1>3 DEF Publishes, PutsPrice, Intrudes
  <2>2. CASE owner = p
    BY <2>1, <2>2, <1>a, SyncHandled
  <2>3. CASE owner # p
    BY <2>1, <2>3, SyncStrays
  <2> QED BY <2>2, <2>3
<1>4. ASSUME NEW p \in Pricers, Deletes(p) PROVE SyncInv'
  <2>1. /\ Prepared(p) /\ Advance(p) /\ AtHand(p) = Gone /\ priced' = PublishOutcome(p)
        /\ unsure' = (unsure \/ (owner # p /\ priced' # priced)) /\ UNCHANGED missed
    BY <1>4 DEF Deletes, PutsPrice, Intrudes
  <2>2. CASE owner = p
    BY <2>1, <2>2, <1>a, SyncHandled
  <2>3. CASE owner # p
    BY <2>1, <2>3, SyncStrays
  <2> QED BY <2>2, <2>3
<1>5. ASSUME NEW p \in Pricers, PublishFails(p) PROVE SyncInv'
  <2>1. /\ Prepared(p) /\ (AtHand(p) # Gone => ~Skipped(p, AtHand(p)))
        /\ priced' \in {priced, PublishOutcome(p)}
    BY <1>5 DEF PublishFails, PutsPrice, topicVars
  <2>2. CASE skips
    <3>1. /\ Advance(p) /\ missed' = (IF owner = p THEN missed \cup {pos + 1} ELSE missed)
          /\ unsure' = (unsure \/ priced' # priced)
      BY <1>5, <2>2 DEF PublishFails
    <3>2. CASE owner = p
      <4>1. missed' # {}
        BY <3>1, <3>2
      <4> QED BY <2>1, <3>1, <3>2, <4>1, <1>a, SyncHandled
    <3>3. CASE owner # p
      BY <2>1, <3>1, <3>3, SyncStrays
    <3> QED BY <3>2, <3>3
  <2>3. CASE ~skips
    <3>1. /\ Attempted(p) /\ UNCHANGED <<input, pos, missed>>
          /\ unsure' = (unsure \/ (owner # p /\ priced' # priced))
      BY <1>5, <2>3 DEF PublishFails, Intrudes
    <3>2. CASE owner = p
      <4>1. Position(p) = pos /\ pos \in Nat
        BY <3>2 DEF Position, TrackerInv, PricerTypes
      <4>2. furthest' \in Nat /\ furthest <= furthest' /\ pos + 1 <= furthest'
        BY <3>1, <4>1, <1>b DEF Attempted
      <4> QED BY <2>1, <3>1, <3>2, <4>2, SyncHandled
    <3>3. CASE owner # p
      BY <2>1, <3>1, <3>3, SyncStrays
    <3> QED BY <3>2, <3>3
  <2> QED BY <2>2, <2>3
<1>6. ASSUME NEW p \in Pricers, PricerDies(p) PROVE SyncInv'
  <2>1. UNCHANGED <<input, priced, furthest, missed, pos, unsure>>
    BY <1>6 DEF PricerDies, topicVars
  <2> QED BY <2>1, <1>b, SyncRests
<1>7. ASSUME NEW p \in Pricers, StartsProcess(p) PROVE SyncInv'
  <2>1. UNCHANGED <<input, priced, furthest, missed, unsure>> /\ pos' \in {pos, commit}
    BY <1>7 DEF StartsProcess, topicVars
  <2> QED BY <2>1, <1>b, SyncRests
<1>8. ASSUME NEW p \in Pricers, Moves(p) PROVE SyncInv'
  <2>1. UNCHANGED <<input, priced, furthest, missed>> /\ (~unsure' => ~unsure) /\ pos' \in {pos, commit}
    BY <1>8 DEF Moves, topicVars
  <2> QED BY <2>1, <1>b, SyncRests
<1>11. ASSUME NEW p \in Pricers, Learns(p) PROVE SyncInv'
  <2>1. UNCHANGED <<input, priced, furthest, missed, pos, unsure>>
    BY <1>11 DEF Learns, topicVars
  <2> QED BY <2>1, <1>b, SyncRests
<1>9. CASE CommitsGroup
  <2>1. UNCHANGED <<input, priced, furthest, missed, pos, unsure>>
    BY <1>9 DEF CommitsGroup, topicVars
  <2> QED BY <2>1, <1>b, SyncRests
<1>10. CASE UNCHANGED pricerVars
  <2>1. UNCHANGED <<input, priced, furthest, missed, pos, unsure>>
    BY <1>10 DEF pricerVars, topicVars, partitionVars
  <2> QED BY <2>1, <1>b, SyncRests
<1> QED BY <1>1, <1>2, <1>3, <1>4, <1>5, <1>6, <1>7, <1>8, <1>9, <1>10, <1>11 DEF PricerNext

LEMMA PricerPromises ==
    ASSUME InOrder
    PROVE  TrackerInv /\ SyncInv => PricerCorrect
<1> SUFFICES ASSUME TrackerInv, SyncInv PROVE PricerCorrect
  OBVIOUS
<1>1. PricerTypeOK
  BY DEF TrackerInv, TriesInv, PricerTypes, PricerTypeOK
<1>2. PricedIsNewest
  <2> SUFFICES ASSUME pos = furthest, ~unsure, missed = {}
               PROVE  IF Shown(pos) = {} THEN priced = Untracked
                      ELSE priced # Untracked /\ priced.fp = input[Newest(Shown(pos))].fp
    BY DEF PricedIsNewest
  <2>1. Matches(priced, pos) /\ pos \in Nat /\ input \in Inputs /\ pos <= Len(input) /\ Len(input) \in Nat
    BY PricerAssumption DEF SyncInv, TrackerInv, PricerTypes
  <2>2. ASSUME Shown(pos) # {} PROVE priced # Untracked /\ priced.fp = input[Newest(Shown(pos))].fp
    <3>1. PICK k \in Shown(pos) : ShownLast(pos, k) /\ priced # Untracked /\ priced.fp = input[k].fp
      BY <2>1, <2>2 DEF Matches
    <3>2. \A j \in Shown(pos) : j \in 1 .. Len(input) /\ input[j] # Gone /\ input[j].at \in Nat
      BY <2>1, PricerAssumption DEF Shown
    <3>3. \A i, j \in Shown(pos) : i < j => input[i].at <= input[j].at
      BY <2>1, <3>2 DEF InOrder
    <3> DEFINE Leads(i) == \A j \in Shown(pos) : \/ input[j].at < input[i].at
                                                 \/ input[j].at = input[i].at /\ j <= i
    <3>4. Leads(k)
      <4> SUFFICES ASSUME NEW j \in Shown(pos)
                   PROVE  \/ input[j].at < input[k].at
                          \/ input[j].at = input[k].at /\ j <= k
        OBVIOUS
      <4>1. j <= k
        BY <3>1 DEF ShownLast
      <4> QED BY <4>1, <3>2, <3>3
    <3>5. \A i \in Shown(pos) : Leads(i) => i = k
      <4> SUFFICES ASSUME NEW i \in Shown(pos), Leads(i), i # k PROVE FALSE
        OBVIOUS
      <4>1. i <= k /\ i \in Nat /\ k \in Nat
        BY <3>1, <3>2 DEF ShownLast
      <4>2. input[i].at <= input[k].at
        BY <4>1, <3>3
      <4>3. input[k].at < input[i].at \/ k <= i
        OBVIOUS
      <4>4. input[i].at \in Nat /\ input[k].at \in Nat
        BY <3>2
      <4> QED BY <4>1, <4>2, <4>3, <4>4
    <3>6. Newest(Shown(pos)) = CHOOSE i \in Shown(pos) : Leads(i)
      BY DEF Newest
    <3> HIDE DEF Leads
    <3>7. Newest(Shown(pos)) = k
      BY <3>4, <3>5, <3>6
    <3> QED BY <3>1, <3>7
  <2> QED BY <2>1, <2>2 DEF Matches
<1>3. DeletedIsGone /\ NeverOlder
  BY DEF TrackerInv, DeletedInv, DeletedIsGone, NeverOlder
<1> QED BY <1>1, <1>2, <1>3 DEF PricerCorrect

\* service.go, HandleMessage, shouldSkip and ensureWarm, with the group that moves the
\* partition, or drops a replica in the middle of a record: for any replicas, deployments
\* and failures, if a market's observations are published in the order of their instants,
\* the price is that of the newest input, a deleted market has none, and the price never
\* goes back to an older observation; unless, as the properties say, a replica that had
\* lost the partition wrote, one priced without a current memory, or a failure was skipped.
THEOREM PricesCorrect ==
    ASSUME InOrder
    PROVE  PricerSpec => []PricerCorrect
<1>1. PricerInit => TrackerInv /\ SyncInv
  BY PricerInitial
<1>2. TrackerInv /\ SyncInv /\ [PricerNext]_pricerVars => TrackerInv' /\ SyncInv'
  BY TrackerStep, SyncStep
<1>3. TrackerInv /\ SyncInv => PricerCorrect
  BY PricerPromises
<1> QED BY <1>1, <1>2, <1>3, PTL DEF PricerSpec

-----------------------------------------------------------------------------
(* Subscriptions in Redis *)

Phases == {"new", "restored", "up", "leaving", "gone"}
Unadmitted == {"new", "restored"}
SetKeys(names) == [members : SUBSET names, ttl : 0 .. TTL]

\* A key that is there has as many ticks left as its session, or its replica, has not used up.
SubInv ==
    /\ setup \in Setups
    /\ sub \in [Sessions -> SetKeys(ChannelNames)]
    /\ kept \in [Sessions -> SUBSET ChannelNames]
    /\ age \in [Sessions -> 0 .. TTL]
    /\ \A s \in Sessions :
        /\ sub[s].ttl = 0 <=> sub[s].members = {}
        /\ sub[s].ttl # 0 => sub[s].ttl = TTL - age[s]
        /\ age[s] < TTL => sub[s].members = kept[s]
        /\ age[s] = TTL => kept[s] = {}
        /\ Cardinality(sub[s].members) <= setup.max

CounterInv ==
    /\ counter \in [ChannelNames -> [n : Nat, ttl : 0 .. TTL]]
    /\ CountersExact

PresentInv ==
    /\ present \in [Replicas -> SetKeys(Conns)]
    /\ silent \in [Replicas -> 0 .. TTL]
    /\ phase \in [Conns -> Phases]
    /\ \A r \in Replicas :
        /\ present[r].ttl = 0 <=> present[r].members = {}
        /\ present[r].ttl # 0 => present[r].ttl = TTL - silent[r]
        /\ \A c \in present[r].members : phase[c] \notin Unadmitted

SessInv == sess \in [Sessions -> [by : Conns \cup {Nobody}, ttl : 0 .. TTL]]

PresenceInv == SubInv /\ CounterInv /\ PresentInv /\ SessInv

LEMMA KeyFacts ==
    /\ TTL \in Nat /\ TTL # 0 /\ TTL \in 0 .. TTL /\ 0 \in 0 .. TTL
    /\ \A names : Missing \in SetKeys(names)
    /\ \A names, S : S \subseteq names => Full(S) \in SetKeys(names)
    /\ \A S : /\ Full(S).members = S
              /\ Full(S).ttl = 0 <=> S = {}
              /\ Full(S).ttl # 0 => Full(S).ttl = TTL
    /\ \A names : \A k \in SetKeys(names) :
          /\ k.members \subseteq names /\ k.ttl \in 0 .. TTL
          /\ Refreshed(k) \in SetKeys(names) /\ Refreshed(k).members = k.members
          /\ Refreshed(k).ttl = IF k.ttl = 0 THEN 0 ELSE TTL
<1>1. TTL \in Nat /\ TTL # 0
  BY PresenceAssumption
<1>2. \A names : \A k \in SetKeys(names) :
          /\ k.members \subseteq names /\ k.ttl \in 0 .. TTL
          /\ Refreshed(k) \in SetKeys(names) /\ Refreshed(k).members = k.members
          /\ Refreshed(k).ttl = IF k.ttl = 0 THEN 0 ELSE TTL
  BY <1>1 DEF SetKeys, Refreshed
<1>3. \A names, S : S \subseteq names => Full(S) \in SetKeys(names)
  BY <1>1 DEF SetKeys, Full, Missing
<1> QED BY <1>1, <1>2, <1>3 DEF Missing, Full, SetKeys

LEMMA LinkFacts ==
    ASSUME SubInv, NEW c \in Conns
    PROVE  SessionOf(c) \in Sessions /\ ReplicaOf(c) \in Replicas /\ setup.max \in Nat \ {0}
BY PresenceAssumption DEF SubInv, SessionOf, ReplicaOf

\* While a session is remembered its set is what the calls left; afterwards there is neither.
LEMMA KeptIsStored ==
    ASSUME SubInv, NEW s \in Sessions
    PROVE  sub[s].members = kept[s]
<1>1. TTL \in Nat /\ age[s] \in 0 .. TTL
  BY KeyFacts DEF SubInv
<1>2. CASE age[s] < TTL
  BY <1>2 DEF SubInv
<1>3. CASE age[s] = TTL
  <2>1. sub[s].ttl = 0
    BY <1>1, <1>3 DEF SubInv
  <2> QED BY <2>1, <1>3 DEF SubInv
<1> QED BY <1>1, <1>2, <1>3

LEMMA HoldersFinite == \A ch : IsFiniteSet(Holders(ch)) /\ Cardinality(Holders(ch)) \in Nat
<1> SUFFICES ASSUME NEW ch PROVE IsFiniteSet(Holders(ch)) /\ Cardinality(Holders(ch)) \in Nat
  OBVIOUS
<1>1. IsFiniteSet(Holders(ch))
  BY PresenceAssumption, FS_Subset DEF Holders
<1> QED BY <1>1, FS_CardinalityType

LEMMA PresenceInitial == PresenceInit => PresenceInv
<1> SUFFICES ASSUME PresenceInit PROVE PresenceInv
  OBVIOUS
<1>1. TTL \in Nat /\ TTL # 0 /\ Cardinality({}) = 0 /\ setup \in Setups /\ setup.max \in Nat
  BY PresenceAssumption, FS_EmptySet DEF PresenceInit
<1>2. \A names : Missing \in SetKeys(names) /\ Missing.members = {} /\ Missing.ttl = 0
  BY <1>1 DEF Missing, SetKeys
<1>3. SubInv
  <2>1. /\ sub \in [Sessions -> SetKeys(ChannelNames)] /\ kept \in [Sessions -> SUBSET ChannelNames]
        /\ age \in [Sessions -> 0 .. TTL]
    BY <1>1, <1>2 DEF PresenceInit
  <2>2. \A s \in Sessions : sub[s].members = {} /\ sub[s].ttl = 0 /\ kept[s] = {} /\ age[s] = TTL
    BY <1>2 DEF PresenceInit
  <2>3. \A s \in Sessions : Cardinality(sub[s].members) = 0
    BY <2>2, <1>1
  <2>4. 0 <= setup.max /\ TTL - TTL = 0 /\ ~(TTL < TTL)
    BY <1>1
  <2>5. \A s \in Sessions : Cardinality(sub[s].members) <= setup.max
    BY <2>3, <2>4
  <2> QED BY <2>1, <2>2, <2>4, <2>5, <1>1 DEF SubInv
<1>4. CounterInv
  <2>1. \A ch : Holders(ch) = {}
    BY <1>2 DEF PresenceInit, Holders
  <2>2. /\ counter \in [ChannelNames -> [n : Nat, ttl : 0 .. TTL]]
        /\ \A ch \in ChannelNames : counter[ch].n = 0 /\ counter[ch].ttl = 0
    BY <1>1 DEF PresenceInit
  <2> QED BY <1>1, <2>1, <2>2 DEF CounterInv, CountersExact
<1>5. PresentInv
  BY <1>1, <1>2 DEF PresenceInit, PresentInv, Phases
<1>6. SessInv
  BY <1>1 DEF PresenceInit, SessInv
<1> QED BY <1>3, <1>4, <1>5, <1>6 DEF PresenceInv

-----------------------------------------------------------------------------
(* Scripts and transactions *)

LEMMA PresentKept ==
    ASSUME PresentInv, UNCHANGED <<present, silent>>, phase' \in [Conns -> Phases],
           \A c \in Conns : phase'[c] \in Unadmitted => phase[c] \in Unadmitted
    PROVE  PresentInv'
<1>1. \A r \in Replicas : present[r].members \subseteq Conns
  BY DEF PresentInv, SetKeys
<1> QED BY <1>1 DEF PresentInv, SetKeys

LEMMA SubscribeKeeps ==
    ASSUME SubInv, CounterInv, SessInv, NEW c \in Conns, NEW chans \in SUBSET ChannelNames,
           chans # {}, SubscribeScript(c, chans), UNCHANGED <<setup, drifted>>
    PROVE  SubInv' /\ CounterInv' /\ SessInv' /\ UNCHANGED present
<1> DEFINE s == SessionOf(c)
           fresh == FreshOf(s, chans)
<1>1. CASE ~Admits(s, chans)
  BY <1>1 DEF SubscribeScript, keyVars, SubInv, CounterInv, CountersExact, Holders, SessInv
<1>2. CASE Admits(s, chans)
  <2>1. /\ sub' = [sub EXCEPT ![s] = Full(sub[s].members \cup chans)]
        /\ counter' = [ch \in ChannelNames |->
               IF ch \in fresh THEN [n |-> counter[ch].n + 1, ttl |-> TTL] ELSE counter[ch]]
        /\ sess' = [sess EXCEPT ![s] = [by |-> c, ttl |-> TTL]]
        /\ kept' = [kept EXCEPT ![s] = kept[s] \cup chans]
        /\ age' = [age EXCEPT ![s] = 0]
        /\ UNCHANGED present
    BY <1>2 DEF SubscribeScript
  <2>2. s \in Sessions /\ setup.max \in Nat
    BY LinkFacts
  <2>3. /\ fresh = chans \ sub[s].members
        /\ Cardinality(sub[s].members) + Cardinality(fresh) <= setup.max
    BY <1>2 DEF FreshOf, Admits
  <2> HIDE DEF s, fresh
  <2>4. TTL \in Nat /\ TTL # 0
    BY KeyFacts
  <2>5. /\ sub' \in [Sessions -> SetKeys(ChannelNames)]
        /\ sub'[s].members = sub[s].members \cup chans /\ sub'[s].ttl = TTL
        /\ \A t \in Sessions \ {s} : sub'[t] = sub[t]
    <3>1. sub[s].members \subseteq ChannelNames
      BY <2>2, KeyFacts DEF SubInv
    <3>2. /\ Full(sub[s].members \cup chans) \in SetKeys(ChannelNames)
          /\ Full(sub[s].members \cup chans).members = sub[s].members \cup chans
          /\ Full(sub[s].members \cup chans).ttl = TTL
      BY <3>1, KeyFacts
    <3> QED BY <2>1, <2>2, <3>2 DEF SubInv
  <2>6. Cardinality(sub'[s].members) <= setup.max
    <3>1. IsFiniteSet(sub[s].members) /\ IsFiniteSet(fresh)
      <4>1. sub[s].members \subseteq ChannelNames /\ fresh \subseteq ChannelNames
        BY <2>2, <2>3, KeyFacts DEF SubInv
      <4> QED BY <4>1, PresenceAssumption, FS_Subset
    <3>2. sub'[s].members = sub[s].members \cup fresh /\ sub[s].members \cap fresh = {}
      BY <2>3, <2>5
    <3>3. Cardinality(sub[s].members \cup fresh)
            = Cardinality(sub[s].members) + Cardinality(fresh) - Cardinality(sub[s].members \cap fresh)
      BY <3>1, FS_Union
    <3>4. Cardinality(sub[s].members \cap fresh) = 0
      BY <3>2, FS_EmptySet
    <3>5. Cardinality(sub[s].members) \in Nat /\ Cardinality(fresh) \in Nat
      BY <3>1, FS_CardinalityType
    <3> QED BY <2>3, <3>2, <3>3, <3>4, <3>5
  <2>7. /\ kept' \in [Sessions -> SUBSET ChannelNames] /\ kept'[s] = kept[s] \cup chans
        /\ age' \in [Sessions -> 0 .. TTL] /\ age'[s] = 0
        /\ \A t \in Sessions \ {s} : kept'[t] = kept[t] /\ age'[t] = age[t]
    BY <2>1, <2>2, <2>4 DEF SubInv
  <2>8. sub[s].members = kept[s]
    BY <2>2, KeptIsStored
  <2>9. SubInv'
    <3>1. ASSUME NEW t \in Sessions
          PROVE  /\ sub'[t].ttl = 0 <=> sub'[t].members = {}
                 /\ sub'[t].ttl # 0 => sub'[t].ttl = TTL - age'[t]
                 /\ age'[t] < TTL => sub'[t].members = kept'[t]
                 /\ age'[t] = TTL => kept'[t] = {}
                 /\ Cardinality(sub'[t].members) <= setup.max
      <4>1. CASE t = s
        BY <4>1, <2>4, <2>5, <2>6, <2>7, <2>8
      <4>2. CASE t # s
        BY <4>2, <2>5, <2>7 DEF SubInv
      <4> QED BY <4>1, <4>2
    <3> QED BY <3>1, <2>5, <2>7 DEF SubInv
  <2>10. /\ counter' \in [ChannelNames -> [n : Nat, ttl : 0 .. TTL]]
         /\ \A ch \in fresh : counter'[ch].n = counter[ch].n + 1 /\ counter'[ch].ttl = TTL /\ counter[ch].n \in Nat
         /\ \A ch \in ChannelNames \ fresh : counter'[ch] = counter[ch]
         /\ fresh \subseteq ChannelNames
    BY <2>1, <2>3, <2>4 DEF CounterInv
  <2>11. ASSUME NEW ch \in ChannelNames, ch \notin drifted
         PROVE  counter'[ch].n = Cardinality(Holders(ch)')
    <3>1. counter[ch].n = Cardinality(Holders(ch))
      BY <2>11 DEF CounterInv, CountersExact
    <3>2. CASE ch \in fresh
      <4>1. Holders(ch)' = Holders(ch) \cup {s} /\ s \notin Holders(ch)
        BY <3>2, <2>2, <2>3, <2>5 DEF Holders
      <4>2. Cardinality(Holders(ch) \cup {s}) = Cardinality(Holders(ch)) + 1
        BY <4>1, HoldersFinite, FS_AddElement
      <4> QED BY <3>1, <3>2, <4>1, <4>2, <2>10
    <3>3. CASE ch \notin fresh
      <4>1. Holders(ch)' = Holders(ch)
        BY <3>3, <2>2, <2>3, <2>5 DEF Holders
      <4> QED BY <3>1, <3>3, <4>1, <2>10
    <3> QED BY <3>2, <3>3
  <2>12. \A ch \in ChannelNames : counter'[ch].ttl = 0 <=> counter'[ch].n = 0
    BY <2>4, <2>10 DEF CounterInv, CountersExact
  <2>13. CounterInv'
    BY <2>10, <2>11, <2>12 DEF CounterInv, CountersExact
  <2>14. SessInv'
    <3>1. [by |-> c, ttl |-> TTL] \in [by : Conns \cup {Nobody}, ttl : 0 .. TTL]
      BY <2>4
    <3> QED BY <3>1, <2>1, <2>2 DEF SessInv
  <2> QED BY <2>1, <2>9, <2>13, <2>14
<1> QED BY <1>1, <1>2

LEMMA UnsubscribeKeeps ==
    ASSUME SubInv, CounterInv, SessInv, NEW s \in Sessions, NEW chans,
           UnsubscribeScript(s, chans), UNCHANGED <<setup, drifted>>
    PROVE  SubInv' /\ CounterInv' /\ SessInv' /\ UNCHANGED present
<1> DEFINE leaving == chans \cap sub[s].members
<1>1. /\ sub' = [sub EXCEPT ![s] = Full(sub[s].members \ chans)]
      /\ counter' = [ch \in ChannelNames |-> IF ch \in leaving THEN Decremented(counter[ch]) ELSE counter[ch]]
      /\ sess' = [sess EXCEPT ![s] = Refreshed(sess[s])]
      /\ kept' = [kept EXCEPT ![s] = kept[s] \ chans]
      /\ age' = [age EXCEPT ![s] = 0]
      /\ UNCHANGED present
  BY DEF UnsubscribeScript
<1>2. TTL \in Nat /\ TTL # 0 /\ setup.max \in Nat
  BY KeyFacts, PresenceAssumption DEF SubInv
<1>3. /\ sub' \in [Sessions -> SetKeys(ChannelNames)]
      /\ sub'[s].members = sub[s].members \ chans
      /\ sub'[s].ttl = 0 <=> sub'[s].members = {}
      /\ sub'[s].ttl # 0 => sub'[s].ttl = TTL
      /\ \A t \in Sessions \ {s} : sub'[t] = sub[t]
  <2>1. sub[s].members \ chans \subseteq ChannelNames
    BY KeyFacts DEF SubInv
  <2>2. Full(sub[s].members \ chans) \in SetKeys(ChannelNames)
    BY <2>1, KeyFacts
  <2>3. sub'[s] = Full(sub[s].members \ chans) /\ \A t \in Sessions \ {s} : sub'[t] = sub[t]
    BY <1>1 DEF SubInv
  <2>4. sub' \in [Sessions -> SetKeys(ChannelNames)]
    BY <1>1, <2>2 DEF SubInv
  <2> QED BY <2>3, <2>4, KeyFacts
<1>4. Cardinality(sub'[s].members) <= setup.max
  <2>1. sub[s].members \subseteq ChannelNames /\ Cardinality(sub[s].members) <= setup.max
    BY KeyFacts DEF SubInv
  <2>2. IsFiniteSet(sub[s].members)
    BY <2>1, PresenceAssumption, FS_Subset
  <2>3. /\ IsFiniteSet(sub'[s].members)
        /\ Cardinality(sub'[s].members) <= Cardinality(sub[s].members)
    BY <1>3, <2>2, FS_Subset
  <2>4. Cardinality(sub'[s].members) \in Nat /\ Cardinality(sub[s].members) \in Nat
    BY <2>2, <2>3, FS_CardinalityType
  <2> QED BY <2>1, <2>3, <2>4, <1>2
<1>5. /\ kept' \in [Sessions -> SUBSET ChannelNames] /\ kept'[s] = kept[s] \ chans
      /\ age' \in [Sessions -> 0 .. TTL] /\ age'[s] = 0
      /\ \A t \in Sessions \ {s} : kept'[t] = kept[t] /\ age'[t] = age[t]
  BY <1>1, <1>2 DEF SubInv
<1>6. sub[s].members = kept[s]
  BY KeptIsStored
<1>7. SubInv'
  <2>1. ASSUME NEW t \in Sessions
        PROVE  /\ sub'[t].ttl = 0 <=> sub'[t].members = {}
               /\ sub'[t].ttl # 0 => sub'[t].ttl = TTL - age'[t]
               /\ age'[t] < TTL => sub'[t].members = kept'[t]
               /\ age'[t] = TTL => kept'[t] = {}
               /\ Cardinality(sub'[t].members) <= setup.max
    <3>1. CASE t = s
      BY <3>1, <1>2, <1>3, <1>4, <1>5, <1>6
    <3>2. CASE t # s
      BY <3>2, <1>3, <1>5 DEF SubInv
    <3> QED BY <3>1, <3>2
  <2> QED BY <2>1, <1>3, <1>5 DEF SubInv
<1> HIDE DEF leaving
<1>8. \A ch \in ChannelNames : /\ counter[ch].n \in Nat /\ counter[ch].ttl \in 0 .. TTL
                               /\ counter[ch].ttl = 0 <=> counter[ch].n = 0
  BY DEF CounterInv, CountersExact
<1>9. ASSUME NEW ch \in ChannelNames
      PROVE  /\ Decremented(counter[ch]) \in [n : Nat, ttl : 0 .. TTL]
             /\ Decremented(counter[ch]).ttl = 0 <=> Decremented(counter[ch]).n = 0
             /\ counter[ch].n > 0 => Decremented(counter[ch]).n = counter[ch].n - 1
  BY <1>2, <1>8 DEF Decremented
<1>10. /\ counter' \in [ChannelNames -> [n : Nat, ttl : 0 .. TTL]]
       /\ \A ch \in ChannelNames : counter'[ch].ttl = 0 <=> counter'[ch].n = 0
  BY <1>1, <1>8, <1>9 DEF CounterInv
<1>11. ASSUME NEW ch \in ChannelNames, ch \notin drifted
       PROVE  counter'[ch].n = Cardinality(Holders(ch)')
  <2>1. counter[ch].n = Cardinality(Holders(ch))
    BY <1>11 DEF CounterInv, CountersExact
  <2>2. CASE ch \in leaving
    <3>1. Holders(ch)' = Holders(ch) \ {s} /\ s \in Holders(ch)
      BY <2>2, <1>3 DEF Holders, leaving
    <3>2. Cardinality(Holders(ch) \ {s}) = Cardinality(Holders(ch)) - 1
      BY <3>1, HoldersFinite, FS_RemoveElement
    <3>3. Cardinality(Holders(ch) \ {s}) \in Nat
      BY HoldersFinite, FS_RemoveElement, FS_CardinalityType
    <3>4. counter'[ch] = Decremented(counter[ch])
      BY <2>2, <1>1
    <3> QED BY <2>1, <3>1, <3>2, <3>3, <3>4, <1>8, <1>9
  <2>3. CASE ch \notin leaving
    <3>1. Holders(ch)' = Holders(ch)
      BY <2>3, <1>3 DEF Holders, leaving
    <3> QED BY <2>1, <2>3, <3>1, <1>1
  <2> QED BY <2>2, <2>3
<1>12. CounterInv'
  BY <1>10, <1>11 DEF CounterInv, CountersExact
<1>13. SessInv'
  BY <1>1, <1>2 DEF SessInv, Refreshed
<1> QED BY <1>1, <1>7, <1>12, <1>13

\* Connected and Touch.
LEMMA WriteKeeps ==
    ASSUME SubInv, CounterInv, SessInv, PresentInv, NEW c \in Conns, NEW by \in Conns \cup {Nobody},
           Writes(c, by), UNCHANGED <<setup, drifted>>, phase' \in [Conns -> Phases],
           \A d \in Conns : phase'[d] \in Unadmitted => phase[d] \in Unadmitted,
           phase'[c] \notin Unadmitted
    PROVE  SubInv' /\ CounterInv' /\ SessInv' /\ PresentInv'
<1> DEFINE s == SessionOf(c)
           r == ReplicaOf(c)
<1>1. /\ sess' = [sess EXCEPT ![s] = [by |-> by, ttl |-> TTL]]
      /\ present' = [present EXCEPT ![r] = Full(present[r].members \cup {c})]
      /\ sub' = [sub EXCEPT ![s] = Refreshed(sub[s])]
      /\ age' = [age EXCEPT ![s] = 0]
      /\ silent' = [silent EXCEPT ![r] = 0]
      /\ UNCHANGED <<counter, kept>>
  BY DEF Writes
<1>2. s \in Sessions /\ r \in Replicas
  BY LinkFacts
<1> HIDE DEF s, r
<1>3. TTL \in Nat /\ TTL # 0
  BY KeyFacts
<1>4. sub[s].members = kept[s]
  BY <1>2, KeptIsStored
<1>5. /\ sub' \in [Sessions -> SetKeys(ChannelNames)]
      /\ sub'[s].members = sub[s].members
      /\ sub'[s].ttl = IF sub[s].ttl = 0 THEN 0 ELSE TTL
      /\ \A t \in Sessions \ {s} : sub'[t] = sub[t]
      /\ age' \in [Sessions -> 0 .. TTL] /\ age'[s] = 0
      /\ \A t \in Sessions \ {s} : age'[t] = age[t]
  <2>1. /\ Refreshed(sub[s]) \in SetKeys(ChannelNames) /\ Refreshed(sub[s]).members = sub[s].members
        /\ Refreshed(sub[s]).ttl = IF sub[s].ttl = 0 THEN 0 ELSE TTL
    BY <1>2, KeyFacts DEF SubInv
  <2> QED BY <2>1, <1>1, <1>2, <1>3 DEF SubInv
<1>6. SubInv'
  <2>1. ASSUME NEW t \in Sessions
        PROVE  /\ sub'[t].ttl = 0 <=> sub'[t].members = {}
               /\ sub'[t].ttl # 0 => sub'[t].ttl = TTL - age'[t]
               /\ age'[t] < TTL => sub'[t].members = kept'[t]
               /\ age'[t] = TTL => kept'[t] = {}
               /\ Cardinality(sub'[t].members) <= setup.max
    <3>1. CASE t = s
      BY <3>1, <1>1, <1>3, <1>4, <1>5 DEF SubInv
    <3>2. CASE t # s
      BY <3>2, <1>1, <1>5 DEF SubInv
    <3> QED BY <3>1, <3>2
  <2> QED BY <2>1, <1>1, <1>5 DEF SubInv
<1>7. CounterInv'
  <2>1. \A t \in Sessions : sub'[t].members = sub[t].members
    BY <1>5
  <2>2. \A ch : Holders(ch)' = Holders(ch)
    BY <2>1 DEF Holders
  <2> QED BY <2>2, <1>1 DEF CounterInv, CountersExact
<1>8. SessInv'
  <2>1. [by |-> by, ttl |-> TTL] \in [by : Conns \cup {Nobody}, ttl : 0 .. TTL]
    BY <1>3
  <2> QED BY <2>1, <1>1 DEF SessInv
<1>9. /\ present' \in [Replicas -> SetKeys(Conns)]
      /\ present'[r].members = present[r].members \cup {c} /\ present'[r].ttl = TTL
      /\ \A q \in Replicas \ {r} : present'[q] = present[q]
      /\ silent' \in [Replicas -> 0 .. TTL] /\ silent'[r] = 0
      /\ \A q \in Replicas \ {r} : silent'[q] = silent[q]
  <2>1. present[r].members \cup {c} \subseteq Conns
    BY <1>2, KeyFacts DEF PresentInv
  <2>2. /\ Full(present[r].members \cup {c}) \in SetKeys(Conns)
        /\ Full(present[r].members \cup {c}).members = present[r].members \cup {c}
        /\ Full(present[r].members \cup {c}).ttl = TTL
    BY <2>1, KeyFacts
  <2>3. present'[r] = Full(present[r].members \cup {c})
    BY <1>1, <1>2 DEF PresentInv
  <2>4. present' \in [Replicas -> SetKeys(Conns)] /\ \A q \in Replicas \ {r} : present'[q] = present[q]
    BY <2>2, <1>1, <1>2 DEF PresentInv
  <2>5. /\ silent' \in [Replicas -> 0 .. TTL] /\ silent'[r] = 0
        /\ \A q \in Replicas \ {r} : silent'[q] = silent[q]
    BY <1>1, <1>2, <1>3 DEF PresentInv
  <2> QED BY <2>2, <2>3, <2>4, <2>5
<1>10. PresentInv'
  <2>1. ASSUME NEW q \in Replicas
        PROVE  /\ present'[q].ttl = 0 <=> present'[q].members = {}
               /\ present'[q].ttl # 0 => present'[q].ttl = TTL - silent'[q]
               /\ \A d \in present'[q].members : phase'[d] \notin Unadmitted
    <3>1. present[q].members \subseteq Conns /\ \A d \in present[q].members : phase'[d] \notin Unadmitted
      BY KeyFacts DEF PresentInv
    <3>2. CASE q = r
      BY <3>1, <3>2, <1>3, <1>9
    <3>3. CASE q # r
      BY <3>1, <3>3, <1>9 DEF PresentInv
    <3> QED BY <3>2, <3>3
  <2> QED BY <2>1, <1>9 DEF PresentInv
<1> QED BY <1>6, <1>7, <1>8, <1>10

\* Disconnected, and the end of Forget.
LEMMA LeaveKeeps ==
    ASSUME SubInv, PresentInv, NEW c \in Conns, Leaves(c), phase' \in [Conns -> Phases],
           \A d \in Conns : phase'[d] \in Unadmitted => phase[d] \in Unadmitted
    PROVE  PresentInv'
<1> DEFINE r == ReplicaOf(c)
<1>1. /\ present' = [present EXCEPT ![r] = Full(present[r].members \ {c})]
      /\ silent' = [silent EXCEPT ![r] = 0]
  BY DEF Leaves
<1>2. r \in Replicas /\ TTL \in Nat
  BY LinkFacts, KeyFacts
<1> HIDE DEF r
<1>3. /\ present' \in [Replicas -> SetKeys(Conns)]
      /\ present'[r].members = present[r].members \ {c}
      /\ present'[r].ttl = 0 <=> present'[r].members = {}
      /\ present'[r].ttl # 0 => present'[r].ttl = TTL
      /\ \A q \in Replicas \ {r} : present'[q] = present[q]
      /\ silent' \in [Replicas -> 0 .. TTL] /\ silent'[r] = 0
      /\ \A q \in Replicas \ {r} : silent'[q] = silent[q]
  <2>1. present[r].members \ {c} \subseteq Conns
    BY <1>2, KeyFacts DEF PresentInv
  <2>2. Full(present[r].members \ {c}) \in SetKeys(Conns)
    BY <2>1, KeyFacts
  <2>3. present'[r] = Full(present[r].members \ {c})
    BY <1>1, <1>2 DEF PresentInv
  <2>4. /\ present'[r].members = present[r].members \ {c}
        /\ present'[r].ttl = 0 <=> present'[r].members = {}
        /\ present'[r].ttl # 0 => present'[r].ttl = TTL
    BY <2>3, KeyFacts
  <2>5. present' \in [Replicas -> SetKeys(Conns)] /\ \A q \in Replicas \ {r} : present'[q] = present[q]
    BY <2>2, <1>1, <1>2 DEF PresentInv
  <2>6. /\ silent' \in [Replicas -> 0 .. TTL] /\ silent'[r] = 0
        /\ \A q \in Replicas \ {r} : silent'[q] = silent[q]
    BY <1>1, <1>2 DEF PresentInv
  <2> QED BY <2>3, <2>4, <2>5, <2>6
<1>4. ASSUME NEW q \in Replicas
      PROVE  /\ present'[q].ttl = 0 <=> present'[q].members = {}
             /\ present'[q].ttl # 0 => present'[q].ttl = TTL - silent'[q]
             /\ \A d \in present'[q].members : phase'[d] \notin Unadmitted
  <2>1. present[q].members \subseteq Conns /\ \A d \in present[q].members : phase'[d] \notin Unadmitted
    BY KeyFacts DEF PresentInv
  <2>2. CASE q = r
    BY <2>1, <2>2, <1>2, <1>3
  <2>3. CASE q # r
    BY <2>1, <2>3, <1>3 DEF PresentInv
  <2> QED BY <2>2, <2>3
<1> QED BY <1>3, <1>4 DEF PresentInv

\* What does not touch the keys of sessions.
LEMMA SessionsKept ==
    ASSUME SubInv, CounterInv, UNCHANGED <<setup, sub, counter, kept, age, drifted>>
    PROVE  SubInv' /\ CounterInv'
<1>1. \A ch : Holders(ch)' = Holders(ch)
  BY DEF Holders
<1> QED BY <1>1 DEF SubInv, CounterInv, CountersExact

-----------------------------------------------------------------------------
(* Expiry *)

\* A key lives as long as it is refreshed, and a counter that no key expired under is exact.
LEMMA TickKeeps ==
    ASSUME PresenceInv, Tick, UNCHANGED setup
    PROVE  PresenceInv'
<1>1. /\ TTL \in Nat /\ TTL # 0
      /\ SubInv /\ CounterInv /\ PresentInv /\ SessInv
  BY KeyFacts DEF PresenceInv
<1>2. \A names : \A k \in SetKeys(names) :
        /\ Ebbs(k) \in SetKeys(names)
        /\ k.ttl <= 1 => Ebbs(k).members = {} /\ Ebbs(k).ttl = 0
        /\ k.ttl > 1 => Ebbs(k).members = k.members /\ Ebbs(k).ttl = k.ttl - 1
        /\ k.ttl \in 0 .. TTL
  BY <1>1 DEF SetKeys, Ebbs, Missing
<1>3. \A n \in 0 .. TTL : Older(n) \in 0 .. TTL /\ (n < TTL => Older(n) = n + 1) /\ (n = TTL => Older(n) = TTL)
  BY <1>1 DEF Older
<1>4. /\ sub' \in [Sessions -> SetKeys(ChannelNames)] /\ \A s \in Sessions : sub'[s] = Ebbs(sub[s])
      /\ age' \in [Sessions -> 0 .. TTL] /\ \A s \in Sessions : age'[s] = Older(age[s])
  BY <1>1, <1>2, <1>3 DEF Tick, SubInv
<1>5. /\ kept' \in [Sessions -> SUBSET ChannelNames]
      /\ \A s \in Sessions : kept'[s] = IF age'[s] = TTL THEN {} ELSE kept[s]
  BY <1>1 DEF Tick, SubInv
<1>6. SubInv'
  <2>1. ASSUME NEW s \in Sessions
        PROVE  /\ sub'[s].ttl = 0 <=> sub'[s].members = {}
               /\ sub'[s].ttl # 0 => sub'[s].ttl = TTL - age'[s]
               /\ age'[s] < TTL => sub'[s].members = kept'[s]
               /\ age'[s] = TTL => kept'[s] = {}
               /\ Cardinality(sub'[s].members) <= setup.max
    <3>1. /\ sub[s].ttl \in 0 .. TTL /\ age[s] \in 0 .. TTL
          /\ sub[s].ttl = 0 <=> sub[s].members = {}
          /\ sub[s].ttl # 0 => sub[s].ttl = TTL - age[s]
          /\ Cardinality(sub[s].members) <= setup.max
          /\ sub[s].members = kept[s]
      <4>1. sub[s] \in SetKeys(ChannelNames) /\ sub[s].members = kept[s]
        BY <1>1, KeptIsStored DEF SubInv
      <4> QED BY <4>1, <1>1, <1>2 DEF SubInv
    <3>2. /\ sub[s].ttl <= 1 => sub'[s].members = {} /\ sub'[s].ttl = 0
          /\ sub[s].ttl > 1 => sub'[s].members = sub[s].members /\ sub'[s].ttl = sub[s].ttl - 1
      BY <1>1, <1>2, <1>4 DEF SubInv
    <3>3. age[s] < TTL => age'[s] = age[s] + 1
      BY <1>3, <1>4, <3>1
    <3>4. age[s] = TTL => age'[s] = TTL
      BY <1>3, <1>4, <3>1
    <3>5. Cardinality({}) <= setup.max
      BY <1>1, FS_EmptySet, PresenceAssumption DEF SubInv
    <3>6. kept'[s] = IF age'[s] = TTL THEN {} ELSE kept[s]
      BY <1>5
    <3>7. CASE sub[s].ttl = 0
      <4>1. kept[s] = {} /\ kept'[s] = {} /\ sub'[s].members = {} /\ sub'[s].ttl = 0
        BY <3>1, <3>2, <3>6, <3>7
      <4> QED BY <4>1, <3>5
    <3>8. CASE sub[s].ttl = 1
      <4>1. age'[s] = TTL
        BY <1>1, <3>1, <3>3, <3>8
      <4>2. kept'[s] = {} /\ sub'[s].members = {} /\ sub'[s].ttl = 0
        BY <4>1, <3>2, <3>6, <3>8
      <4> QED BY <4>1, <4>2, <3>5, <1>1
    <3>9. CASE sub[s].ttl > 1
      <4>1. /\ age'[s] = age[s] + 1 /\ age'[s] # TTL
            /\ sub'[s].members = sub[s].members /\ sub'[s].ttl = sub[s].ttl - 1
        BY <1>1, <3>1, <3>2, <3>3, <3>9
      <4>2. /\ sub'[s].members = kept'[s] /\ sub[s].members # {}
            /\ sub'[s].ttl # 0 /\ sub'[s].ttl = TTL - age'[s]
        BY <4>1, <1>1, <3>1, <3>6, <3>9
      <4> QED BY <4>1, <4>2, <3>1
    <3> QED BY <1>1, <3>1, <3>7, <3>8, <3>9
  <2> QED BY <2>1, <1>1, <1>4, <1>5 DEF SubInv
<1>7. CounterInv'
  <2>1. \A ch \in ChannelNames : /\ counter[ch].n \in Nat /\ counter[ch].ttl \in 0 .. TTL
                                 /\ counter[ch].ttl = 0 <=> counter[ch].n = 0
    BY <1>1 DEF CounterInv, CountersExact
  <2>2. /\ counter' = [ch \in ChannelNames |->
            IF counter[ch].ttl <= 1 THEN [n |-> 0, ttl |-> 0] ELSE [counter[ch] EXCEPT !.ttl = counter[ch].ttl - 1]]
        /\ drifted' = drifted \cup {ch \in ChannelNames : counter[ch].ttl = 1}
                        \cup UNION {sub[s].members : s \in {z \in Sessions : sub[z].ttl = 1}}
    BY DEF Tick
  <2>3. \A ch \in ChannelNames :
          /\ counter'[ch] \in [n : Nat, ttl : 0 .. TTL]
          /\ counter'[ch].n = IF counter[ch].ttl <= 1 THEN 0 ELSE counter[ch].n
          /\ counter'[ch].ttl = IF counter[ch].ttl <= 1 THEN 0 ELSE counter[ch].ttl - 1
    BY <2>1, <2>2, <1>1 DEF CounterInv
  <2>4. counter' \in [ChannelNames -> [n : Nat, ttl : 0 .. TTL]]
    BY <2>2, <2>3
  <2>5. ASSUME NEW ch \in ChannelNames, ch \notin drifted'
        PROVE  counter'[ch].n = Cardinality(Holders(ch)')
    <3>1. /\ ch \notin drifted /\ counter[ch].ttl # 1
          /\ \A s \in Sessions : sub[s].ttl = 1 => ch \notin sub[s].members
      BY <2>2, <2>5
    <3>2. ASSUME NEW s \in Sessions PROVE ch \in sub'[s].members <=> ch \in sub[s].members
      <4>1. sub[s] \in SetKeys(ChannelNames) /\ (sub[s].ttl = 0 <=> sub[s].members = {})
        BY <1>1 DEF SubInv
      <4>2. /\ sub[s].ttl \in 0 .. TTL
            /\ sub[s].ttl <= 1 => sub'[s].members = {}
            /\ sub[s].ttl > 1 => sub'[s].members = sub[s].members
        BY <4>1, <1>2, <1>4
      <4> QED BY <4>1, <4>2, <3>1, <1>1
    <3>3. Holders(ch)' = Holders(ch)
      BY <3>2 DEF Holders
    <3>4. counter[ch].n = Cardinality(Holders(ch))
      BY <3>1, <1>1 DEF CounterInv, CountersExact
    <3> QED BY <3>1, <3>3, <3>4, <2>1, <2>3, <1>1
  <2>6. \A ch \in ChannelNames : counter'[ch].ttl = 0 <=> counter'[ch].n = 0
    BY <2>1, <2>3, <1>1
  <2> QED BY <2>4, <2>5, <2>6 DEF CounterInv, CountersExact
<1>8. PresentInv'
  <2>1. /\ present' \in [Replicas -> SetKeys(Conns)] /\ \A r \in Replicas : present'[r] = Ebbs(present[r])
        /\ silent' \in [Replicas -> 0 .. TTL] /\ \A r \in Replicas : silent'[r] = Older(silent[r])
        /\ phase' = phase
    BY <1>1, <1>2, <1>3 DEF Tick, PresentInv
  <2>2. ASSUME NEW r \in Replicas
        PROVE  /\ present'[r].ttl = 0 <=> present'[r].members = {}
               /\ present'[r].ttl # 0 => present'[r].ttl = TTL - silent'[r]
               /\ \A c \in present'[r].members : phase'[c] \notin Unadmitted
    <3>1. /\ present[r] \in SetKeys(Conns) /\ silent[r] \in 0 .. TTL
          /\ present[r].ttl = 0 <=> present[r].members = {}
          /\ present[r].ttl # 0 => present[r].ttl = TTL - silent[r]
          /\ \A c \in present[r].members : phase[c] \notin Unadmitted
      BY <1>1 DEF PresentInv
    <3>2. /\ present[r].ttl \in 0 .. TTL
          /\ present[r].ttl <= 1 => present'[r].members = {} /\ present'[r].ttl = 0
          /\ present[r].ttl > 1 => present'[r].members = present[r].members /\ present'[r].ttl = present[r].ttl - 1
      BY <3>1, <1>2, <2>1
    <3>3. silent[r] < TTL => silent'[r] = silent[r] + 1
      BY <1>3, <2>1, <3>1
    <3> QED BY <1>1, <2>1, <3>1, <3>2, <3>3
  <2> QED BY <2>1, <2>2, <1>1 DEF PresentInv
<1>9. SessInv'
  <2>1. ASSUME NEW s \in Sessions
        PROVE  (IF sess[s].ttl <= 1 THEN [by |-> Nobody, ttl |-> 0] ELSE [sess[s] EXCEPT !.ttl = sess[s].ttl - 1])
                  \in [by : Conns \cup {Nobody}, ttl : 0 .. TTL]
    BY <1>1 DEF SessInv
  <2> QED BY <2>1, <1>1 DEF Tick, SessInv
<1> QED BY <1>6, <1>7, <1>8, <1>9 DEF PresenceInv

-----------------------------------------------------------------------------
(* The steps of the hub *)

\* Steps that leave every key alone, and at most move a connection on.
LEMMA LostKeeps ==
    ASSUME PresenceInv, UNCHANGED <<setup, keyVars, kept, age, drifted, silent>>, phase' \in [Conns -> Phases],
           \A c \in Conns : phase'[c] \in Unadmitted => phase[c] \in Unadmitted
    PROVE  PresenceInv'
<1>1. UNCHANGED <<setup, sub, sess, counter, present, kept, age, drifted, silent>>
  BY DEF keyVars
<1>2. PresentInv'
  BY <1>1, PresentKept DEF PresenceInv
<1>3. SubInv' /\ CounterInv'
  BY <1>1, SessionsKept DEF PresenceInv
<1>4. SessInv'
  BY <1>1 DEF PresenceInv, SessInv
<1> QED BY <1>2, <1>3, <1>4 DEF PresenceInv

LEMMA HubKeeps ==
    ASSUME PresenceInv, UNCHANGED setup, NEW c \in Conns,
           \/ Registers(c) \/ Heartbeat(c) \/ Unregisters(c)
           \/ \E chans \in SUBSET ChannelNames : HubSubscribes(c, chans) \/ HubUnsubscribes(c, chans)
    PROVE  PresenceInv'
<1>1. /\ SubInv /\ CounterInv /\ PresentInv /\ SessInv
      /\ phase \in [Conns -> Phases]
      /\ SessionOf(c) \in Sessions
  BY LinkFacts DEF PresenceInv, PresentInv
<1>2. CASE Registers(c)
  <2>1. /\ phase[c] = "restored" /\ phase' = [phase EXCEPT ![c] = "up"]
        /\ Connected(c) \/ Lost
        /\ UNCHANGED drifted
    BY <1>2 DEF Registers
  <2>2. /\ phase' \in [Conns -> Phases] /\ phase'[c] \notin Unadmitted
        /\ \A d \in Conns : phase'[d] \in Unadmitted => phase[d] \in Unadmitted
    BY <1>1, <2>1 DEF Phases, Unadmitted
  <2>3. CASE Connected(c)
    BY <1>1, <2>1, <2>2, <2>3, WriteKeeps DEF Connected, PresenceInv
  <2>4. CASE Lost
    BY <2>1, <2>2, <2>4, LostKeeps DEF Lost
  <2> QED BY <2>1, <2>3, <2>4
<1>3. CASE Heartbeat(c)
  <2>1. /\ phase[c] = "up" /\ UNCHANGED <<phase, drifted>>
        /\ Touch(c) \/ Lost
    BY <1>3 DEF Heartbeat
  <2>2. /\ phase' \in [Conns -> Phases] /\ phase'[c] \notin Unadmitted
        /\ \A d \in Conns : phase'[d] \in Unadmitted => phase[d] \in Unadmitted
    BY <1>1, <2>1 DEF Phases, Unadmitted
  <2>3. CASE Touch(c)
    <3>1. PICK by \in Conns \cup {Nobody} : by = sess[SessionOf(c)].by
      BY <1>1 DEF SessInv
    <3>2. Writes(c, by)
      BY <2>3, <3>1 DEF Touch
    <3> QED BY <1>1, <2>1, <2>2, <3>2, WriteKeeps DEF PresenceInv
  <2>4. CASE Lost
    BY <2>1, <2>2, <2>4, LostKeeps DEF Lost
  <2> QED BY <2>1, <2>3, <2>4
<1>4. CASE Unregisters(c)
  <2>1. /\ phase[c] = "up" /\ phase' = [phase EXCEPT ![c] = "gone"]
        /\ Disconnected(c) \/ Lost
        /\ UNCHANGED drifted
    BY <1>4 DEF Unregisters
  <2>2. /\ phase' \in [Conns -> Phases]
        /\ \A d \in Conns : phase'[d] \in Unadmitted => phase[d] \in Unadmitted
    BY <1>1, <2>1 DEF Phases, Unadmitted
  <2>3. CASE Disconnected(c)
    <3>1. Leaves(c) /\ UNCHANGED <<setup, sub, sess, counter, kept, age, drifted>>
      BY <2>1, <2>3 DEF Disconnected
    <3>2. PresentInv'
      BY <1>1, <2>2, <3>1, LeaveKeeps
    <3>3. SubInv' /\ CounterInv'
      BY <1>1, <3>1, SessionsKept
    <3> QED BY <1>1, <3>1, <3>2, <3>3 DEF PresenceInv, SessInv
  <2>4. CASE Lost
    BY <2>1, <2>2, <2>4, LostKeeps DEF Lost
  <2> QED BY <2>1, <2>3, <2>4
<1>5. ASSUME NEW chans \in SUBSET ChannelNames, HubSubscribes(c, chans) PROVE PresenceInv'
  <2>1. /\ chans # {} /\ UNCHANGED <<phase, drifted>>
        /\ (SubscribeScript(c, chans) /\ UNCHANGED silent) \/ Lost
    BY <1>5 DEF HubSubscribes
  <2>2. phase' \in [Conns -> Phases] /\ \A d \in Conns : phase'[d] \in Unadmitted => phase[d] \in Unadmitted
    BY <1>1, <2>1
  <2>3. CASE SubscribeScript(c, chans) /\ UNCHANGED silent
    <3>1. SubInv' /\ CounterInv' /\ SessInv' /\ UNCHANGED present
      BY <1>1, <2>1, <2>3, SubscribeKeeps
    <3>2. PresentInv'
      BY <1>1, <2>2, <2>3, <3>1, PresentKept
    <3> QED BY <3>1, <3>2 DEF PresenceInv
  <2>4. CASE Lost
    BY <2>1, <2>2, <2>4, LostKeeps DEF Lost
  <2> QED BY <2>1, <2>3, <2>4
<1>6. ASSUME NEW chans \in SUBSET ChannelNames, HubUnsubscribes(c, chans) PROVE PresenceInv'
  <2>1. /\ UNCHANGED <<phase, drifted>>
        /\ (UnsubscribeScript(SessionOf(c), chans) /\ UNCHANGED silent) \/ Lost
    BY <1>6 DEF HubUnsubscribes
  <2>2. phase' \in [Conns -> Phases] /\ \A d \in Conns : phase'[d] \in Unadmitted => phase[d] \in Unadmitted
    BY <1>1, <2>1
  <2>3. CASE UnsubscribeScript(SessionOf(c), chans) /\ UNCHANGED silent
    <3>1. SubInv' /\ CounterInv' /\ SessInv' /\ UNCHANGED present
      BY <1>1, <2>1, <2>3, UnsubscribeKeeps
    <3>2. PresentInv'
      BY <1>1, <2>2, <2>3, <3>1, PresentKept
    <3> QED BY <3>1, <3>2 DEF PresenceInv
  <2>4. CASE Lost
    BY <2>1, <2>2, <2>4, LostKeeps DEF Lost
  <2> QED BY <2>1, <2>3, <2>4
<1> QED BY <1>2, <1>3, <1>4, <1>5, <1>6

LEMMA ForgetKeeps ==
    ASSUME PresenceInv, UNCHANGED setup, NEW c \in Conns,
           ForgetReads(c) \/ ForgetRemoves(c) \/ ForgetEnds(c) \/ ForgetFails(c)
    PROVE  PresenceInv'
<1>1. /\ SubInv /\ CounterInv /\ PresentInv /\ SessInv
      /\ phase \in [Conns -> Phases]
      /\ SessionOf(c) \in Sessions
      /\ TTL \in Nat
  BY LinkFacts, KeyFacts DEF PresenceInv, PresentInv
<1>2. CASE ForgetReads(c) \/ ForgetFails(c)
  <2>1. /\ UNCHANGED <<keyVars, kept, age, drifted, silent>>
        /\ \E next \in {"leaving", "gone"} : phase' = [phase EXCEPT ![c] = next]
    BY <1>2 DEF ForgetReads, ForgetFails
  <2>2. phase' \in [Conns -> Phases] /\ \A d \in Conns : phase'[d] \in Unadmitted => phase[d] \in Unadmitted
    BY <1>1, <2>1 DEF Phases, Unadmitted
  <2> QED BY <2>1, <2>2, LostKeeps
<1>3. CASE ForgetRemoves(c)
  <2>1. PICK chunk \in SUBSET removing[c] : UnsubscribeScript(SessionOf(c), chunk)
    BY <1>3 DEF ForgetRemoves
  <2>2. UNCHANGED <<phase, drifted, silent>>
    BY <1>3 DEF ForgetRemoves
  <2>3. SubInv' /\ CounterInv' /\ SessInv' /\ UNCHANGED present
    BY <1>1, <2>1, <2>2, UnsubscribeKeeps
  <2>4. PresentInv'
    BY <1>1, <2>2, <2>3, PresentKept
  <2> QED BY <2>3, <2>4 DEF PresenceInv
<1>4. CASE ForgetEnds(c)
  <2>1. /\ phase' = [phase EXCEPT ![c] = "gone"]
        /\ sess' = [sess EXCEPT ![SessionOf(c)] = [by |-> Nobody, ttl |-> 0]]
        /\ Leaves(c)
        /\ UNCHANGED <<sub, counter, kept, age, drifted>>
    BY <1>4 DEF ForgetEnds
  <2>2. phase' \in [Conns -> Phases] /\ \A d \in Conns : phase'[d] \in Unadmitted => phase[d] \in Unadmitted
    BY <1>1, <2>1 DEF Phases, Unadmitted
  <2>3. PresentInv'
    BY <1>1, <2>1, <2>2, LeaveKeeps
  <2>4. SubInv' /\ CounterInv'
    BY <1>1, <2>1, SessionsKept
  <2>5. SessInv'
    BY <1>1, <2>1 DEF SessInv
  <2> QED BY <2>3, <2>4, <2>5 DEF PresenceInv
<1> QED BY <1>2, <1>3, <1>4

LEMMA PresenceStepKeeps == PresenceInv /\ [PresenceNext]_presenceVars => PresenceInv'
<1> SUFFICES ASSUME PresenceInv, [PresenceNext]_presenceVars PROVE PresenceInv'
  OBVIOUS
<1>1. phase \in [Conns -> Phases]
  BY DEF PresenceInv, PresentInv
<1>2. CASE UNCHANGED presenceVars
  BY <1>1, <1>2, LostKeeps DEF presenceVars, keyVars
<1>3. CASE PresenceNext
  <2>1. UNCHANGED setup
    BY <1>3 DEF PresenceNext
  <2>2. ASSUME NEW c \in Conns, Restores(c) PROVE PresenceInv'
    <3>1. phase[c] = "new" /\ phase' = [phase EXCEPT ![c] = "restored"] /\ UNCHANGED <<keyVars, kept, age, drifted, silent>>
      BY <2>2 DEF Restores
    <3>2. phase' \in [Conns -> Phases] /\ \A d \in Conns : phase'[d] \in Unadmitted => phase[d] \in Unadmitted
      BY <1>1, <3>1 DEF Phases, Unadmitted
    <3> QED BY <2>1, <3>1, <3>2, LostKeeps
  <2>3. ASSUME NEW r \in Replicas, Dies(r) PROVE PresenceInv'
    <3>1. /\ phase' = [c \in Conns |-> IF ReplicaOf(c) = r /\ phase[c] # "new" THEN "gone" ELSE phase[c]]
          /\ UNCHANGED <<keyVars, kept, age, drifted, silent>>
      BY <2>3 DEF Dies
    <3>2. phase' \in [Conns -> Phases] /\ \A d \in Conns : phase'[d] \in Unadmitted => phase[d] \in Unadmitted
      BY <1>1, <3>1 DEF Phases, Unadmitted
    <3> QED BY <2>1, <3>1, <3>2, LostKeeps
  <2>4. CASE Tick
    BY <2>1, <2>4, TickKeeps
  <2>5. CASE \E c \in Conns : \/ Registers(c) \/ Heartbeat(c) \/ Unregisters(c)
                              \/ \E chans \in SUBSET ChannelNames : HubSubscribes(c, chans) \/ HubUnsubscribes(c, chans)
    BY <2>1, <2>5, HubKeeps
  <2>6. CASE \E c \in Conns : ForgetReads(c) \/ ForgetRemoves(c) \/ ForgetEnds(c) \/ ForgetFails(c)
    BY <2>1, <2>6, ForgetKeeps
  <2> QED BY <1>3, <2>2, <2>3, <2>4, <2>5, <2>6 DEF PresenceNext, PresenceStep
<1> QED BY <1>2, <1>3

LEMMA PresenceHolds == PresenceInv => PresenceCorrect
<1> SUFFICES ASSUME PresenceInv PROVE PresenceCorrect
  OBVIOUS
<1>1. SubInv /\ CounterInv /\ PresentInv /\ SessInv /\ TTL \in Nat
  BY KeyFacts DEF PresenceInv
<1>2. PresenceTypeOK
  BY <1>1 DEF PresenceTypeOK, SubInv, CounterInv, PresentInv, SessInv, SetKeys
<1>3. CapHolds /\ CountersExact
  BY <1>1 DEF CapHolds, SubInv, CounterInv
<1>4. \A names : \A k \in SetKeys(names) : k.ttl = 0 /\ k.members = {} => k = Missing
  BY DEF SetKeys, Missing
<1>5. ResumeWindow
  <2> SUFFICES ASSUME NEW s \in Sessions
               PROVE  /\ age[s] < TTL => sub[s].members = kept[s]
                      /\ age[s] = TTL => sub[s] = Missing
    BY DEF ResumeWindow
  <2>1. age[s] < TTL => sub[s].members = kept[s]
    BY <1>1 DEF SubInv
  <2>2. ASSUME age[s] = TTL PROVE sub[s] = Missing
    <3>1. sub[s].ttl = 0
      BY <1>1, <2>2 DEF SubInv
    <3>2. sub[s].members = {} /\ sub[s] \in SetKeys(ChannelNames)
      BY <1>1, <3>1 DEF SubInv
    <3> QED BY <3>1, <3>2, <1>4
  <2> QED BY <2>1, <2>2
<1>6. NothingLeftBehind
  <2>1. ASSUME NEW r \in Replicas, silent[r] = TTL PROVE present[r] = Missing
    <3>1. present[r].ttl = 0
      BY <1>1, <2>1 DEF PresentInv
    <3>2. present[r].members = {} /\ present[r] \in SetKeys(Conns)
      BY <1>1, <3>1 DEF PresentInv
    <3> QED BY <3>1, <3>2, <1>4
  <2>2. ASSUME NEW c \in Conns, phase[c] \in {"new", "restored"}, NEW r \in Replicas
        PROVE  c \notin present[r].members
    BY <1>1, <2>2 DEF PresentInv, Unadmitted
  <2> QED BY <2>1, <2>2 DEF NothingLeftBehind
<1> QED BY <1>2, <1>3, <1>5, <1>6 DEF PresenceCorrect

(* Whatever calls are lost, repeated or refused, and whichever replicas die: *)
(* a session never holds more than its cap, a reconnect within a TTL of the  *)
(* last call that reached Redis finds exactly the channels the calls left    *)
(* and later finds none, a counter that no key expired under is the number   *)
(* of sessions that hold its channel, and a dead replica's list runs out     *)
(* (Store's scripts and transactions, internal/wsgw/redispresence).          *)
THEOREM PresenceExact == PresenceSpec => []PresenceCorrect
<1>1. PresenceInit => PresenceInv
  BY PresenceInitial
<1>2. PresenceInv /\ [PresenceNext]_presenceVars => PresenceInv'
  BY PresenceStepKeeps
<1>3. PresenceInv => PresenceCorrect
  BY PresenceHolds
<1> QED BY <1>1, <1>2, <1>3, PTL DEF PresenceSpec

----------------------------------------------------------------------------
(* Tickets *)

\* What a copy of a ticket says of itself, whoever made it and by whatever methods.
Consistent(w) ==
    /\ w \in TicketType
    /\ ReturnStorable(w)
    /\ w.at > 0
    /\ \A l \in slip.legs : (w.grade[l] # "pending") = (w.gradedAt[l] # 0)

\* A copy comes from the row by steps the schema allows, but for the amount of a closed ticket.
Descends(old, new) ==
    /\ CanTransitionTo(old.status, new.status)
    /\ new.at >= old.at
    /\ LegsMove(old, new)

CopiesInv ==
    /\ slip \in Slips
    /\ held \in [Hands -> TicketType \cup {NoTicket}]
    /\ overtaken \subseteq {h \in Hands : held[h] # NoTicket}
    /\ row # NoTicket => /\ Consistent(row) /\ Placeable(slip)
    /\ \A h \in Hands : held[h] # NoTicket =>
          /\ row # NoTicket /\ Consistent(held[h])
          /\ h \in overtaken \/ Descends(row, held[h])

\* The ledger, transaction by transaction.
Entered(n) ==
    /\ posted[n].moves \in [Accounts -> Int]
    /\ Sum(posted[n].moves) = 0
    /\ posted[n].kind \in {"stake", "grant", "adjustment", "payout", "loss", "refund", "cash_out"}
    /\ posted[n].kind = "stake" => posted[n].moves["escrow"] = slip.stake /\ posted[n].moves["issuance"] = 0
    /\ posted[n].kind = "grant" => posted[n].moves["escrow"] = 0 /\ posted[n].moves["issuance"] <= 0
    /\ n \in Settlements => posted[n].moves["issuance"] = 0

\* The stake is entered with the ticket, and the escrow counts settlements.
EscrowInv ==
    Kinds({"adjustment"}) = {} =>
        /\ Balance("escrow") = (IF row = NoTicket THEN 0 ELSE slip.stake * (1 - Cardinality(Settlements)))
        /\ Balance("issuance") <= 0

LedgerInv ==
    /\ \E n \in 0 .. MaxPosts : DOMAIN posted = 1 .. n
    /\ \A n \in DOMAIN posted : Entered(n)
    /\ Settlements # {} => row # NoTicket
    /\ SettlementsAgree
    /\ \A a \in Accounts : Balance(a) \in Int
    /\ Balance("cash") + Balance("escrow") + Balance("house") + Balance("issuance") = 0
    /\ EscrowInv

TicketsInv == CopiesInv /\ LedgerInv

----------------------------------------------------------------------------
(* Balances: sums over the ledger *)

\* The running total of an account.
Runs(f, ledger, a, N) == f = [n \in 0 .. N |-> IF n = 0 THEN 0 ELSE f[n - 1] + ledger[n].moves[a]]
Whole(ledger, a, N) == N \in Nat /\ \A n \in 1 .. N : ledger[n].moves[a] \in Int

LEMMA RunFacts ==
    ASSUME NEW f, NEW ledger, NEW a, NEW N, Whole(ledger, a, N), Runs(f, ledger, a, N)
    PROVE  /\ f[0] = 0
           /\ \A n \in 1 .. N : f[n] = f[n - 1] + ledger[n].moves[a]
           /\ \A n \in 0 .. N : f[n] \in Int
<1>1. N \in Nat
  BY DEF Whole
<1>2. f[0] = 0 /\ \A n \in 1 .. N : f[n] = f[n - 1] + ledger[n].moves[a]
  BY <1>1 DEF Runs
<1> DEFINE Wrong == {n \in Nat : n \in 0 .. N /\ f[n] \notin Int}
<1>3. ASSUME Wrong # {} PROVE FALSE
  <2>1. PICK n \in Wrong : \A m \in Wrong : n <= m
    <3> HIDE DEF Wrong
    <3> SUFFICES Wrong \subseteq Nat
      BY <1>3, Smallest
    <3> QED BY DEF Wrong
  <2>2. n # 0 /\ n - 1 \in 0 .. N /\ n - 1 \notin Wrong /\ n \in 1 .. N
    <3>1. n \in Nat /\ n \in 0 .. N /\ f[n] \notin Int
      OBVIOUS
    <3>2. n # 0
      BY <3>1, <1>2
    <3>3. n - 1 \in Nat /\ ~(n <= n - 1)
      BY <3>1, <3>2
    <3>4. n - 1 \notin Wrong
      <4> HIDE DEF Wrong
      <4> QED BY <2>1, <3>3
    <3> QED BY <3>1, <3>2, <3>4, <1>1
  <2>3. f[n - 1] \in Int
    BY <2>2
  <2>4. f[n] \in Int
    BY <2>2, <2>3, <1>2 DEF Whole
  <2> QED BY <2>4
<1>4. \A n \in 0 .. N : n \in Nat
  BY <1>1
<1> QED BY <1>2, <1>3, <1>4

LEMMA RunExists ==
    ASSUME NEW ledger, NEW a, NEW N, Whole(ledger, a, N)
    PROVE  \E f : Runs(f, ledger, a, N)
<1>1. N \in Nat
  BY DEF Whole
<1> DEFINE Lacking == {n \in Nat : n \in 0 .. N /\ ~ \E f : Runs(f, ledger, a, n)}
<1>2. ASSUME Lacking # {} PROVE FALSE
  <2>1. PICK n \in Lacking : \A m \in Lacking : n <= m
    <3> HIDE DEF Lacking
    <3> SUFFICES Lacking \subseteq Nat
      BY <1>2, Smallest
    <3> QED BY DEF Lacking
  <2>2. n \in Nat /\ n \in 0 .. N /\ ~ \E f : Runs(f, ledger, a, n)
    OBVIOUS
  <2>3. n # 0
    <3>1. SUFFICES ASSUME n = 0 PROVE FALSE
      OBVIOUS
    <3> DEFINE f == [m \in 0 .. n |-> 0]
    <3>2. f = [m \in 0 .. n |-> IF m = 0 THEN 0 ELSE f[m - 1] + ledger[m].moves[a]]
      BY <3>1
    <3>3. Runs(f, ledger, a, n)
      BY <3>2 DEF Runs
    <3> QED BY <3>3, <2>2
  <2>4. n - 1 \in Nat /\ n - 1 \in 0 .. N /\ ~(n <= n - 1)
    BY <2>2, <2>3, <1>1
  <2>5. n - 1 \notin Lacking
    <3> HIDE DEF Lacking
    <3> QED BY <2>1, <2>4
  <2>6. PICK f : Runs(f, ledger, a, n - 1)
    BY <2>4, <2>5
  <2>7. \A m \in 0 .. (n - 1) : f[m] = IF m = 0 THEN 0 ELSE f[m - 1] + ledger[m].moves[a]
    BY <2>6 DEF Runs
  <2> DEFINE g == [m \in 0 .. n |-> IF m = n THEN f[n - 1] + ledger[n].moves[a] ELSE f[m]]
  <2>8. \A m \in 0 .. n : g[m] = IF m = 0 THEN 0 ELSE g[m - 1] + ledger[m].moves[a]
    <3> SUFFICES ASSUME NEW m \in 0 .. n PROVE g[m] = IF m = 0 THEN 0 ELSE g[m - 1] + ledger[m].moves[a]
      OBVIOUS
    <3>1. CASE m = n
      <4>1. n - 1 \in 0 .. n /\ n - 1 # n /\ m # 0
        BY <2>2, <2>3, <3>1
      <4>2. g[n - 1] = f[n - 1]
        BY <4>1
      <4> QED BY <4>1, <4>2, <3>1
    <3>2. CASE m # n
      <4>1. m \in 0 .. (n - 1)
        BY <2>2, <3>2
      <4>2. CASE m = 0
        BY <4>1, <4>2, <2>7, <3>2
      <4>3. CASE m # 0
        <5>1. m - 1 \in 0 .. n /\ m - 1 # n
          BY <4>1, <4>3, <2>2
        <5>2. g[m - 1] = f[m - 1] /\ g[m] = f[m]
          BY <5>1, <3>2
        <5> QED BY <5>2, <4>1, <4>3, <2>7
      <4> QED BY <4>2, <4>3
    <3> QED BY <3>1, <3>2
  <2>9. g = [m \in 0 .. n |-> g[m]]
    OBVIOUS
  <2> HIDE DEF g
  <2>10. g = [m \in 0 .. n |-> IF m = 0 THEN 0 ELSE g[m - 1] + ledger[m].moves[a]]
    BY <2>8, <2>9
  <2> QED BY <2>10, <2>2 DEF Runs
<1>3. N \in Nat /\ N \in 0 .. N
  BY <1>1
<1> QED BY <1>2, <1>3

LEMMA RunsAgree ==
    ASSUME NEW f, NEW g, NEW ledger, NEW longer, NEW a, NEW N, NEW M,
           Whole(ledger, a, N), Whole(longer, a, M), N <= M,
           \A n \in 1 .. N : longer[n] = ledger[n],
           Runs(f, ledger, a, N), Runs(g, longer, a, M)
    PROVE  f[N] = g[N]
<1>1. N \in Nat /\ M \in Nat
  BY DEF Whole
<1> DEFINE Differ == {n \in Nat : n \in 0 .. N /\ f[n] # g[n]}
<1>2. f[0] = 0 /\ \A n \in 1 .. N : f[n] = f[n - 1] + ledger[n].moves[a]
  BY RunFacts
<1>3. g[0] = 0 /\ \A n \in 1 .. M : g[n] = g[n - 1] + longer[n].moves[a]
  BY RunFacts
<1>4. ASSUME Differ # {} PROVE FALSE
  <2>1. PICK n \in Differ : \A m \in Differ : n <= m
    <3> HIDE DEF Differ
    <3> SUFFICES Differ \subseteq Nat
      BY <1>4, Smallest
    <3> QED BY DEF Differ
  <2>2. n \in Nat /\ n \in 0 .. N /\ f[n] # g[n]
    OBVIOUS
  <2>3. n # 0
    BY <2>2, <1>2, <1>3
  <2>4. n - 1 \in Nat /\ n - 1 \in 0 .. N /\ n \in 1 .. N /\ n \in 1 .. M /\ ~(n <= n - 1)
    BY <2>2, <2>3, <1>1
  <2>5. n - 1 \notin Differ
    <3> HIDE DEF Differ
    <3> QED BY <2>1, <2>4
  <2>6. f[n - 1] = g[n - 1]
    BY <2>4, <2>5
  <2> QED BY <2>2, <2>4, <2>6, <1>2, <1>3
<1>5. N \in Nat /\ N \in 0 .. N
  BY <1>1
<1> QED BY <1>4, <1>5

\* A balance is the last of its running totals.
LEMMA BalanceRuns ==
    ASSUME NEW ledger, NEW a, NEW N, Whole(ledger, a, N), DOMAIN ledger = 1 .. N
    PROVE  \E f : Runs(f, ledger, a, N) /\ BalanceOf(ledger, a) = f[N]
<1>1. N \in Nat
  BY DEF Whole
<1>2. Cardinality(DOMAIN ledger) = N
  <2>1. 1 \in Int /\ N \in Int
    BY <1>1
  <2> QED BY <1>1, <2>1, FS_Interval
<1> DEFINE F == CHOOSE f : f = [n \in 0 .. N |-> IF n = 0 THEN 0 ELSE f[n - 1] + ledger[n].moves[a]]
<1>3. Runs(F, ledger, a, N)
  <2>1. \E f : f = [n \in 0 .. N |-> IF n = 0 THEN 0 ELSE f[n - 1] + ledger[n].moves[a]]
    <3>1. \E f : Runs(f, ledger, a, N)
      BY RunExists
    <3> QED BY <3>1 DEF Runs
  <2>2. F = [n \in 0 .. N |-> IF n = 0 THEN 0 ELSE F[n - 1] + ledger[n].moves[a]]
    BY <2>1, Zenon
  <2> QED BY <2>2 DEF Runs
<1>4. BalanceOf(ledger, a) = F[N]
  BY <1>2 DEF BalanceOf
<1> QED BY <1>3, <1>4

\* The empty ledger balances to zero.
LEMMA BalanceEmpty ==
    ASSUME NEW ledger, NEW a, DOMAIN ledger = 1 .. 0
    PROVE  BalanceOf(ledger, a) = 0
<1>1. Whole(ledger, a, 0)
  BY DEF Whole
<1>2. PICK f : Runs(f, ledger, a, 0) /\ BalanceOf(ledger, a) = f[0]
  BY <1>1, BalanceRuns
<1> QED BY <1>1, <1>2, RunFacts

\* A ledger with one entry more.
Lengthens(longer, ledger, a, N) ==
    /\ Whole(longer, a, N + 1) /\ N \in Nat
    /\ DOMAIN ledger = 1 .. N /\ DOMAIN longer = 1 .. (N + 1)
    /\ \A n \in 1 .. N : longer[n] = ledger[n]

\* One more transaction adds what it moves.
LEMMA BalanceExtends ==
    ASSUME NEW ledger, NEW longer, NEW a, NEW N, Lengthens(longer, ledger, a, N)
    PROVE  /\ BalanceOf(longer, a) = BalanceOf(ledger, a) + longer[N + 1].moves[a]
           /\ BalanceOf(longer, a) \in Int /\ BalanceOf(ledger, a) \in Int
<1>0. /\ Whole(longer, a, N + 1) /\ N \in Nat
      /\ DOMAIN ledger = 1 .. N /\ DOMAIN longer = 1 .. (N + 1)
      /\ \A n \in 1 .. N : longer[n] = ledger[n]
  BY DEF Lengthens
<1>1. Whole(ledger, a, N)
  BY <1>0 DEF Whole
<1>2. PICK f : Runs(f, ledger, a, N) /\ BalanceOf(ledger, a) = f[N]
  BY <1>0, <1>1, BalanceRuns
<1>3. N + 1 \in Nat
  BY <1>0
<1>4. PICK g : Runs(g, longer, a, N + 1) /\ BalanceOf(longer, a) = g[N + 1]
  BY <1>0, <1>3, BalanceRuns
<1>5. N <= N + 1
  BY <1>0
<1>6. f[N] = g[N]
  BY <1>0, <1>1, <1>2, <1>3, <1>4, <1>5, RunsAgree
<1>7. g[N + 1] = g[(N + 1) - 1] + longer[N + 1].moves[a] /\ g[N + 1] \in Int /\ g[N] \in Int
  <2>1. N + 1 \in 1 .. (N + 1) /\ N + 1 \in 0 .. (N + 1) /\ N \in 0 .. (N + 1)
    BY <1>0
  <2> QED BY <2>1, <1>0, <1>3, <1>4, RunFacts
<1>8. (N + 1) - 1 = N
  BY <1>0
<1> QED BY <1>2, <1>4, <1>6, <1>7, <1>8

\* Sums, differences and negations of machine words are exact or refused, whatever
\* the width of the word and the safe range below it: the sign tests of Money.Add and
\* Money.Sub miss no wrap.
THEOREM SumsAreExact == \A m, o \in Words : SumsExact(m, o)
<1> SUFFICES ASSUME NEW m \in Words, NEW o \in Words PROVE SumsExact(m, o)
  OBVIOUS
<1>1. Half \in Int /\ MaxSafe \in Int /\ 0 <= MaxSafe /\ MaxSafe < Half /\ Overflow \notin Int
  BY MoneyAssumption
<1>2. m \in Int /\ o \in Int /\ -Half <= m /\ m < Half /\ -Half <= o /\ o < Half
  BY <1>1 DEF Words
<1>3. Add(m, o) = Exactly(m + o)
  BY <1>1, <1>2 DEF Add, Exactly, Wrap, Safe, Negative
<1>4. Sub(m, o) = Exactly(m - o)
  BY <1>1, <1>2 DEF Sub, Exactly, Wrap, Safe, Negative
<1>5. Neg(m) = Exactly(-m)
  BY <1>1, <1>2 DEF Neg, Exactly, Safe
<1> QED BY <1>3, <1>4, <1>5 DEF SumsExact

LEMMA SafeSums ==
    ASSUME NEW m \in 0 .. MaxSafe, NEW o \in 0 .. MaxSafe
    PROVE  Sub(m, o) = m - o /\ Neg(m) = -m
<1>1. Half \in Int /\ MaxSafe \in Int /\ 0 <= MaxSafe /\ MaxSafe < Half
  BY MoneyAssumption
<1>2. m \in Words /\ o \in Words
  BY <1>1 DEF Words
<1>3. SumsExact(m, o)
  BY <1>2, SumsAreExact
<1>4. Safe(m - o) /\ Safe(-m)
  BY <1>1 DEF Safe
<1> QED BY <1>3, <1>4 DEF SumsExact, Exactly

\* A quotient and its remainder, whatever the divisor.
LEMMA Divided ==
    ASSUME NEW a \in Nat, NEW d \in Nat \ {0}
    PROVE  \E w \in Nat, s \in 0 .. d - 1 : w = a \div d /\ s = a % d /\ a = d * w + s
<1>1. a \div d \in Int /\ a % d \in 0 .. d - 1
  BY SMT
<1>2. PICK w \in Int, s \in 0 .. d - 1 : w = a \div d /\ s = a % d
  BY <1>1
<1>3. d * w \in Int /\ s = a - d * w /\ d * w <= a
  BY <1>2, SMT
<1>4. w < 0 => d * w <= -d
  <2> SUFFICES ASSUME w < 0 PROVE d * w <= -d
    OBVIOUS
  <2>1. PICK x \in Nat : w = -1 - x
    BY SMT
  <2>2. d * w = -d - d * x /\ d * x >= 0 /\ d * x \in Int
    BY <2>1
  <2> QED BY <2>2
<1>5. w \in Nat /\ a = d * w + s
  BY <1>3, <1>4
<1> QED BY <1>2, <1>5

\* A larger factor does not make a product smaller.
LEMMA Grows ==
    ASSUME NEW a \in Nat, NEW b \in Nat, a <= b, NEW j \in Nat
    PROVE  a * j <= b * j
<1>1. PICK x \in Nat : b = a + x
  BY SMT
<1>2. b * j = a * j + x * j /\ x * j >= 0
  BY <1>1
<1>3. a * j \in Int /\ x * j \in Int
  OBVIOUS
<1> QED BY <1>2, <1>3

\* The test of Money.MulInt: a product fits below top if one factor is at most top
\* divided by the other.
LEMMA Fits ==
    ASSUME NEW n \in Nat, NEW j \in Nat \ {0}, NEW top \in Nat
    PROVE  n * j <= top <=> n <= top \div j
<1> DEFINE q == top \div j
<1>1. q \in Nat /\ j * q <= top /\ top < j * q + j
  <2>1. PICK w \in Nat, s \in 0 .. j - 1 : w = q /\ top = j * w + s
    BY Divided
  <2> HIDE DEF q
  <2>2. j * w \in Int
    OBVIOUS
  <2>3. j * w <= top /\ top < j * w + j
    BY <2>1, <2>2
  <2> QED BY <2>1, <2>3
<1> HIDE DEF q
<1>2. CASE n <= q
  <2>1. n * j <= q * j
    BY <1>1, <1>2, Grows
  <2>2. q * j = j * q /\ q * j \in Int /\ n * j \in Int
    BY <1>1
  <2> QED BY <1>1, <1>2, <2>1, <2>2 DEF q
<1>3. CASE n > q
  <2>1. q + 1 \in Nat /\ q + 1 <= n
    BY <1>1, <1>3
  <2>2. (q + 1) * j <= n * j
    BY <2>1, Grows
  <2>3. (q + 1) * j = j * q + j /\ j * q \in Int /\ n * j \in Int
    BY <1>1
  <2>4. ~(n * j <= top)
    BY <1>1, <2>2, <2>3
  <2> QED BY <1>3, <2>4, <1>1 DEF q
<1> QED BY <1>1, <1>2, <1>3

\* An integer is its magnitude with its sign.
LEMMA Magnitudes ==
    ASSUME NEW m \in Int
    PROVE  /\ Magnitude(m) \in Nat /\ Magnitude(-m) = Magnitude(m)
           /\ m = IF Negative(m) THEN -Magnitude(m) ELSE Magnitude(m)
           /\ m # 0 => Magnitude(m) \in Nat \ {0} /\ (Negative(-m) <=> ~Negative(m))
BY DEF Magnitude, Negative

\* The magnitude of a product is that of its factors' magnitudes.
LEMMA Signs ==
    ASSUME NEW m \in Int, NEW k \in Int
    PROVE  /\ Magnitude(m) * Magnitude(k) \in Nat
           /\ m * k = IF Negative(m) # Negative(k) THEN -(Magnitude(m) * Magnitude(k))
                      ELSE Magnitude(m) * Magnitude(k)
           /\ Magnitude(m * k) = Magnitude(m) * Magnitude(k)
<1>1. PICK a \in Nat, b \in Nat : a = Magnitude(m) /\ b = Magnitude(k)
  BY Magnitudes
<1>2. /\ m = IF Negative(m) THEN -a ELSE a
      /\ k = IF Negative(k) THEN -b ELSE b
  BY <1>1, Magnitudes
<1>3. a * b \in Nat /\ (-a) * b = -(a * b) /\ a * (-b) = -(a * b) /\ (-a) * (-b) = a * b
  OBVIOUS
<1>4. m * k = IF Negative(m) # Negative(k) THEN -(a * b) ELSE a * b
  BY <1>2, <1>3 DEF Negative
<1>5. \A x \in Nat : Magnitude(x) = x /\ Magnitude(-x) = x
  BY DEF Magnitude, Negative
<1>6. Magnitude(m * k) = a * b
  BY <1>3, <1>4, <1>5
<1> QED BY <1>1, <1>3, <1>4, <1>6

\* The range is symmetric.
LEMMA SafeMagnitude == ASSUME NEW m \in Int PROVE Safe(m) <=> Magnitude(m) <= MaxSafe
BY MoneyAssumption DEF Safe, Magnitude, Negative

\* Money.MulInt is exact or refused.
LEMMA ProductExact ==
    ASSUME NEW m \in Int, NEW k \in Int, Safe(m)
    PROVE  MulInt(m, k) = Exactly(m * k)
<1>1. CASE m = 0 \/ k = 0
  <2>1. m * k = 0
    BY <1>1
  <2> QED BY <1>1, <2>1, MoneyAssumption DEF MulInt, Exactly, Safe
<1>2. CASE m # 0 /\ k # 0
  <2>1. Magnitude(m) \in Nat /\ Magnitude(k) \in Nat \ {0} /\ MaxSafe \in Nat
    BY <1>2, Magnitudes, MoneyAssumption
  <2>2. Magnitude(m) > MaxSafe \div Magnitude(k) <=> ~(Magnitude(m) * Magnitude(k) <= MaxSafe)
    <3>1. MaxSafe \div Magnitude(k) \in Nat
      BY <2>1, Divided
    <3>2. Magnitude(m) * Magnitude(k) <= MaxSafe <=> Magnitude(m) <= MaxSafe \div Magnitude(k)
      BY <2>1, Fits
    <3> QED BY <2>1, <3>1, <3>2
  <2>3. m * k \in Int /\ (Safe(m * k) <=> Magnitude(m) * Magnitude(k) <= MaxSafe)
    <3>1. m * k \in Int
      OBVIOUS
    <3>2. Safe(m * k) <=> Magnitude(m * k) <= MaxSafe
      BY <3>1, SafeMagnitude
    <3> QED BY <3>1, <3>2, Signs
  <2> QED BY <1>2, <2>2, <2>3, Signs DEF MulInt, Exactly
<1> QED BY <1>1, <1>2

\* Money.DivMod loses nothing.
LEMMA DivisionExact ==
    ASSUME NEW m \in Int, NEW k \in Int, k # 0, Safe(m)
    PROVE  LET d == DivMod(m, k) IN
           /\ d.quotient * k + d.remainder = m
           /\ Magnitude(d.remainder) < Magnitude(k)
           /\ d.remainder # 0 => Negative(d.remainder) = Negative(m)
<1>1. CASE k = -1
  <2>1. MaxSafe \in Int /\ Half \in Int /\ MaxSafe < Half /\ Overflow \notin Int /\ -MaxSafe <= m /\ m <= MaxSafe
    BY MoneyAssumption DEF Safe
  <2>2. Neg(m) = -m /\ Neg(m) # Overflow
    BY <2>1 DEF Neg, Safe
  <2>3. DivMod(m, k) = [quotient |-> -m, remainder |-> 0]
    BY <1>1, <2>2 DEF DivMod
  <2>4. (-m) * k + 0 = m /\ Magnitude(0) = 0 /\ Magnitude(k) = 1
    BY <1>1 DEF Magnitude, Negative
  <2> QED BY <2>3, <2>4
<1>2. CASE k # -1
  <2>1. PICK a \in Nat, b \in Nat \ {0} : a = Magnitude(m) /\ b = Magnitude(k)
    BY Magnitudes
  <2>2. /\ m = IF Negative(m) THEN -a ELSE a
        /\ k = IF Negative(k) THEN -b ELSE b
    BY <2>1, Magnitudes
  <2>3. PICK q \in Nat, r \in 0 .. b - 1 : q = a \div b /\ a = b * q + r
    BY Divided
  <2>4. Quotient(m, k) = IF Negative(m) # Negative(k) THEN -q ELSE q
    BY <2>1, <2>3 DEF Quotient
  <2>5. b * q \in Int /\ k * Quotient(m, k) = IF Negative(m) THEN -(b * q) ELSE b * q
    <3>1. b * q \in Int /\ (-b) * q = -(b * q) /\ b * (-q) = -(b * q) /\ (-b) * (-q) = b * q
      OBVIOUS
    <3> QED BY <2>2, <2>4, <3>1 DEF Negative
  <2>6. m - k * Quotient(m, k) = IF Negative(m) THEN -r ELSE r
    BY <2>2, <2>3, <2>5
  <2>7. DivMod(m, k) = [quotient |-> Quotient(m, k), remainder |-> IF Negative(m) THEN -r ELSE r]
    BY <1>2, <2>6 DEF DivMod
  <2>8. Quotient(m, k) \in Int /\ Quotient(m, k) * k = k * Quotient(m, k)
    BY <2>4
  <2>9. Quotient(m, k) * k + (IF Negative(m) THEN -r ELSE r) = m
    <3>1. PICK x \in Int : x = b * q
      BY <2>5
    <3>2. Quotient(m, k) * k = IF Negative(m) THEN -x ELSE x
      BY <2>5, <2>8, <3>1
    <3>3. a = x + r
      BY <2>3, <3>1
    <3> QED BY <2>2, <3>2, <3>3
  <2>10. Magnitude(IF Negative(m) THEN -r ELSE r) = r /\ r < b
    BY DEF Magnitude, Negative
  <2>11. (IF Negative(m) THEN -r ELSE r) # 0 => Negative(IF Negative(m) THEN -r ELSE r) = Negative(m)
    BY DEF Negative
  <2> QED BY <2>1, <2>7, <2>9, <2>10, <2>11
<1> QED BY <1>1, <1>2

\* A rounded quotient: within half a unit, or within one below when truncated.
LEMMA RoundedFacts ==
    ASSUME NEW n \in Nat, NEW d \in Nat \ {0}, NEW r \in Roundings
    PROVE  /\ Rounded(n, d, r) \in Nat
           /\ 2 * Magnitude(Rounded(n, d, r) * d - n) <= (IF r = "toward_zero" THEN 2 * d - 1 ELSE d)
           /\ r = "toward_zero" => Rounded(n, d, r) * d <= n
           /\ n = 0 => Rounded(n, d, r) = 0
<1>1. PICK w \in Nat, s \in 0 .. d - 1 : w = n \div d /\ s = n % d /\ n = d * w + s
  BY Divided
<1>2. d * w \in Int /\ w * d = d * w /\ (w + 1) * d = d * w + d
  OBVIOUS
<1>3. \/ /\ Rounded(n, d, r) = w
         /\ r # "toward_zero" => 2 * s <= d
      \/ Rounded(n, d, r) = w + 1 /\ r # "toward_zero" /\ 2 * s >= d
  BY <1>1 DEF Rounded, Roundings
<1>4. CASE Rounded(n, d, r) = w /\ (r # "toward_zero" => 2 * s <= d)
  <2>1. Rounded(n, d, r) * d - n = -s
    BY <1>1, <1>2, <1>4
  <2>2. Magnitude(-s) = s
    BY DEF Magnitude, Negative
  <2>3. n = 0 => w = 0
    <3>1. n = 0 => d * w = 0
      BY <1>1, <1>2
    <3> QED BY <3>1
  <2>4. Rounded(n, d, r) * d <= n
    BY <1>1, <1>2, <1>4
  <2> QED BY <1>4, <2>1, <2>2, <2>3, <2>4
<1>5. CASE Rounded(n, d, r) = w + 1 /\ r # "toward_zero" /\ 2 * s >= d
  <2>1. Rounded(n, d, r) * d - n = d - s
    BY <1>1, <1>2, <1>5
  <2>2. Magnitude(d - s) = d - s
    BY DEF Magnitude, Negative
  <2>3. n # 0
    <3>1. d * w >= 0 /\ s > 0
      BY <1>5
    <3> QED BY <1>1, <1>2, <3>1
  <2> QED BY <1>5, <2>1, <2>2, <2>3
<1> QED BY <1>3, <1>4, <1>5

\* Money.MulFloat by a positive fraction, of an amount of either sign.
LEMMA FractionExact ==
    ASSUME NEW m \in Int, NEW k \in Nat \ {0}, Safe(m), NEW den \in Nat \ {0}, NEW r \in Roundings,
           MulFloat(m, k, den, r) # Overflow
    PROVE  LET p == MulFloat(m, k, den, r)
               gap == p * den - m * k IN
           /\ 2 * Magnitude(gap) <= (IF r = "toward_zero" THEN 2 * den - 1 ELSE den)
           /\ r = "toward_zero" => Magnitude(p) * den <= Magnitude(m * k)
           /\ MulFloat(-m, k, den, r) = -p
<1>1. PICK a \in Nat : a = Magnitude(m) /\ a = Magnitude(-m) /\ m = IF Negative(m) THEN -a ELSE a
  BY Magnitudes
<1>2. a * k \in Nat
  OBVIOUS
<1>3. PICK w \in Nat : /\ w = Rounded(a * k, den, r)
                       /\ 2 * Magnitude(w * den - a * k) <= (IF r = "toward_zero" THEN 2 * den - 1 ELSE den)
                       /\ r = "toward_zero" => w * den <= a * k
                       /\ a * k = 0 => w = 0
  BY <1>2, RoundedFacts
<1>4. w <= MaxSafe /\ MulFloat(m, k, den, r) = IF Negative(m) THEN -w ELSE w
  BY <1>1, <1>3, MoneyAssumption DEF MulFloat
<1>5. MulFloat(-m, k, den, r) = IF Negative(-m) THEN -w ELSE w
  <2>1. Safe(-m)
    BY MoneyAssumption DEF Safe
  <2> QED BY <1>1, <1>3, <1>4, <2>1, MoneyAssumption DEF MulFloat
<1>6. w * den \in Nat /\ (-w) * den = -(w * den) /\ (-a) * k = -(a * k)
  OBVIOUS
<1>7. \A x \in Int : Magnitude(-x) = Magnitude(x)
  BY Magnitudes
<1>8. Magnitude(w) = w /\ Magnitude(-w) = w /\ Magnitude(a * k) = a * k /\ Magnitude(-(a * k)) = a * k
  BY <1>2 DEF Magnitude, Negative
<1>9. CASE Negative(m)
  <2>1. m = -a /\ MulFloat(m, k, den, r) = -w /\ ~Negative(-m)
    BY <1>1, <1>4, <1>9 DEF Negative
  <2>2. m * k = -(a * k) /\ (-w) * den - m * k = -(w * den - a * k)
    BY <1>2, <1>6, <2>1
  <2>3. Magnitude((-w) * den - m * k) = Magnitude(w * den - a * k)
    BY <1>2, <1>6, <1>7, <2>2
  <2>4. MulFloat(-m, k, den, r) = -(-w)
    BY <1>5, <2>1
  <2> QED BY <1>3, <1>8, <2>1, <2>2, <2>3, <2>4
<1>10. CASE ~Negative(m)
  <2>1. m = a /\ MulFloat(m, k, den, r) = w
    BY <1>1, <1>4, <1>10
  <2>2. MulFloat(-m, k, den, r) = -w
    <3>1. CASE m = 0
      <4>1. a * k = 0
        BY <2>1, <3>1
      <4> QED BY <1>3, <1>5, <4>1
    <3>2. CASE m # 0
      <4>1. Negative(-m)
        BY <1>10, <3>2 DEF Negative
      <4> QED BY <1>5, <4>1
    <3> QED BY <3>1, <3>2
  <2> QED BY <1>3, <1>8, <2>1, <2>2
<1> QED BY <1>9, <1>10

\* Products, divisions and roundings of machine words, whatever the width of the word
\* and the safe range below it: Money.MulInt's test before the multiplication refuses
\* exactly what would not fit, Money.DivMod loses nothing, and Money.MulFloat is within
\* its rounding of the true product and favours no side by the sign.
THEOREM ProductsAreExact == \A m, k \in Words : ProductsExact(m, k)
<1> SUFFICES ASSUME NEW m \in Words, NEW k \in Words PROVE ProductsExact(m, k)
  OBVIOUS
<1>1. m \in Int /\ k \in Int
  BY MoneyAssumption DEF Words
<1>2. Safe(m) => MulInt(m, k) = Exactly(m * k)
  BY <1>1, ProductExact
<1>3. (k # 0 /\ Safe(m)) =>
         LET d == DivMod(m, k) IN
         /\ d.quotient * k + d.remainder = m
         /\ Magnitude(d.remainder) < Magnitude(k)
         /\ d.remainder # 0 => Negative(d.remainder) = Negative(m)
  BY <1>1, DivisionExact
<1>4. ASSUME k > 0, Safe(m), NEW den \in 1 .. 4, NEW r \in Roundings, MulFloat(m, k, den, r) # Overflow
      PROVE  LET p == MulFloat(m, k, den, r)
                 gap == p * den - m * k IN
             /\ 2 * Magnitude(gap) <= (IF r = "toward_zero" THEN 2 * den - 1 ELSE den)
             /\ r = "toward_zero" => Magnitude(p) * den <= Magnitude(m * k)
             /\ MulFloat(-m, k, den, r) = -p
  <2>1. k \in Nat \ {0} /\ den \in Nat \ {0}
    BY <1>1, <1>4
  <2> QED BY <1>1, <1>4, <2>1, FractionExact
<1> QED BY <1>2, <1>3, <1>4 DEF ProductsExact

\* What a ticket pays if all its legs win is an amount, and so is its stake.
LEMMA PayoutFacts ==
    ASSUME NEW s \in Slips, s.stake > 0, Payout(s) # Overflow
    PROVE  Payout(s) \in 0 .. MaxSafe /\ s.stake \in 1 .. MaxSafe
<1>1. s.stake \in Nat /\ s.accepted \in Nat /\ MaxSafe \in Nat
  BY TicketsAssumption, MoneyAssumption
<1> DEFINE magnitude == Rounded(Magnitude(s.stake) * s.accepted, 4, s.rounding)
<1>2. Magnitude(s.stake) = s.stake /\ ~Negative(s.stake)
  BY <1>1 DEF Magnitude, Negative
<1>3. magnitude \in Nat
  <2>1. Magnitude(s.stake) * s.accepted \in Nat
    BY <1>1, <1>2
  <2> DEFINE n == Magnitude(s.stake) * s.accepted
  <2>2. n \in Nat
    BY <2>1
  <2> HIDE DEF n
  <2>3. n \div 4 \in Nat
    BY <2>2
  <2>4. Rounded(n, 4, s.rounding) \in {n \div 4, n \div 4 + 1}
    BY DEF Rounded
  <2>5. Rounded(n, 4, s.rounding) \in Nat
    BY <2>3, <2>4
  <2> QED BY <2>5 DEF n
<1> HIDE DEF magnitude
<1>4. Safe(s.stake) /\ magnitude <= MaxSafe /\ Payout(s) = magnitude
  BY <1>1, <1>2, <1>3 DEF Payout, MulFloat, magnitude
<1> QED BY <1>1, <1>3, <1>4 DEF Safe

\* What is true of the amounts of a copy that is closed, or is not.
LEMMA ReturnFacts ==
    ASSUME slip \in Slips, Placeable(slip), NEW w \in TicketType, ReturnStorable(w)
    PROVE  /\ w.status \in Terminal <=> w.returned # Unpaid
           /\ w.status \in Terminal => w.returned \in 0 .. MaxSafe /\ w.net = w.returned - slip.stake
<1>1. Payout(slip) \in 0 .. MaxSafe /\ slip.stake \in 1 .. MaxSafe
  BY PayoutFacts DEF Placeable
<1>2. w.returned \in Int /\ MaxSafe \in Nat
  BY MoneyAssumption DEF TicketType, TicketsOf
<1>3. w.status \in Terminal <=> w.returned # Unpaid
  BY DEF ReturnStorable
<1>4. ASSUME w.status \in Terminal PROVE w.returned \in 0 .. MaxSafe /\ w.net = w.returned - slip.stake
  <2>1. w.net = w.returned - slip.stake
    BY <1>3, <1>4 DEF ReturnStorable
  <2>2. w.status \in {"won", "lost", "void", "push", "cashed_out"}
    BY <1>4 DEF Terminal, GradedStatus
  <2>3. w.returned \in 0 .. MaxSafe
    BY <2>2, <1>1, <1>2 DEF ReturnStorable
  <2> QED BY <2>1, <2>3
<1> QED BY <1>3, <1>4

\* The terms of a ticket never change.
LEMMA SlipKept ==
    ASSUME slip' = slip
    PROVE  /\ TicketType' = TicketType
           /\ \A w : ReturnStorable(w)' <=> ReturnStorable(w)
           /\ \A w : Consistent(w)' <=> Consistent(w)
           /\ \A v, w : LegsMove(v, w)' <=> LegsMove(v, w)
           /\ \A v, w : Descends(v, w)' <=> Descends(v, w)
           /\ Placeable(slip)' <=> Placeable(slip)
<1>1. TicketType' = TicketType
  BY DEF TicketType, TicketsOf
<1>2. \A w : ReturnStorable(w)' <=> ReturnStorable(w)
  BY DEF ReturnStorable
<1>3. \A w : Consistent(w)' <=> Consistent(w)
  BY <1>1, <1>2 DEF Consistent
<1>4. \A v, w : LegsMove(v, w)' <=> LegsMove(v, w)
  BY DEF LegsMove
<1>5. \A v, w : Descends(v, w)' <=> Descends(v, w)
  BY <1>4 DEF Descends
<1>6. Placeable(slip)' <=> Placeable(slip)
  BY DEF Placeable
<1> QED BY <1>1, <1>2, <1>3, <1>4, <1>5, <1>6

LEMMA CopiesInitial == TicketsInit => CopiesInv
<1> SUFFICES ASSUME TicketsInit PROVE CopiesInv
  OBVIOUS
<1>1. slip \in Slips /\ row = NoTicket /\ held = [h \in Hands |-> NoTicket] /\ overtaken = {}
  BY DEF TicketsInit
<1> QED BY <1>1 DEF CopiesInv

LEMMA TicketIsThere ==
    ASSUME slip \in Slips, NEW w, Consistent(w)
    PROVE  w # NoTicket
BY NoTicketAssumption DEF Consistent, TicketType

\* A method hands back a copy that is as consistent, and descends from the row if the
\* one it was given does.
LEMMA MethodKeeps ==
    ASSUME CopiesInv, NEW h \in Hands, held[h] # NoTicket, NEW w, Consistent(w),
           Descends(row, held[h]) => Descends(row, w), Holds(h, w)
    PROVE  CopiesInv'
<1>1. slip' = slip /\ row' = row /\ overtaken' = overtaken /\ held' = [held EXCEPT ![h] = w]
  BY DEF Holds
<1>2. w # NoTicket /\ w \in TicketType
  BY TicketIsThere DEF CopiesInv, Consistent
<1>3. \A g \in Hands : held'[g] = IF g = h THEN w ELSE held[g]
  BY <1>1 DEF CopiesInv
<1>4. held' \in [Hands -> TicketType \cup {NoTicket}]
  BY <1>1, <1>2 DEF CopiesInv
<1>5. TicketType' = TicketType
  BY <1>1, SlipKept
<1>6. held' \in [Hands -> TicketType' \cup {NoTicket}] /\ slip' \in Slips
  BY <1>1, <1>4, <1>5 DEF CopiesInv
<1>7. overtaken' \subseteq {g \in Hands : held'[g] # NoTicket}
  BY <1>1, <1>2, <1>3 DEF CopiesInv
<1>8. row' # NoTicket => Consistent(row)' /\ Placeable(slip)'
  <2>1. \A x : Consistent(x)' <=> Consistent(x)
    BY <1>1, SlipKept
  <2>2. Placeable(slip)' <=> Placeable(slip)
    BY <1>1, SlipKept
  <2> QED BY <1>1, <2>1, <2>2 DEF CopiesInv
<1>9. ASSUME NEW g \in Hands, held'[g] # NoTicket
      PROVE  row' # NoTicket /\ Consistent(held[g])' /\ (g \in overtaken' \/ Descends(row, held[g])')
  <2>1. row # NoTicket /\ (h \in overtaken \/ Descends(row, held[h]))
    BY DEF CopiesInv
  <2>2. PICK c : c = held'[g]
    OBVIOUS
  <2>3. Consistent(c) /\ (g \in overtaken \/ Descends(row, c))
    BY <1>3, <1>9, <2>1, <2>2 DEF CopiesInv
  <2>4. \A x : Consistent(x)' <=> Consistent(x)
    BY <1>1, SlipKept
  <2>5. \A x, y : Descends(x, y)' <=> Descends(x, y)
    BY <1>1, SlipKept
  <2>6. PICK r : r = row
    OBVIOUS
  <2>7. r = row'
    BY <1>1, <2>6
  <2>8. Consistent(c)' /\ (g \in overtaken' \/ Descends(r, c)')
    BY <1>1, <2>3, <2>4, <2>5, <2>6
  <2> QED BY <1>1, <2>1, <2>2, <2>7, <2>8
<1> QED BY <1>6, <1>7, <1>8, <1>9 DEF CopiesInv

LEMMA OpensKeeps ==
    ASSUME CopiesInv, NEW h \in Hands, NEW at \in 0 .. MaxTime, Opens(h, at)
    PROVE  CopiesInv'
<1> DEFINE w == [held[h] EXCEPT !.status = "open", !.at = at]
<1>1. held[h] # NoTicket /\ at > 0 /\ at >= held[h].at /\ Holds(h, w)
      /\ CanTransitionTo(held[h].status, "open") /\ at \in Nat
  BY TicketsAssumption DEF Opens, Stamped
<1>2. Consistent(held[h]) /\ held[h] \in TicketType
  BY <1>1 DEF CopiesInv, Consistent
<1>3. w \in TicketType
  BY <1>1, <1>2 DEF TicketType, TicketsOf, Open
<1>4. /\ w.status = "open" /\ w.at = at /\ w.grade = held[h].grade /\ w.gradedAt = held[h].gradedAt
      /\ w.returned = held[h].returned /\ w.net = held[h].net
  BY <1>2 DEF TicketType, TicketsOf
<1> HIDE DEF w
<1>5. held[h].status \in {"placed", "open"}
  BY <1>1 DEF CanTransitionTo, Terminal, GradedStatus
<1>6. held[h].returned = Unpaid
  BY <1>2, <1>5 DEF Consistent, ReturnStorable, Terminal, GradedStatus
<1>7. Consistent(w)
  BY <1>1, <1>2, <1>3, <1>4, <1>6 DEF Consistent, ReturnStorable, Terminal, GradedStatus
<1>8. Descends(row, held[h]) => Descends(row, w)
  <2> SUFFICES ASSUME Descends(row, held[h]) PROVE Descends(row, w)
    OBVIOUS
  <2>1. row.at \in Nat /\ held[h].at \in Nat
    BY <1>1, <1>2 DEF CopiesInv, Consistent, TicketType, TicketsOf
  <2> QED BY <1>1, <1>4, <1>5, <2>1 DEF Descends, LegsMove, CanTransitionTo, Terminal, GradedStatus
<1> QED BY <1>1, <1>7, <1>8, MethodKeeps

LEMMA GradesKeeps ==
    ASSUME CopiesInv, NEW h \in Hands, NEW at \in 0 .. MaxTime, NEW l \in slip.legs,
           NEW s \in Gradings, Grades(h, l, s, at)
    PROVE  CopiesInv'
<1> DEFINE was == held[h].grade[l]
           since == IF was = s THEN held[h].gradedAt[l] ELSE at
           w == [held[h] EXCEPT !.grade[l] = s, !.gradedAt[l] = since, !.at = at]
<1>1. held[h] # NoTicket /\ at > 0 /\ at >= held[h].at /\ at \in Nat
      /\ held[h].status \notin Terminal /\ was \in {"pending", s}
  BY TicketsAssumption DEF Grades, Stamped
<1>2. Consistent(held[h]) /\ held[h] \in TicketType
  BY <1>1 DEF CopiesInv, Consistent
<1>3. /\ held[h].grade \in [slip.legs -> LegStatus] /\ held[h].gradedAt \in [slip.legs -> Nat]
      /\ held[h].at \in Nat
  BY <1>2 DEF TicketType, TicketsOf
<1>4. Holds(h, w)
  BY <1>1, <1>2 DEF Grades, TicketType, TicketsOf
<1>5. /\ w.status = held[h].status /\ w.at = at
      /\ w.grade = [held[h].grade EXCEPT ![l] = s] /\ w.gradedAt = [held[h].gradedAt EXCEPT ![l] = since]
      /\ w.returned = held[h].returned /\ w.net = held[h].net
  BY <1>2 DEF TicketType, TicketsOf
<1>6. s \in LegStatus /\ since \in Nat
  BY <1>1, <1>3, TicketsAssumption DEF LegStatus, GradedStatus
<1>7. w.grade \in [slip.legs -> LegStatus] /\ w.gradedAt \in [slip.legs -> Nat]
  BY <1>3, <1>5, <1>6
<1>8. w \in TicketType
  BY <1>1, <1>2, <1>7 DEF TicketType, TicketsOf
<1>9. \A k \in slip.legs : /\ w.grade[k] = IF k = l THEN s ELSE held[h].grade[k]
                           /\ w.gradedAt[k] = IF k = l THEN since ELSE held[h].gradedAt[k]
  BY <1>3, <1>5
<1>10. (s # "pending") = (since # 0)
  <2>1. (was # "pending") = (held[h].gradedAt[l] # 0)
    BY <1>2 DEF Consistent
  <2> QED BY <1>1, <2>1
<1> HIDE DEF w, since
<1>11. \A k \in slip.legs : (w.grade[k] # "pending") = (w.gradedAt[k] # 0)
  BY <1>2, <1>9, <1>10 DEF Consistent
<1>12. ReturnStorable(w)
  BY <1>2, <1>5 DEF Consistent, ReturnStorable
<1>13. Consistent(w)
  BY <1>1, <1>5, <1>8, <1>11, <1>12 DEF Consistent
<1>14. Descends(row, held[h]) => Descends(row, w)
  <2> SUFFICES ASSUME Descends(row, held[h]) PROVE Descends(row, w)
    OBVIOUS
  <2>1. row.at \in Nat
    BY <1>1 DEF CopiesInv, Consistent, TicketType, TicketsOf
  <2>2. CanTransitionTo(row.status, w.status) /\ w.at >= row.at
    BY <1>1, <1>3, <1>5, <2>1 DEF Descends
  <2>3. ASSUME NEW k \in slip.legs
        PROVE  /\ row.grade[k] # w.grade[k] => row.grade[k] = "pending"
               /\ row.gradedAt[k] # 0 => w.gradedAt[k] = row.gradedAt[k]
               /\ (w.grade[k] # "pending") = (w.gradedAt[k] # 0)
    <3>1. /\ row.grade[k] # held[h].grade[k] => row.grade[k] = "pending"
          /\ row.gradedAt[k] # 0 => held[h].gradedAt[k] = row.gradedAt[k]
          /\ (held[h].grade[k] # "pending") = (held[h].gradedAt[k] # 0)
      BY <2>3 DEF Descends, LegsMove
    <3>2. CASE k # l
      BY <3>1, <3>2, <1>9, <1>11
    <3>3. CASE k = l
      <4>1. w.grade[k] = s /\ w.gradedAt[k] = since /\ held[h].grade[k] = was
        BY <3>3, <1>9
      <4>2. CASE was = s
        BY <3>1, <3>3, <4>1, <4>2, <1>10 DEF since
      <4>3. CASE was # s
        BY <3>1, <3>3, <4>1, <4>3, <1>1, <1>10
      <4> QED BY <4>2, <4>3
    <3> QED BY <3>2, <3>3
  <2> QED BY <2>2, <2>3 DEF Descends, LegsMove
<1> QED BY <1>1, <1>4, <1>13, <1>14, MethodKeeps

\* Settle and CashOut: the copy is closed, at an amount the schema takes.
LEMMA ClosingKeeps ==
    ASSUME CopiesInv, NEW h \in Hands, NEW at \in 0 .. MaxTime, NEW a \in Amounts, NEW outcome \in Terminal,
           Stamped(h, at), CanTransitionTo(held[h].status, outcome), Sub(a, slip.stake) # Overflow,
           Holds(h, Closed(held[h], outcome, a, at)),
           \/ outcome \in GradedStatus /\ ReturnFits(outcome, a)
           \/ outcome = "cashed_out" /\ a > 0 /\ a <= Payout(slip)
    PROVE  CopiesInv'
<1> DEFINE w == Closed(held[h], outcome, a, at)
<1>1. held[h] # NoTicket /\ at > 0 /\ at >= held[h].at /\ at \in Nat /\ a \in Nat
  BY TicketsAssumption DEF Stamped
<1>2. Consistent(held[h]) /\ held[h] \in TicketType /\ slip \in Slips /\ Placeable(slip)
  BY <1>1 DEF CopiesInv, Consistent
<1>3. Payout(slip) \in 0 .. MaxSafe /\ slip.stake \in 1 .. MaxSafe /\ MaxSafe \in Nat
  BY <1>2, PayoutFacts, MoneyAssumption DEF Placeable
<1>4. a \in 0 .. MaxSafe
  BY <1>1, <1>3 DEF ReturnFits, GradedStatus
<1>5. Sub(a, slip.stake) = a - slip.stake
  BY <1>3, <1>4, SafeSums
<1>6. w = [held[h] EXCEPT !.status = outcome, !.returned = a, !.net = a - slip.stake, !.at = at]
  BY <1>5 DEF Closed
<1>7. a \in Int /\ a - slip.stake \in Int
  BY <1>3, <1>4
<1>8. w \in TicketType
  BY <1>1, <1>2, <1>6, <1>7 DEF TicketType, TicketsOf
<1>9. /\ w.status = outcome /\ w.at = at /\ w.grade = held[h].grade /\ w.gradedAt = held[h].gradedAt
      /\ w.returned = a /\ w.net = a - slip.stake
  BY <1>2, <1>6 DEF TicketType, TicketsOf
<1> HIDE DEF w
<1>10. ReturnStorable(w)
  <2>1. a # Unpaid
    BY <1>1 DEF Unpaid
  <2>2. outcome = "lost" => a = 0
    BY DEF ReturnFits
  <2>3. outcome \in {"void", "push"} => a = slip.stake
    BY DEF ReturnFits
  <2>4. outcome = "won" => a >= slip.stake /\ a <= Payout(slip)
    BY DEF ReturnFits
  <2>5. outcome = "cashed_out" => a > 0 /\ a <= Payout(slip)
    BY DEF GradedStatus
  <2> QED BY <1>9, <2>1, <2>2, <2>3, <2>4, <2>5 DEF ReturnStorable
<1>11. Consistent(w)
  BY <1>1, <1>2, <1>8, <1>9, <1>10 DEF Consistent
<1>12. Descends(row, held[h]) => Descends(row, w)
  <2> SUFFICES ASSUME Descends(row, held[h]) PROVE Descends(row, w)
    OBVIOUS
  <2>1. row.at \in Nat /\ held[h].at \in Nat
    BY <1>1, <1>2 DEF CopiesInv, Consistent, TicketType, TicketsOf
  <2>2. CanTransitionTo(row.status, outcome)
    BY DEF Descends, CanTransitionTo, Terminal, GradedStatus
  <2> QED BY <1>1, <1>9, <2>1, <2>2 DEF Descends, LegsMove
<1> QED BY <1>1, <1>11, <1>12, MethodKeeps DEF w

LEMMA PlacesKeeps ==
    ASSUME CopiesInv, NEW at \in 1 .. MaxTime, Places(at)
    PROVE  CopiesInv'
<1> DEFINE w == NewWager(slip, at)
<1>1. /\ row = NoTicket /\ Placeable(slip) /\ row' = w /\ at \in Nat /\ at > 0
      /\ slip' = slip /\ held' = held /\ overtaken' = overtaken
  BY TicketsAssumption DEF Places
<1>2. \A h \in Hands : held[h] = NoTicket
  BY <1>1 DEF CopiesInv
<1>3. /\ w.status = "placed" /\ w.returned = Unpaid /\ w.net = 0 /\ w.at = at
      /\ w.grade = [l \in slip.legs |-> "pending"] /\ w.gradedAt = [l \in slip.legs |-> 0]
  BY DEF NewWager
<1>4. w \in TicketType
  BY <1>1 DEF NewWager, TicketType, TicketsOf, Open, LegStatus, Unpaid
<1>5. ReturnStorable(w)
  BY <1>3 DEF ReturnStorable, Terminal, GradedStatus
<1>6. Consistent(w)
  BY <1>1, <1>3, <1>4, <1>5 DEF Consistent
<1> HIDE DEF w
<1>7. TicketType' = TicketType /\ (Placeable(slip)' <=> Placeable(slip))
  BY <1>1, SlipKept
<1>8. PICK r : r = w
  OBVIOUS
<1>9. Consistent(r)'
  <2>1. \A x : Consistent(x)' <=> Consistent(x)
    BY <1>1, SlipKept
  <2> QED BY <2>1, <1>6, <1>8
<1>10. Consistent(row)'
  <2>1. r = row'
    BY <1>1, <1>8
  <2> QED BY <1>9, <2>1
<1>11. held' \in [Hands -> TicketType' \cup {NoTicket}]
  BY <1>1, <1>7 DEF CopiesInv
<1> QED BY <1>1, <1>2, <1>7, <1>10, <1>11 DEF CopiesInv

LEMMA LoadsKeeps ==
    ASSUME CopiesInv, NEW h \in Hands, Loads(h)
    PROVE  CopiesInv'
<1>1. /\ row # NoTicket /\ held[h] = NoTicket /\ held' = [held EXCEPT ![h] = row]
      /\ slip' = slip /\ row' = row /\ overtaken' = overtaken
  BY DEF Loads
<1>2. Consistent(row) /\ row \in TicketType /\ Placeable(slip)
  BY <1>1 DEF CopiesInv, Consistent
<1>3. \A g \in Hands : held'[g] = IF g = h THEN row ELSE held[g]
  BY <1>1 DEF CopiesInv
<1>4. TicketType' = TicketType /\ (Placeable(slip)' <=> Placeable(slip))
  BY <1>1, SlipKept
<1>5. held' \in [Hands -> TicketType' \cup {NoTicket}]
  BY <1>1, <1>2, <1>4 DEF CopiesInv
<1>6. Descends(row, row)
  <2>1. row.at \in Nat
    BY <1>2 DEF TicketType, TicketsOf
  <2> QED BY <1>2, <2>1 DEF Descends, CanTransitionTo, LegsMove, Consistent
<1>7. \A x : Consistent(x)' <=> Consistent(x)
  BY <1>1, SlipKept
<1>8. \A x, y : Descends(x, y)' <=> Descends(x, y)
  BY <1>1, SlipKept
<1>9. PICK r : r = row
  OBVIOUS
<1>10. r = row'
  BY <1>1, <1>9
<1>11. Consistent(r)'
  BY <1>2, <1>7, <1>9
<1>12. ASSUME NEW g \in Hands, held'[g] # NoTicket
      PROVE  Consistent(held[g])' /\ (g \in overtaken' \/ Descends(row, held[g])')
  <2>1. PICK c : c = held'[g]
    OBVIOUS
  <2>2. Consistent(c) /\ (g \in overtaken \/ Descends(r, c))
    BY <1>2, <1>3, <1>6, <1>9, <1>12, <2>1 DEF CopiesInv
  <2>3. Consistent(c)' /\ (g \in overtaken' \/ Descends(r, c)')
    BY <1>1, <1>7, <1>8, <2>2
  <2> QED BY <1>10, <2>1, <2>3
<1>13. overtaken' \subseteq {g \in Hands : held'[g] # NoTicket}
  BY <1>1, <1>3 DEF CopiesInv
<1>14. Consistent(row)' /\ slip' \in Slips
  BY <1>1, <1>10, <1>11 DEF CopiesInv
<1> QED BY <1>1, <1>2, <1>4, <1>5, <1>12, <1>13, <1>14 DEF CopiesInv

\* A copy is dropped; if it was saved, the row is what it was, and whoever else holds
\* a copy is overtaken unless the row did not change.
LEMMA DropsKeeps ==
    ASSUME CopiesInv, NEW h \in Hands, held[h] # NoTicket, slip' = slip,
           held' = [held EXCEPT ![h] = NoTicket],
           \/ row' = row /\ overtaken' = overtaken \ {h}
           \/ row' = held[h] /\ overtaken' = {g \in Hands : held[g] # NoTicket} \ {h}
    PROVE  CopiesInv'
<1>1. \A g \in Hands : held'[g] = IF g = h THEN NoTicket ELSE held[g]
  BY DEF CopiesInv
<1>2. TicketType' = TicketType /\ (Placeable(slip)' <=> Placeable(slip))
  BY SlipKept
<1>3. held' \in [Hands -> TicketType' \cup {NoTicket}]
  BY <1>2 DEF CopiesInv
<1>4. \A x : Consistent(x)' <=> Consistent(x)
  BY SlipKept
<1>5. \A x, y : Descends(x, y)' <=> Descends(x, y)
  BY SlipKept
<1>6. row # NoTicket /\ Consistent(row) /\ Consistent(held[h]) /\ Placeable(slip) /\ slip \in Slips
  BY DEF CopiesInv
<1>7. PICK r : r = row'
  OBVIOUS
<1>8. Consistent(r)' /\ r # NoTicket
  BY <1>4, <1>6, <1>7
<1>9. Consistent(row)' /\ row' # NoTicket
  BY <1>7, <1>8
<1>10. ASSUME NEW g \in Hands, held'[g] # NoTicket
      PROVE  Consistent(held[g])' /\ (g \in overtaken' \/ Descends(row, held[g])')
  <2>1. PICK c : c = held'[g]
    OBVIOUS
  <2>2. g # h /\ c = held[g]
    BY <1>1, <1>10, <2>1
  <2>3. Consistent(c)'
    BY <1>4, <1>10, <2>1, <2>2 DEF CopiesInv
  <2>4. g \in overtaken' \/ Descends(r, c)'
    <3>1. CASE row' = row /\ overtaken' = overtaken \ {h}
      BY <1>5, <1>7, <1>10, <2>1, <2>2, <3>1 DEF CopiesInv
    <3>2. CASE row' = held[h] /\ overtaken' = {k \in Hands : held[k] # NoTicket} \ {h}
      BY <1>10, <2>1, <2>2, <3>2
    <3> QED BY <3>1, <3>2
  <2> QED BY <1>7, <2>1, <2>3, <2>4
<1>11. overtaken' \subseteq {g \in Hands : held'[g] # NoTicket}
  BY <1>1 DEF CopiesInv
<1> QED BY <1>2, <1>3, <1>6, <1>9, <1>10, <1>11 DEF CopiesInv

LEMMA CopiesStep == CopiesInv /\ [TicketsNext]_ticketVars => CopiesInv'
<1> SUFFICES ASSUME CopiesInv, [TicketsNext]_ticketVars PROVE CopiesInv'
  OBVIOUS
<1>1. ASSUME slip' = slip, row' = row, held' = held, overtaken' = overtaken PROVE CopiesInv'
  <2>1. TicketType' = TicketType /\ (Placeable(slip)' <=> Placeable(slip))
    BY <1>1, SlipKept
  <2>2. \A x : Consistent(x)' <=> Consistent(x)
    BY <1>1, SlipKept
  <2>3. \A x, y : Descends(x, y)' <=> Descends(x, y)
    BY <1>1, SlipKept
  <2>4. PICK r : r = row
    OBVIOUS
  <2>5. PICK f : f = held
    OBVIOUS
  <2>6. r = row' /\ f = held'
    BY <1>1, <2>4, <2>5
  <2>7. r # NoTicket => Consistent(r)' /\ Placeable(slip)'
    BY <2>1, <2>2, <2>4 DEF CopiesInv
  <2>8. \A h \in Hands : f[h] # NoTicket =>
          r # NoTicket /\ Consistent(f[h])' /\ (h \in overtaken \/ Descends(r, f[h])')
    BY <2>2, <2>3, <2>4, <2>5 DEF CopiesInv
  <2>9. f \in [Hands -> TicketType' \cup {NoTicket}] /\ overtaken \subseteq {h \in Hands : f[h] # NoTicket}
        /\ slip \in Slips
    BY <2>1, <2>5 DEF CopiesInv
  <2> QED BY <1>1, <2>6, <2>7, <2>8, <2>9 DEF CopiesInv
<1>2. ASSUME NEW at \in 1 .. MaxTime, Places(at) PROVE CopiesInv'
  BY <1>2, PlacesKeeps
<1>3. ASSUME NEW c \in Corrections, Grants(c.amount) \/ Adjusts(c.from, c.to, c.amount) PROVE CopiesInv'
  BY <1>1, <1>3 DEF Grants, Adjusts
<1>4. ASSUME NEW h \in Hands, Loads(h) PROVE CopiesInv'
  BY <1>4, LoadsKeeps
<1>5. ASSUME NEW h \in Hands, Saves(h) PROVE CopiesInv'
  <2>1. CASE row' = row
    BY <1>5, <2>1, DropsKeeps DEF Saves
  <2>2. CASE row' # row
    BY <1>5, <2>2, DropsKeeps DEF Saves
  <2> QED BY <2>1, <2>2
<1>6. ASSUME NEW h \in Hands, Refused(h) PROVE CopiesInv'
  BY <1>6, DropsKeeps DEF Refused
<1>7. ASSUME NEW h \in Hands, NEW at \in 0 .. MaxTime, Opens(h, at) PROVE CopiesInv'
  BY <1>7, OpensKeeps
<1>8. ASSUME NEW h \in Hands, NEW at \in 0 .. MaxTime, NEW l \in slip.legs, NEW s \in Gradings,
             Grades(h, l, s, at)
      PROVE  CopiesInv'
  BY <1>8, GradesKeeps
<1>9. ASSUME NEW h \in Hands, NEW at \in 0 .. MaxTime, NEW a \in Amounts, NEW s \in Endings,
             Settles(h, s, a, at)
      PROVE  CopiesInv'
  <2>1. s \in Terminal /\ s \in GradedStatus
    BY <1>9 DEF Settles, Terminal
  <2> QED BY <1>9, <2>1, ClosingKeeps DEF Settles
<1>10. ASSUME NEW h \in Hands, NEW at \in 0 .. MaxTime, NEW a \in Amounts, CashesOut(h, a, at)
       PROVE  CopiesInv'
  <2>1. "cashed_out" \in Terminal
    BY DEF Terminal
  <2> QED BY <1>10, <2>1, ClosingKeeps DEF CashesOut
<1>11. CASE UNCHANGED ticketVars
  BY <1>1, <1>11 DEF ticketVars
<1> QED BY <1>2, <1>3, <1>4, <1>5, <1>6, <1>7, <1>8, <1>9, <1>10, <1>11 DEF TicketsNext

----------------------------------------------------------------------------
(* The ledger.                                                              *)

Settling == {"payout", "loss", "refund", "cash_out"}

\* The row keeps what the settlements on the ledger say of it.
RowKept ==
    Settlements # {} =>
        row' # NoTicket /\ row'.status = row.status /\ row'.returned = row.returned /\ row'.net = row.net

LEMMA LedgerInitial == TicketsInit => LedgerInv
<1> SUFFICES ASSUME TicketsInit PROVE LedgerInv
  OBVIOUS
<1>1. row = NoTicket /\ posted = <<>>
  BY DEF TicketsInit
<1>2. DOMAIN posted = {} /\ {} = 1 .. 0 /\ 0 \in 0 .. MaxPosts
  BY <1>1, TicketsAssumption
<1>3. Settlements = {}
  BY <1>2 DEF Settlements, Kinds
<1>4. \A a : Balance(a) = 0
  BY <1>2, BalanceEmpty DEF Balance
<1>5. SettlementsAgree
  BY <1>3 DEF SettlementsAgree
<1> QED BY <1>1, <1>2, <1>3, <1>4, <1>5 DEF LedgerInv, EscrowInv

LEMMA LedgerStays ==
    ASSUME LedgerInv, posted' = posted, slip' = slip, (row' = NoTicket) <=> (row = NoTicket), RowKept
    PROVE  LedgerInv'
<1>1. \A ks : Kinds(ks)' = Kinds(ks)
  BY DEF Kinds
<1>2. Settlements' = Settlements
  BY <1>1 DEF Settlements
<1>3. \A a : Balance(a)' = Balance(a)
  BY DEF Balance
<1>4. \A n : Entered(n)' <=> Entered(n)
  BY <1>2 DEF Entered
<1>5. SettlementsAgree'
  <2> SUFFICES ASSUME NEW i \in Settlements, RowKept, SettlementsAgree
               PROVE  /\ row'.status \in Terminal
                      /\ posted[i].kind = SettlementKind(row'.status)
                      /\ posted[i].moves["cash"] = row'.returned
                      /\ posted[i].moves["escrow"] = -slip.stake
                      /\ posted[i].moves["house"] = -row'.net
    BY <1>2 DEF SettlementsAgree, LedgerInv, SettlementKind
  <2> QED BY DEF SettlementsAgree, RowKept
<1>6. Kinds({"adjustment"})' = Kinds({"adjustment"})
  BY <1>1
<1>7. EscrowInv'
  BY <1>2, <1>3, <1>6 DEF LedgerInv, EscrowInv
<1>8. \A n \in DOMAIN posted : Entered(n)'
  BY <1>4 DEF LedgerInv
<1>9. Settlements # {} => row # NoTicket
  BY DEF LedgerInv
<1> QED BY <1>2, <1>3, <1>5, <1>7, <1>8, <1>9 DEF LedgerInv

\* One more transaction: where it stands, what it leaves, what it adds.
LEMMA PostsFacts ==
    ASSUME LedgerInv, NEW kind, NEW moves \in [Accounts -> Int], Posts(kind, moves)
    PROVE  \E n \in Nat :
              /\ DOMAIN posted = 1 .. n /\ DOMAIN posted' = 1 .. (n + 1) /\ n + 1 \in 0 .. MaxPosts
              /\ \A i \in 1 .. n : posted'[i] = posted[i]
              /\ posted'[n + 1] = [kind |-> kind, moves |-> moves]
              /\ \A a \in Accounts : Balance(a)' = Balance(a) + moves[a] /\ Balance(a) \in Int
              /\ \A ks : Kinds(ks)' = Kinds(ks) \cup (IF kind \in ks THEN {n + 1} ELSE {})
              /\ Settlements' = Settlements \cup (IF kind \in Settling THEN {n + 1} ELSE {})
<1>1. PICK n \in 0 .. MaxPosts : DOMAIN posted = 1 .. n
  BY DEF LedgerInv
<1>2. n \in Nat /\ MaxPosts \in Nat
  BY TicketsAssumption
<1>3. Cardinality(DOMAIN posted) = n
  <2>1. 1 \in Int /\ n \in Int
    BY <1>2
  <2> QED BY <1>1, <1>2, <2>1, FS_Interval
<1>4. n < MaxPosts /\ posted' = [i \in 1 .. (n + 1) |->
          IF i \in 1 .. n THEN posted[i] ELSE [kind |-> kind, moves |-> moves]]
  BY <1>1, <1>3 DEF Posts
<1>5. DOMAIN posted' = 1 .. (n + 1) /\ n + 1 \in 0 .. MaxPosts
  BY <1>2, <1>4
<1>6. \A i \in 1 .. n : i \in 1 .. (n + 1) /\ posted'[i] = posted[i]
  BY <1>2, <1>4
<1>7. n + 1 \in 1 .. (n + 1) /\ n + 1 \notin 1 .. n
  BY <1>2
<1>8. posted'[n + 1] = [kind |-> kind, moves |-> moves]
  BY <1>4, <1>7
<1>9. ASSUME NEW a \in Accounts
      PROVE  Balance(a)' = Balance(a) + moves[a] /\ Balance(a) \in Int
  <2>1. \A i \in 1 .. (n + 1) : posted'[i].moves[a] \in Int
    <3> SUFFICES ASSUME NEW i \in 1 .. (n + 1) PROVE posted'[i].moves[a] \in Int
      OBVIOUS
    <3>1. CASE i \in 1 .. n
      <4>1. Entered(i)
        BY <1>1, <3>1 DEF LedgerInv
      <4> QED BY <1>6, <3>1, <4>1 DEF Entered
    <3>2. CASE i \notin 1 .. n
      <4>1. i = n + 1
        BY <1>2, <3>2
      <4> QED BY <1>8, <4>1
    <3> QED BY <3>1, <3>2
  <2>2. Whole(posted', a, n + 1)
    BY <1>2, <2>1 DEF Whole
  <2>3. /\ BalanceOf(posted', a) = BalanceOf(posted, a) + posted'[n + 1].moves[a]
        /\ BalanceOf(posted, a) \in Int
    <3>1. PICK p : p = posted'
      OBVIOUS
    <3>2. Whole(p, a, n + 1)
      BY <2>2, <3>1
    <3>3. DOMAIN p = 1 .. (n + 1)
      BY <1>5, <3>1
    <3>5. \A i \in 1 .. n : p[i] = posted[i]
      BY <1>6, <3>1
    <3>6. n \in Nat
      BY <1>2
    <3>7. DOMAIN posted = 1 .. n
      BY <1>1, <1>2
    <3>4. /\ BalanceOf(p, a) = BalanceOf(posted, a) + p[n + 1].moves[a]
          /\ BalanceOf(posted, a) \in Int
      <4>1. Lengthens(p, posted, a, n)
        BY <3>2, <3>3, <3>5, <3>6, <3>7 DEF Lengthens
      <4> QED BY <4>1, BalanceExtends
    <3> QED BY <3>1, <3>4
  <2> QED BY <1>8, <2>3 DEF Balance
<1>10. ASSUME NEW ks
       PROVE  Kinds(ks)' = Kinds(ks) \cup (IF kind \in ks THEN {n + 1} ELSE {})
  <2>1. Kinds(ks)' = {i \in 1 .. (n + 1) : posted'[i].kind \in ks}
    BY <1>5 DEF Kinds
  <2>2. Kinds(ks) = {i \in 1 .. n : posted[i].kind \in ks}
    BY <1>1 DEF Kinds
  <2>3. \A i \in 1 .. (n + 1) : i \in 1 .. n \/ i = n + 1
    BY <1>2
  <2>4. posted'[n + 1].kind = kind
    BY <1>8
  <2> QED BY <1>6, <1>7, <2>1, <2>2, <2>3, <2>4
<1>11. Settlements' = Settlements \cup (IF kind \in Settling THEN {n + 1} ELSE {})
  BY <1>10 DEF Settlements, Settling
<1> QED BY <1>1, <1>2, <1>5, <1>6, <1>8, <1>9, <1>10, <1>11

\* What a transaction may be, beside the row it is posted with.
Fitting(kind, moves) ==
    /\ Sum(moves) = 0
    /\ \/ /\ kind = "stake" /\ row = NoTicket /\ row' # NoTicket
          /\ moves["escrow"] = slip.stake /\ moves["issuance"] = 0
       \/ kind = "grant" /\ row' = row /\ moves["escrow"] = 0 /\ moves["issuance"] <= 0
       \/ kind = "adjustment" /\ row' = row
       \/ /\ kind \in Settling /\ row # NoTicket /\ row' # NoTicket
          /\ row'.status \in Terminal /\ kind = SettlementKind(row'.status)
          /\ moves["cash"] = row'.returned /\ moves["escrow"] = -slip.stake
          /\ moves["house"] = -row'.net /\ moves["issuance"] = 0

LEMMA LedgerGrows ==
    ASSUME LedgerInv, slip' = slip, slip.stake \in Nat, NEW kind, NEW moves \in [Accounts -> Int],
           Posts(kind, moves), Fitting(kind, moves), RowKept
    PROVE  LedgerInv'
<1>1. PICK n \in Nat :
          /\ DOMAIN posted = 1 .. n /\ DOMAIN posted' = 1 .. (n + 1) /\ n + 1 \in 0 .. MaxPosts
          /\ \A i \in 1 .. n : posted'[i] = posted[i]
          /\ posted'[n + 1] = [kind |-> kind, moves |-> moves]
          /\ \A a \in Accounts : Balance(a)' = Balance(a) + moves[a] /\ Balance(a) \in Int
          /\ \A ks : Kinds(ks)' = Kinds(ks) \cup (IF kind \in ks THEN {n + 1} ELSE {})
          /\ Settlements' = Settlements \cup (IF kind \in Settling THEN {n + 1} ELSE {})
  BY PostsFacts
<1>2. n + 1 \in 1 .. (n + 1) /\ n + 1 \notin 1 .. n /\ \A i \in 1 .. (n + 1) : i \in 1 .. n \/ i = n + 1
  OBVIOUS
<1>3. posted'[n + 1].kind = kind /\ posted'[n + 1].moves = moves
  BY <1>1
<1>4. {"cash", "escrow", "house", "issuance"} = Accounts
  BY DEF Accounts
<1>5. moves["cash"] \in Int /\ moves["escrow"] \in Int /\ moves["house"] \in Int /\ moves["issuance"] \in Int
  BY <1>4
<1>6. ASSUME NEW i \in 1 .. (n + 1) PROVE Entered(i)'
  <2>1. CASE i \in 1 .. n
    <3>1. Entered(i) /\ posted'[i] = posted[i]
      BY <1>1, <2>1 DEF LedgerInv
    <3>2. i \in Settlements' => i \in Settlements
      BY <1>1, <1>2, <2>1
    <3> QED BY <3>1, <3>2 DEF Entered
  <2>2. CASE i = n + 1
    <3>1. /\ kind \in {"stake", "grant", "adjustment", "payout", "loss", "refund", "cash_out"}
          /\ kind = "stake" => moves["escrow"] = slip.stake /\ moves["issuance"] = 0
          /\ kind = "grant" => moves["escrow"] = 0 /\ moves["issuance"] <= 0
          /\ kind \in Settling => moves["issuance"] = 0
      BY DEF Fitting, Settling
    <3>2. n + 1 \notin Settlements
      BY <1>1, <1>2 DEF Settlements, Kinds
    <3>3. n + 1 \in Settlements' => kind \in Settling
      BY <1>1, <3>2
    <3> QED BY <1>3, <2>2, <3>1, <3>3 DEF Entered, Fitting
  <2> QED BY <1>2, <2>1, <2>2
<1>7. Settlements' # {} => row' # NoTicket
  <2>1. CASE Settlements # {}
    BY <2>1 DEF RowKept
  <2>2. CASE kind \in Settling
    BY <2>2 DEF Fitting, Settling
  <2>3. CASE Settlements = {} /\ kind \notin Settling
    BY <1>1, <2>3
  <2> QED BY <2>1, <2>2, <2>3
<1>8. SettlementsAgree'
  <2> SUFFICES ASSUME NEW i \in Settlements'
               PROVE  /\ row'.status \in Terminal
                      /\ posted'[i].kind = SettlementKind(row'.status)
                      /\ posted'[i].moves["cash"] = row'.returned
                      /\ posted'[i].moves["escrow"] = -slip.stake
                      /\ posted'[i].moves["house"] = -row'.net
    BY DEF SettlementsAgree, SettlementKind
  <2>1. CASE i \in Settlements
    <3>1. i \in 1 .. n /\ posted'[i] = posted[i]
      BY <1>1, <2>1 DEF Settlements, Kinds
    <3> QED BY <2>1, <3>1 DEF LedgerInv, SettlementsAgree, RowKept
  <2>2. CASE i \notin Settlements
    <3>1. i = n + 1 /\ kind \in Settling
      BY <1>1, <2>2
    <3> QED BY <1>3, <3>1 DEF Fitting, Settling
  <2> QED BY <2>1, <2>2
<1>9. \A a \in Accounts : Balance(a)' \in Int
  BY <1>1
<1>10. /\ Balance("cash")' = Balance("cash") + moves["cash"] /\ Balance("cash") \in Int
       /\ Balance("escrow")' = Balance("escrow") + moves["escrow"] /\ Balance("escrow") \in Int
       /\ Balance("house")' = Balance("house") + moves["house"] /\ Balance("house") \in Int
       /\ Balance("issuance")' = Balance("issuance") + moves["issuance"] /\ Balance("issuance") \in Int
  BY <1>1, <1>4
<1>11. Balance("cash")' + Balance("escrow")' + Balance("house")' + Balance("issuance")' = 0
  <2>1. moves["cash"] + moves["escrow"] + moves["house"] + moves["issuance"] = 0
    BY DEF Fitting, Sum
  <2>2. Balance("cash") + Balance("escrow") + Balance("house") + Balance("issuance") = 0
    BY DEF LedgerInv
  <2> QED BY <1>5, <1>10, <2>1, <2>2
<1>12. EscrowInv'
  <2> SUFFICES ASSUME Kinds({"adjustment"})' = {}
               PROVE  /\ Balance("escrow")' = (IF row' = NoTicket THEN 0
                                               ELSE slip.stake * (1 - Cardinality(Settlements')))
                      /\ Balance("issuance")' <= 0
    BY DEF EscrowInv
  <2>1. Kinds({"adjustment"})' = Kinds({"adjustment"}) \cup (IF kind \in {"adjustment"} THEN {n + 1} ELSE {})
    BY <1>1
  <2>2. Kinds({"adjustment"}) = {} /\ kind # "adjustment"
    BY <2>1
  <2>3. /\ Balance("escrow") = (IF row = NoTicket THEN 0 ELSE slip.stake * (1 - Cardinality(Settlements)))
        /\ Balance("issuance") <= 0
    BY <2>2 DEF LedgerInv, EscrowInv
  <2>4. IsFiniteSet(Settlements) /\ Cardinality(Settlements) \in Nat
    <3>1. 1 \in Int /\ n \in Int
      OBVIOUS
    <3>2. IsFiniteSet(1 .. n)
      BY <3>1, FS_Interval
    <3>3. Settlements \subseteq 1 .. n
      BY <1>1 DEF Settlements, Kinds
    <3> QED BY <3>2, <3>3, FS_Subset, FS_CardinalityType
  <2>5. n + 1 \notin Settlements
    BY <1>1, <1>2 DEF Settlements, Kinds
  <2>6. CASE kind = "stake"
    <3>1. row = NoTicket /\ row' # NoTicket /\ moves["escrow"] = slip.stake /\ moves["issuance"] = 0
      BY <2>6 DEF Fitting, Settling
    <3>2. Settlements = {} /\ Settlements' = {}
      BY <1>1, <2>6, <3>1 DEF LedgerInv, Settling
    <3>3. Cardinality(Settlements') = 0
      BY <3>2, FS_EmptySet
    <3>4. slip.stake * (1 - 0) = slip.stake
      OBVIOUS
    <3>5. Balance("escrow")' = slip.stake
      BY <1>10, <2>3, <3>1
    <3>6. slip.stake * (1 - Cardinality(Settlements')) = slip.stake
      BY <3>3, <3>4
    <3> QED BY <1>10, <2>3, <3>1, <3>5, <3>6
  <2>7. CASE kind = "grant"
    <3>1. row' = row /\ moves["escrow"] = 0 /\ moves["issuance"] <= 0
      BY <2>7 DEF Fitting, Settling
    <3>2. Settlements' = Settlements
      BY <1>1, <2>7 DEF Settling
    <3>3. Balance("escrow")' = Balance("escrow") /\ Balance("issuance")' <= 0
      BY <1>5, <1>10, <2>3, <3>1
    <3> QED BY <2>3, <3>1, <3>2, <3>3
  <2>8. CASE kind \in Settling
    <3>1. row # NoTicket /\ row' # NoTicket /\ moves["escrow"] = -slip.stake /\ moves["issuance"] = 0
      BY <2>8 DEF Fitting, Settling
    <3>2. Cardinality(Settlements') = Cardinality(Settlements) + 1
      BY <1>1, <2>4, <2>5, <2>8, FS_AddElement
    <3> DEFINE k == Cardinality(Settlements)
    <3>3. slip.stake * (1 - (k + 1)) = slip.stake * (1 - k) - slip.stake
      BY <2>4
    <3>4. slip.stake * (1 - k) \in Int
      BY <2>4
    <3>5. Balance("escrow") = slip.stake * (1 - k)
      BY <2>3, <3>1
    <3>6. Cardinality(Settlements') = k + 1
      BY <3>2
    <3> HIDE DEF k
    <3>7. Balance("escrow")' = slip.stake * (1 - (k + 1))
      BY <1>10, <3>1, <3>3, <3>4, <3>5
    <3>8. Balance("issuance")' <= 0
      BY <1>10, <2>3, <3>1
    <3> QED BY <3>1, <3>6, <3>7, <3>8
  <2> QED BY <2>2, <2>6, <2>7, <2>8 DEF Fitting
<1>13. \A i \in DOMAIN posted' : Entered(i)'
  BY <1>1, <1>6
<1>14. \E k \in 0 .. MaxPosts : DOMAIN posted' = 1 .. k
  BY <1>1
<1> QED BY <1>7, <1>8, <1>9, <1>11, <1>12, <1>13, <1>14 DEF LedgerInv

LEMMA RowStays == ASSUME LedgerInv, row' = row PROVE RowKept
BY DEF RowKept, LedgerInv

LEMMA PlacesEnters ==
    ASSUME CopiesInv, LedgerInv, NEW at \in 1 .. MaxTime, Places(at)
    PROVE  LedgerInv'
<1>1. /\ row = NoTicket /\ Placeable(slip) /\ row' = NewWager(slip, at) /\ slip' = slip /\ slip \in Slips
      /\ Posts("stake", Transfer("cash", "escrow", slip.stake))
  BY DEF Places, CopiesInv
<1>2. slip.stake \in 1 .. MaxSafe /\ MaxSafe \in Nat
  BY <1>1, PayoutFacts, MoneyAssumption DEF Placeable
<1>3. Neg(slip.stake) = -slip.stake
  <2>1. slip.stake \in 0 .. MaxSafe
    BY <1>2
  <2> QED BY <2>1, SafeSums
<1> DEFINE moves == Transfer("cash", "escrow", slip.stake)
<1>4. /\ moves \in [Accounts -> Int] /\ moves["cash"] = -slip.stake /\ moves["escrow"] = slip.stake
      /\ moves["house"] = 0 /\ moves["issuance"] = 0
  BY <1>2, <1>3 DEF Transfer, Still, Accounts
<1> HIDE DEF moves
<1>5. row' # NoTicket
  <2>1. NewWager(slip, at) \in TicketsOf(slip)
    <3>1. at \in Nat
      BY TicketsAssumption
    <3> QED BY <3>1 DEF NewWager, TicketsOf, Open, LegStatus, Unpaid
  <2> QED BY <1>1, <2>1, NoTicketAssumption
<1>6. Fitting("stake", moves)
  BY <1>1, <1>2, <1>4, <1>5 DEF Fitting, Sum
<1>7. RowKept
  BY <1>1 DEF RowKept, LedgerInv
<1>8. Posts("stake", moves) /\ slip.stake \in Nat
  BY <1>1, <1>2 DEF moves
<1> QED BY <1>1, <1>4, <1>6, <1>7, <1>8, LedgerGrows

LEMMA CorrectionsEnter ==
    ASSUME CopiesInv, LedgerInv, NEW c \in Corrections, Grants(c.amount) \/ Adjusts(c.from, c.to, c.amount)
    PROVE  LedgerInv'
<1>1. /\ c.from \in Accounts /\ c.to \in Accounts /\ c.amount \in 0 .. MaxSafe /\ MaxSafe \in Nat
      /\ slip' = slip /\ row' = row /\ slip.stake \in Nat
  BY CorrectionsAssumption, MoneyAssumption, TicketsAssumption DEF Grants, Adjusts, CopiesInv
<1>2. Neg(c.amount) = -c.amount
  BY <1>1, SafeSums
<1>3. RowKept
  BY <1>1, RowStays
<1>4. CASE Grants(c.amount)
  <2> DEFINE moves == Transfer("issuance", "cash", c.amount)
  <2>1. /\ moves \in [Accounts -> Int] /\ moves["cash"] = c.amount /\ moves["escrow"] = 0
        /\ moves["house"] = 0 /\ moves["issuance"] = -c.amount
    BY <1>1, <1>2 DEF Transfer, Still, Accounts
  <2>2. Posts("grant", moves)
    BY <1>4 DEF Grants
  <2> HIDE DEF moves
  <2>3. Fitting("grant", moves)
    BY <1>1, <2>1 DEF Fitting, Sum
  <2> QED BY <1>1, <1>3, <2>1, <2>2, <2>3, LedgerGrows
<1>5. CASE Adjusts(c.from, c.to, c.amount)
  <2> DEFINE moves == Transfer(c.from, c.to, c.amount)
  <2>1. moves \in [Accounts -> Int]
    BY <1>1, <1>2 DEF Transfer, Still
  <2>2. Posts("adjustment", moves)
    BY <1>5 DEF Adjusts
  <2> HIDE DEF moves
  <2>3. Sum(moves) = 0
    BY <2>2 DEF Posts, Balanced
  <2>4. Fitting("adjustment", moves)
    BY <1>1, <2>3 DEF Fitting
  <2> QED BY <1>1, <1>3, <2>1, <2>2, <2>4, LedgerGrows
<1> QED BY <1>4, <1>5

\* A closed row is never opened again, nor does it change its amounts.
LEMMA SavesEnter ==
    ASSUME CopiesInv, LedgerInv, NEW h \in Hands, Saves(h)
    PROVE  LedgerInv'
<1>1. /\ held[h] # NoTicket /\ Storable(row, held[h]) /\ row' = held[h] /\ slip' = slip
      /\ row # NoTicket /\ Consistent(row) /\ Consistent(held[h]) /\ slip \in Slips /\ Placeable(slip)
  BY DEF Saves, CopiesInv
<1>2. slip.stake \in 1 .. MaxSafe /\ MaxSafe \in Nat
  BY <1>1, PayoutFacts, MoneyAssumption DEF Placeable
<1>3. RowKept
  <2> SUFFICES ASSUME Settlements # {}
               PROVE  row'.status = row.status /\ row'.returned = row.returned /\ row'.net = row.net
    BY <1>1 DEF RowKept
  <2>1. row.status \in Terminal
    BY DEF LedgerInv, SettlementsAgree
  <2>2. row.returned # Unpaid
    BY <1>1, <2>1, ReturnFacts DEF Consistent
  <2>3. row'.status = row.status
    BY <1>1, <2>1 DEF Storable, WagerMoves, Terminal, GradedStatus
  <2> QED BY <1>1, <2>2, <2>3 DEF Storable, WagerMoves
<1>4. CASE posted' = posted
  BY <1>1, <1>3, <1>4, LedgerStays
<1>5. ASSUME held[h].returned # Unpaid, Posts(SettlementKind(held[h].status), Settlement(held[h]))
      PROVE  LedgerInv'
  <2>1. held[h].status \in Terminal
    BY <1>1, <1>5, ReturnFacts DEF Consistent
  <2>2. held[h].returned \in 0 .. MaxSafe /\ held[h].net = held[h].returned - slip.stake
    BY <1>1, <2>1, ReturnFacts DEF Consistent
  <2>3. slip.stake \in 0 .. MaxSafe
    BY <1>2
  <2>4. Sub(slip.stake, held[h].returned) = slip.stake - held[h].returned
    BY <2>2, <2>3, SafeSums
  <2>5. Neg(slip.stake) = -slip.stake
    BY <2>3, SafeSums
  <2> DEFINE moves == Settlement(held[h])
  <2>6. /\ moves["cash"] = held[h].returned /\ moves["escrow"] = -slip.stake
        /\ moves["house"] = slip.stake - held[h].returned /\ moves["issuance"] = 0
    BY <2>4, <2>5 DEF Settlement
  <2>7. moves \in [Accounts -> Int]
    <3>1. DOMAIN moves = Accounts /\ moves = [a \in Accounts |-> moves[a]]
      BY DEF Settlement, Accounts
    <3>2. \A a \in Accounts : moves[a] \in Int
      <4>1. slip.stake \in Int /\ held[h].returned \in Int
        BY <1>2, <2>2
      <4>2. 0 \in Int /\ -slip.stake \in Int /\ slip.stake - held[h].returned \in Int
        BY <4>1
      <4> HIDE DEF moves
      <4> QED BY <2>6, <4>1, <4>2 DEF Accounts
    <3> HIDE DEF moves
    <3> QED BY <3>1, <3>2
  <2>8. SettlementKind(held[h].status) \in Settling
    <3>1. held[h].status \in {"won", "lost", "void", "push", "cashed_out"}
      BY <2>1 DEF Terminal, GradedStatus
    <3>2. \A s \in {"won", "lost", "void", "push", "cashed_out"} : SettlementKind(s) \in Settling
      BY DEF SettlementKind, Settling
    <3> QED BY <3>1, <3>2
  <2>9. Posts(SettlementKind(held[h].status), moves)
    BY <1>5
  <2> HIDE DEF moves
  <2>10. Sum(moves) = 0
    BY <1>2, <2>2, <2>6 DEF Sum
  <2>11. moves["house"] = -held[h].net
    BY <1>2, <2>2, <2>6
  <2>12. Fitting(SettlementKind(held[h].status), moves)
    BY <1>1, <2>1, <2>6, <2>8, <2>10, <2>11 DEF Fitting
  <2>13. slip.stake \in Nat
    BY <1>2
  <2> QED BY <1>1, <1>3, <2>7, <2>9, <2>12, <2>13, LedgerGrows
<1> QED BY <1>4, <1>5 DEF Saves

LEMMA LedgerStep == CopiesInv /\ LedgerInv /\ [TicketsNext]_ticketVars => LedgerInv'
<1> SUFFICES ASSUME CopiesInv, LedgerInv, [TicketsNext]_ticketVars PROVE LedgerInv'
  OBVIOUS
<1>1. ASSUME slip' = slip, row' = row, posted' = posted PROVE LedgerInv'
  BY <1>1, RowStays, LedgerStays
<1>2. ASSUME NEW h \in Hands, NEW w, Holds(h, w) PROVE LedgerInv'
  BY <1>1, <1>2 DEF Holds
<1>3. ASSUME NEW at \in 1 .. MaxTime, Places(at) PROVE LedgerInv'
  BY <1>3, PlacesEnters
<1>4. ASSUME NEW c \in Corrections, Grants(c.amount) \/ Adjusts(c.from, c.to, c.amount) PROVE LedgerInv'
  BY <1>4, CorrectionsEnter
<1>5. ASSUME NEW h \in Hands, Saves(h) PROVE LedgerInv'
  BY <1>5, SavesEnter
<1>6. ASSUME NEW h \in Hands, Loads(h) \/ Refused(h) PROVE LedgerInv'
  BY <1>1, <1>6 DEF Loads, Refused
<1>7. ASSUME NEW h \in Hands, NEW at \in 0 .. MaxTime,
             \/ Opens(h, at)
             \/ \E l \in slip.legs, s \in Gradings : Grades(h, l, s, at)
             \/ \E a \in Amounts, s \in Endings : Settles(h, s, a, at)
             \/ \E a \in Amounts : CashesOut(h, a, at)
      PROVE  LedgerInv'
  BY <1>2, <1>7 DEF Opens, Grades, Settles, CashesOut
<1>8. CASE UNCHANGED ticketVars
  BY <1>1, <1>8 DEF ticketVars
<1> QED BY <1>3, <1>4, <1>5, <1>6, <1>7, <1>8 DEF TicketsNext

----------------------------------------------------------------------------
(* The promises.                                                            *)

LEMMA TicketsInitial == TicketsInit => TicketsInv
BY CopiesInitial, LedgerInitial DEF TicketsInv

LEMMA TicketsStep == TicketsInv /\ [TicketsNext]_ticketVars => TicketsInv'
BY CopiesStep, LedgerStep DEF TicketsInv

LEMMA InvType == TicketsInv => TicketsTypeOK
<1> SUFFICES ASSUME TicketsInv PROVE TicketsTypeOK
  OBVIOUS
<1>1. \A i \in DOMAIN posted : posted[i].moves \in [Accounts -> Int]
  BY DEF TicketsInv, LedgerInv, Entered
<1> QED BY <1>1 DEF TicketsInv, CopiesInv, Consistent, TicketsTypeOK

\* Rule by rule, the constructors and the schema say the same of a slip.
LEMMA InvTerms == TicketsInv => TermsAgree
<1> SUFFICES ASSUME TicketsInv PROVE TermsAgree
  OBVIOUS
<1>1. slip \in Slips
  BY DEF TicketsInv, CopiesInv
<1>2. /\ IsFiniteSet(slip.legs) /\ slip.stake \in Nat /\ slip.accepted \in Nat
      /\ slip.kind \in {"straight", "parlay", "round_robin", "teaser"} /\ slip.points \in Int
      /\ slip.parent \in BOOLEAN
  BY <1>1, TicketsAssumption
<1> DEFINE n == Cardinality(slip.legs)
<1>3. n \in Nat /\ (n > 0 <=> slip.legs # {})
  <2>1. n \in Nat /\ (n = 0 <=> slip.legs = {})
    BY <1>2, FS_CardinalityType, FS_EmptySet
  <2> HIDE DEF n
  <2> QED BY <2>1
<1> DEFINE toward == slip.kind = "teaser" => \A l \in slip.legs : TowardsBettor(l, slip.points)
           sized == slip.kind = "round_robin" => n \in slip.sizes
<1>4. (\A l \in slip.legs : LegBuilt(l)) <=>
        /\ \A l \in slip.legs : l.role \in RolesOf(l.type)
        /\ \A l \in slip.legs : Teased(l) => l.type \in {"spread", "total"}
  BY DEF LegBuilt
<1>5. LegSetBuilt(slip.legs) <=>
        /\ n > 0 /\ n <= MaxLegs
        /\ \A a, b \in slip.legs : a # b => a.selection # b.selection /\ a.market # b.market
  BY <1>3 DEF LegSetBuilt
<1>6. CountFits(slip.kind, n) <=>
        /\ slip.kind = "straight" => n = 1
        /\ slip.kind \in {"parlay", "round_robin", "teaser"} => n >= 2
  BY <1>2 DEF CountFits
<1>7. (TeaserFits(slip) /\ toward) <=>
        /\ (slip.kind = "teaser") = (slip.points # 0)
        /\ slip.points >= 0
        /\ IF slip.kind = "teaser"
           THEN \A l \in slip.legs :
                   Teased(l) /\ Magnitude(l.teased - l.line) = slip.points /\ TowardsBettor(l, slip.points)
           ELSE \A l \in slip.legs : ~Teased(l)
  <2>1. CASE slip.kind = "teaser"
    <3>1. slip.points > 0 <=> (slip.points # 0 /\ slip.points >= 0)
      BY <1>2
    <3> QED BY <2>1, <3>1 DEF TeaserFits
  <2>2. CASE slip.kind # "teaser"
    <3>1. slip.points = 0 <=> (slip.points = 0 /\ slip.points >= 0)
      BY <1>2
    <3> QED BY <2>2, <3>1 DEF TeaserFits
  <2> QED BY <2>1, <2>2
<1>8. ParentFits(slip) <=> ((slip.kind = "round_robin") = slip.parent)
  BY DEF ParentFits
<1>9. PriceFits(slip) <=>
        slip.accepted > 4 /\ (slip.kind = "straight" => \A l \in slip.legs : l.price = slip.accepted)
  BY DEF PriceFits
<1> HIDE DEF n
<1>10. (TermsStorable(slip) /\ ShapeAtCommit(slip)) <=> (Placeable(slip) /\ toward /\ sized)
  <2>1. Placeable(slip) <=>
          /\ \A l \in slip.legs : LegBuilt(l)
          /\ LegSetBuilt(slip.legs) /\ CountFits(slip.kind, n) /\ TeaserFits(slip) /\ ParentFits(slip)
          /\ slip.stake > 0 /\ PriceFits(slip) /\ Payout(slip) # Overflow /\ Payout(slip) >= slip.stake
    BY DEF Placeable, n
  <2>2. ShapeAtCommit(slip) <=>
          /\ n > 0 /\ n <= MaxLegs
          /\ slip.kind = "straight" => n = 1
          /\ slip.kind \in {"parlay", "round_robin", "teaser"} => n >= 2
          /\ IF slip.kind = "teaser"
             THEN \A l \in slip.legs :
                     Teased(l) /\ Magnitude(l.teased - l.line) = slip.points /\ TowardsBettor(l, slip.points)
             ELSE \A l \in slip.legs : ~Teased(l)
          /\ slip.kind = "straight" => \A l \in slip.legs : l.price = slip.accepted
          /\ sized
    BY DEF ShapeAtCommit, n
  <2> HIDE DEF toward, sized
  <2> QED BY <1>4, <1>5, <1>6, <1>7, <1>8, <1>9, <2>1, <2>2 DEF TermsStorable
<1> QED BY <1>10 DEF TermsAgree, n

\* What the methods make of a stored ticket, against what the triggers compare.
LEMMA InvMethods == TicketsInv => MethodsFitSchema
<1> SUFFICES ASSUME TicketsInv, NEW h \in Hands, held[h] # NoTicket, h \notin overtaken
             PROVE  Storable(row, held[h]) <=> (row.returned = Unpaid \/ held[h].returned = row.returned)
  BY DEF MethodsFitSchema
<1>1. /\ row # NoTicket /\ Consistent(row) /\ Consistent(held[h]) /\ Descends(row, held[h])
      /\ slip \in Slips /\ Placeable(slip)
  BY DEF TicketsInv, CopiesInv
<1>2. ReturnStorable(held[h]) /\ LegsMove(row, held[h]) /\ held[h].at >= row.at
  BY <1>1 DEF Consistent, Descends
<1>3. \/ row.status = held[h].status
      \/ row.status = "placed" /\ held[h].status # "placed"
      \/ row.status = "open" /\ held[h].status \in Terminal
  BY <1>1 DEF Descends, CanTransitionTo
<1>4. ASSUME row.returned # Unpaid, held[h].returned = row.returned PROVE held[h].net = row.net
  <2>1. row.status \in Terminal /\ held[h].status \in Terminal
    BY <1>1, <1>4, ReturnFacts DEF Consistent
  <2>2. row.net = row.returned - slip.stake
    BY <1>1, <2>1, ReturnFacts DEF Consistent
  <2>3. held[h].net = held[h].returned - slip.stake
    BY <1>1, <2>1, ReturnFacts DEF Consistent
  <2> QED BY <1>4, <2>2, <2>3
<1> QED BY <1>2, <1>3, <1>4 DEF Storable, WagerMoves

LEMMA InvMoney == TicketsInv => MoneyConserved
<1> SUFFICES ASSUME TicketsInv PROVE MoneyConserved
  OBVIOUS
<1>1. Balance("cash") + Balance("escrow") + Balance("house") + Balance("issuance") = 0
  BY DEF TicketsInv, LedgerInv
<1>2. ASSUME row # NoTicket, Kinds({"adjustment"}) = {}
      PROVE  /\ Balance("escrow") = slip.stake * (1 - Cardinality(Settlements))
             /\ row.status \in Open => Balance("escrow") = slip.stake
             /\ Balance("issuance") <= 0
  <2>1. /\ Balance("escrow") = slip.stake * (1 - Cardinality(Settlements))
        /\ Balance("issuance") <= 0
    BY <1>2 DEF TicketsInv, LedgerInv, EscrowInv
  <2>2. ASSUME row.status \in Open PROVE Balance("escrow") = slip.stake
    <3>1. row.status \notin Terminal
      BY <2>2 DEF Open, Terminal, GradedStatus
    <3>2. Settlements = {}
      BY <3>1 DEF TicketsInv, LedgerInv, SettlementsAgree
    <3>3. Cardinality(Settlements) = 0
      BY <3>2, FS_EmptySet
    <3>4. slip.stake \in Nat
      BY TicketsAssumption DEF TicketsInv, CopiesInv
    <3>5. slip.stake * (1 - 0) = slip.stake
      BY <3>4
    <3> QED BY <2>1, <3>3, <3>5
  <2> QED BY <2>1, <2>2
<1> QED BY <1>1, <1>2 DEF MoneyConserved

\* Whatever the package's methods make of copies of a ticket, and in whatever order
\* they are saved: NewWager and the schema book the same slips but for the two rules
\* only the schema has, a copy nobody overtook is refused for another amount alone,
\* every settlement says what the row says, and no unit of money appears or is lost.
THEOREM TicketsSafe == TicketsSpec => []TicketsCorrect
<1>1. TicketsInv => TicketsCorrect
  <2>1. TicketsInv => SettlementsAgree
    BY DEF TicketsInv, LedgerInv
  <2> QED BY <2>1, InvType, InvTerms, InvMethods, InvMoney DEF TicketsCorrect
<1> QED BY <1>1, TicketsInitial, TicketsStep, PTL DEF TicketsSpec
=============================================================================
