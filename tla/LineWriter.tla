----------------------------- MODULE LineWriter -----------------------------
(***************************************************************************)
(* internal/ingest/writer: odds.normalized in, the catalogue and the         *)
(* append-only prices table out. A record is one transaction: the rows of    *)
(* its spine are upserted one after the other, then its quotes inserted. Row *)
(* locks are held until the transaction ends, at READ COMMITTED: whoever     *)
(* waited decides on the version the other left.                            *)
(*                                                                         *)
(* The group (Delivery has it in detail) may hand any record to any writer   *)
(* again: after a failure, a crash or a rebalance, also while a member that  *)
(* lost the partition is still writing. Under ErrorPolicySkip a record that  *)
(* failed is not. A tombstone writes nothing.                               *)
(***************************************************************************)
EXTENDS Naturals, Sequences, FiniteSets

CONSTANTS
    Writers,
    Feed,           \* record -> [sport, league, event, market, books, selections, at, good]
    MaxAgain,       \* bound: deliveries of records that were delivered before
    NoRow

ASSUME WriterAssumption ==
    /\ MaxAgain \in Nat
    /\ NoRow \notin DOMAIN Feed
    /\ \A r \in DOMAIN Feed :
        {Feed[r].books, Feed[r].selections} \subseteq Seq(Nat) /\ Feed[r].at \in Nat

Records == DOMAIN Feed

VARIABLES
    rows,       \* catalogue row -> the record it was last written by, or NoRow
    stored,     \* natural key -> rows of prices under it
    tx,         \* writer -> its transaction
    offered,    \* records delivered so far
    again,      \* how often one of them was delivered again
    handled,    \* records whose handler has returned nil
    committed   \* records whose transaction has committed

writerVars == <<rows, stored, tx, offered, again, handled, committed>>

Elements(s) == {s[i] : i \in 1 .. Len(s)}
Ascending(S) ==
    CHOOSE s \in [1 .. Cardinality(S) -> S] : \A i, j \in DOMAIN s : i < j => s[i] < s[j]

\* A row of the catalogue is its table and its identifier.
RowsOf(table, ids) == [i \in DOMAIN ids |-> <<table, ids[i]>>]

\* Variant: books and selections in the order of the provider's listing.
SpineOf_AsListed(r) ==
    << <<"sport", Feed[r].sport>>, <<"league", Feed[r].league>>,
       <<"event", Feed[r].event>>, <<"market", Feed[r].market>> >>
      \o RowsOf("book", Feed[r].books) \o RowsOf("selection", Feed[r].selections)

\* The statements of upsertCatalogue, row by row; the normalizer sorted the sets.
SpineOf(r) ==
    << <<"sport", Feed[r].sport>>, <<"league", Feed[r].league>>,
       <<"event", Feed[r].event>>, <<"market", Feed[r].market>> >>
      \o RowsOf("book", Ascending(Elements(Feed[r].books)))
      \o RowsOf("selection", Ascending(Elements(Feed[r].selections)))

Spines == [r \in Records |-> SpineOf(r)]
RowsIn == [r \in Records |-> Elements(Spines[r])]
Rows == UNION {RowsIn[r] : r \in Records}
TimedTables == {"event", "market"}

\* Every selection is quoted at every book, at the instant of the observation.
QuotesOf(r) == Elements(Feed[r].selections) \X Elements(Feed[r].books) \X {Feed[r].at}
Quotes == [r \in Records |-> QuotesOf(r)]
NaturalKeys == UNION {Quotes[r] : r \in Records}

-----------------------------------------------------------------------------
(* The transaction *)

NoTx == [rec |-> NoRow, step |-> 0, puts |-> {}, inserts |-> {}]
Idle(w) == tx[w].rec = NoRow
Spine(w) == Spines[tx[w].rec]
Locked(w) == IF Idle(w) THEN {} ELSE {Spine(w)[i] : i \in DOMAIN Spine(w) \cap (1 .. tx[w].step)}

\* What w is about to lock, and whether somebody else holds it.
Upserting(w) == ~Idle(w) /\ tx[w].step < Len(Spine(w))
Wanted(w) == Spine(w)[tx[w].step + 1]
WaitsFor(w, v) == w # v /\ Upserting(w) /\ Wanted(w) \in Locked(v)

Delivered(r) ==
    /\ r \in offered => again < MaxAgain
    /\ offered' = offered \cup {r}
    /\ again' = IF r \in offered THEN again + 1 ELSE again

Begins(w, r) ==
    /\ Idle(w)
    /\ Feed[r].good
    /\ Delivered(r)
    /\ tx' = [tx EXCEPT ![w] = [NoTx EXCEPT !.rec = r]]
    /\ UNCHANGED <<rows, stored, handled, committed>>

\* resolve refuses the record: an error, and nothing is written.
Rejects(w, r) ==
    /\ Idle(w)
    /\ ~Feed[r].good
    /\ Delivered(r)
    /\ UNCHANGED <<rows, stored, tx, handled, committed>>

\* The guards of ON CONFLICT DO UPDATE. Only events and markets carry an instant.
Distinct(held, r) == held # r
\* Variant: without the guard on the instant.
Newer_Any(row, held, r) == TRUE

Newer(row, held, r) == row[1] \in TimedTables => Feed[r].at >= Feed[held].at

\* One row. The lock is taken whether or not the update is declined.
Upserts(w) ==
    /\ Upserting(w)
    /\ \A v \in Writers : ~WaitsFor(w, v)
    /\ LET r == tx[w].rec
           held == rows[Wanted(w)]
           writes == held = NoRow \/ (Newer(Wanted(w), held, r) /\ Distinct(held, r))
       IN tx' = [tx EXCEPT ![w].step = @ + 1,
                           ![w].puts = IF writes THEN @ \cup {Wanted(w)} ELSE @]
    /\ UNCHANGED <<rows, stored, offered, again, handled, committed>>

Pending(w) == UNION {tx[v].inserts : v \in Writers \ {w}}

\* Variant: INSERT without a conflict clause, on a table without the index.
NotStored_All(r) == Quotes[r]

\* ON CONFLICT DO NOTHING: only the quotes whose natural key is not there.
NotStored(r) == {q \in Quotes[r] : stored[q] = 0}

\* insertPrices; a key that another transaction is inserting is waited for.
InsertPrices(w) ==
    /\ ~Idle(w)
    /\ tx[w].step = Len(Spine(w))
    /\ Quotes[tx[w].rec] \cap Pending(w) = {}
    /\ tx' = [tx EXCEPT ![w].step = @ + 1, ![w].inserts = NotStored(tx[w].rec)]
    /\ UNCHANGED <<rows, stored, offered, again, handled, committed>>

Installs(w) ==
    /\ ~Idle(w)
    /\ tx[w].step > Len(Spine(w))
    /\ rows' = [row \in Rows |-> IF row \in tx[w].puts THEN tx[w].rec ELSE rows[row]]
    /\ stored' = [q \in NaturalKeys |-> IF q \in tx[w].inserts THEN stored[q] + 1 ELSE stored[q]]
    /\ committed' = committed \cup {tx[w].rec}
    /\ tx' = [tx EXCEPT ![w] = NoTx]

CommitsRows(w) ==
    /\ Installs(w)
    /\ handled' = handled \cup {tx[w].rec}
    /\ UNCHANGED <<offered, again>>

\* The server committed and its answer was lost (08007): an error to the consumer.
CommitUnknown(w) ==
    /\ Installs(w)
    /\ UNCHANGED <<offered, again, handled>>

\* flushTimeout, a refused statement, a lost connection: InTx rolls back and the
\* consumer gets an error. Or the process ends, and the server rolls back.
RollsBack(w) ==
    /\ ~Idle(w)
    /\ tx' = [tx EXCEPT ![w] = NoTx]
    /\ UNCHANGED <<rows, stored, offered, again, handled, committed>>

WriterInit ==
    /\ rows = [row \in Rows |-> NoRow]
    /\ stored = [q \in NaturalKeys |-> 0]
    /\ tx = [w \in Writers |-> NoTx]
    /\ offered = {} /\ again = 0
    /\ handled = {} /\ committed = {}

WriterNext ==
    \E w \in Writers :
        \/ \E r \in Records : Begins(w, r) \/ Rejects(w, r)
        \/ Upserts(w) \/ InsertPrices(w)
        \/ CommitsRows(w) \/ CommitUnknown(w) \/ RollsBack(w)

WriterSpec == WriterInit /\ [][WriterNext]_writerVars

-----------------------------------------------------------------------------
(* Properties *)

WriterTypeOK ==
    /\ rows \in [Rows -> Records \cup {NoRow}]
    /\ stored \in [NaturalKeys -> Nat]
    /\ committed \subseteq {r \in Records : Feed[r].good}
    /\ handled \subseteq committed
    /\ \A v, w \in Writers : v # w => Locked(v) \cap Locked(w) = {}

\* Whatever was redelivered and in whatever order: an event and a market show the
\* newest of the observations that were committed. A replayed record never rolls a
\* live event back.
NewestShown ==
    \A row \in Rows :
        LET touching == {r \in committed : row \in RowsIn[r]} IN
        /\ (rows[row] = NoRow) = (touching = {})
        /\ (row[1] \in TimedTables /\ touching # {}) =>
               /\ rows[row] \in touching
               /\ \A r \in touching : Feed[r].at <= Feed[rows[row]].at

\* A handler that returned nil claimed durability, however often the record was
\* delivered: its quotes are there, once each. Nothing that was not committed is.
QuotesOnce ==
    /\ \A q \in NaturalKeys : stored[q] <= 1
    /\ \A r \in handled : \A q \in Quotes[r] : stored[q] = 1
    /\ \A q \in NaturalKeys : stored[q] = 1 => \E r \in committed : q \in Quotes[r]

\* No quote without the selection and the book it refers to.
ParentsExist ==
    \A q \in NaturalKeys : stored[q] > 0 =>
        rows[<<"selection", q[1]>>] # NoRow /\ rows[<<"book", q[2]>>] # NoRow

\* Two transactions never wait for each other: the rows are locked in one order.
NoCircularWait == \A v, w \in Writers : ~(WaitsFor(v, w) /\ WaitsFor(w, v))

WriterCorrect ==
    /\ WriterTypeOK
    /\ NewestShown
    /\ QuotesOnce
    /\ ParentsExist
    /\ NoCircularWait
=============================================================================
