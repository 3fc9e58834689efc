------------------------------- MODULE Limits -------------------------------
(***************************************************************************)
(* The self-imposed limits of httpapi/pgstore: one user, one kind and        *)
(* period. A change is one READ COMMITTED transaction: read the row that is  *)
(* open, decide whether the new value is looser, close the row, insert the   *)
(* successor, audit. The partial unique index and the row lock are the only  *)
(* things two requests meet at.                                             *)
(*                                                                         *)
(* An instant of a request is taken before its transaction begins, so two    *)
(* requests may reach the table in the other order.                         *)
(***************************************************************************)
EXTENDS Naturals, Sequences

CONSTANTS
    Changers,       \* requests under way at the same time
    Caps,           \* amounts, or session durations: the lower the tighter
    Removed,        \* "no limit"
    Cooling,
    MaxClock,       \* bound of the clock
    MaxChanges      \* bound: changes asked for

ASSUME LimitsAssumption ==
    /\ Caps \subseteq Nat /\ Removed \notin Caps
    /\ Cooling \in Nat \ {0}
    /\ MaxClock \in Nat /\ MaxChanges \in Nat

VARIABLES
    clock,
    history,    \* user_limits: [cap, asked, from, closed], closed = 0 while it is open,
                \* else the instant + 1
    trail,      \* audit_log: rows of history before and after, 0 for none
    change,     \* request -> its transaction
    asked       \* changes asked for so far

limitVars == <<clock, history, trail, change, asked>>

Resting == [at |-> "rest", cap |-> Removed, asked |-> 0, seen |-> 0]

Unclosed == {i \in DOMAIN history : history[i].closed = 0}
IsRemoval(c) == change[c].cap = Removed

\* isLoosening, on the row the transaction read.
Looser(cap, than) == than # Removed /\ (cap = Removed \/ cap > than)
Loosens(c) == change[c].seen # 0 /\ Looser(change[c].cap, history[change[c].seen].cap)

-----------------------------------------------------------------------------
(* Set *)

To(c, at) == change' = [change EXCEPT ![c].at = at]

\* handleSetLimit: the body is valid, auditContext takes the instant.
AsksFor(c, cap) ==
    /\ change[c].at = "rest"
    /\ asked < MaxChanges
    /\ asked' = asked + 1
    /\ change' = [change EXCEPT ![c] = [at |-> "read", cap |-> cap, asked |-> clock, seen |-> 0]]
    /\ UNCHANGED <<clock, history, trail>>

\* GetCurrentUserLimit.
ReadsOpen(c) ==
    /\ change[c].at = "read"
    /\ change' = [change EXCEPT ![c].seen = IF Unclosed = {} THEN 0 ELSE CHOOSE i \in Unclosed : TRUE,
                                ![c].at = IF Unclosed = {} THEN "insert" ELSE "close"]
    /\ UNCHANGED <<clock, history, trail, asked>>

\* A transaction past its UPDATE has the row locked; one past its INSERT has an
\* entry in the index. Both until it ends.
Locks(c) == IF change[c].at \in {"insert", "commit"} THEN {change[c].seen} \ {0} ELSE {}
Enters(c) == change[c].at = "commit" /\ ~IsRemoval(c)
Others(c) == Changers \ {c}

\* SupersedeUserLimit found the row closed, so somebody else was first.
\* Variant: the count of rows is not looked at.
Overtaken_Never(c) == FALSE

Overtaken(c) == history[change[c].seen].closed # 0

\* user_limits_superseded_after_request refuses an instant before the row's own.
Closes(c) ==
    /\ change[c].at = "close"
    /\ \A d \in Others(c) : change[c].seen \notin Locks(d)
    /\ IF Overtaken(c) \/ change[c].asked < history[change[c].seen].asked
         THEN To(c, "rest")
         ELSE To(c, IF IsRemoval(c) THEN "commit" ELSE "insert")
    /\ UNCHANGED <<clock, history, trail, asked>>

\* user_limits_current_key: an entry of another transaction is waited for, and so is
\* the closing of a row that is not its own.
\* Variant: the index does not say UNIQUE.
Occupied_Never(c) == FALSE

Occupied(c) == Unclosed \ {change[c].seen} # {}

InsertsRow(c) ==
    /\ change[c].at = "insert"
    /\ IF IsRemoval(c) THEN To(c, "commit")     \* nothing to remove, nothing to write
       ELSE /\ \A d \in Others(c) : ~Enters(d) /\ Locks(d) = {}
            /\ To(c, IF Occupied(c) THEN "rest" ELSE "commit")
    /\ UNCHANGED <<clock, history, trail, asked>>

\* The audit entry is written in the same transaction.
WithClosed(c) ==
    [i \in DOMAIN history |-> IF i = change[c].seen /\ history[i].closed = 0
                              THEN [history[i] EXCEPT !.closed = change[c].asked + 1]
                              ELSE history[i]]

NewRow(c) ==
    [cap |-> change[c].cap, asked |-> change[c].asked, closed |-> 0,
     from |-> change[c].asked + (IF Loosens(c) THEN Cooling ELSE 0)]

CommitsChange(c) ==
    /\ change[c].at = "commit"
    /\ history' = IF IsRemoval(c) THEN WithClosed(c) ELSE Append(WithClosed(c), NewRow(c))
    /\ trail' = Append(trail, [before |-> change[c].seen,
                               after |-> IF IsRemoval(c) THEN 0 ELSE Len(history) + 1])
    /\ change' = [change EXCEPT ![c] = Resting]
    /\ UNCHANGED <<clock, asked>>

\* A statement fails, the request is cancelled, the process dies.
Abandons(c) ==
    /\ change[c].at # "rest"
    /\ change' = [change EXCEPT ![c] = Resting]
    /\ UNCHANGED <<clock, history, trail, asked>>

ClockTicks ==
    /\ clock < MaxClock
    /\ clock' = clock + 1
    /\ UNCHANGED <<history, trail, change, asked>>

LimitsInit ==
    /\ clock = 0
    /\ history = <<>> /\ trail = <<>>
    /\ change = [c \in Changers |-> Resting]
    /\ asked = 0

LimitsNext ==
    \/ \E c \in Changers :
        \/ \E cap \in Caps \cup {Removed} : AsksFor(c, cap)
        \/ ReadsOpen(c) \/ Closes(c) \/ InsertsRow(c) \/ CommitsChange(c) \/ Abandons(c)
    \/ ClockTicks

LimitsSpec == LimitsInit /\ [][LimitsNext]_limitVars

-----------------------------------------------------------------------------
(* Properties *)

LimitsTypeOK ==
    /\ clock \in 0 .. MaxClock /\ asked \in 0 .. MaxChanges
    /\ \A i \in DOMAIN history : history[i].cap \in Caps
    /\ \A c \in Changers : change[c].at \in {"rest", "read", "close", "insert", "commit"}
                           /\ change[c].seen \in 0 .. Len(history)

\* Exactly one limit of a kind is open, or none.
OneOpen == \A i, j \in Unclosed : i = j

\* The audit log is the history: every change was made to what the one before it
\* left, and the last left what is there. No change is lost to, or recorded over,
\* one that was made at the same time. (The entry of a removal that found nothing,
\* with no row before and none after, is not of a change.)
Changing == {n \in DOMAIN trail : trail[n].before # 0 \/ trail[n].after # 0}
Left(n) ==
    LET earlier == {m \in Changing : m < n} IN
    IF earlier = {} THEN 0 ELSE trail[CHOOSE m \in earlier : \A k \in earlier : k <= m].after
TrailIsHistory ==
    /\ \A n \in Changing : trail[n].before = Left(n)
    /\ Unclosed = {Left(Len(trail) + 1)} \ {0}

\* Whether a limit had to wait was decided on the very limit it replaced.
DecidedOnWhatItReplaced ==
    \A n \in DOMAIN trail :
        LET was == trail[n].before
            is == trail[n].after IN
        is # 0 => history[is].from - history[is].asked =
                    IF was # 0 /\ Looser(history[is].cap, history[was].cap) THEN Cooling ELSE 0

LimitsCorrect == LimitsTypeOK /\ OneOpen /\ TrailIsHistory /\ DecidedOnWhatItReplaced

\* What the account's page calls in force: Current and wireLimit.
InForce ==
    LET binding == {i \in Unclosed : history[i].from <= clock} IN
    IF binding = {} THEN Removed ELSE history[CHOOSE i \in binding : TRUE].cap

\* "Tightening binds immediately; loosening - raising a money cap, lengthening a
\* session cap, or removing a limit entirely - serves a cooling-off period": what is
\* in force is never looser because of a request just made. Does not hold: a removal
\* closes the row and writes no successor, and a raise closes it at once with the
\* successor still to come into force.
LooseningWaits == [][clock' = clock => ~Looser(InForce', InForce)]_limitVars
=============================================================================
