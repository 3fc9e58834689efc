------------------------------ MODULE Tickets ------------------------------
(***************************************************************************)
(* One bet, twice: the value of internal/domain (wager.go, leg.go,          *)
(* ledger.go), which several processes hold copies of and move along, and   *)
(* the rows of migrations/00006_wagers_and_ledger.sql, whose CHECKs and     *)
(* triggers restate the same rules for every writer. A copy is read at one   *)
(* moment and saved at another; what others saved between is what the       *)
(* triggers are for.                                                        *)
(*                                                                         *)
(* The services that will do this (internal/betting, internal/settlement)   *)
(* are empty in this repository. What stands for them is as free as the     *)
(* package lets it be: any method, any argument, any instant, in any order. *)
(* Two things the migration's comments ask of them are kept: a wager, its    *)
(* legs and its stake are one database transaction, and so are an update of  *)
(* a ticket and the settlement posted with it.                              *)
(*                                                                         *)
(* Lines, points and prices are integers (quarters). slip is the booked     *)
(* terms, which no method of the package changes.                           *)
(***************************************************************************)
EXTENDS Money, FiniteSets

CONSTANTS
    Hands,       \* processes that hold a copy
    Slips,       \* tickets somebody may try to place
    Played,      \* those followed past their placement
    Gradings,    \* leg statuses somebody may try to grade to
    Endings,     \* ticket outcomes somebody may try to settle at
    Amounts,     \* amounts somebody may try to return
    Corrections, \* movements an operator may post, and the grants
    MaxLegs,     \* domain.MaxWagerLegs
    MaxTime,     \* BOUND: instants run from 1
    MaxPosts,    \* BOUND: ledger transactions
    NoTicket

ASSUME TicketsAssumption ==
    /\ MaxLegs \in Nat \ {0}
    /\ MaxTime \in Nat
    /\ MaxPosts \in Nat
    /\ Amounts \subseteq Nat
    /\ Endings \subseteq {"won", "lost", "void", "push"}
    /\ Gradings \subseteq {"pending", "won", "lost", "void", "push"}
    /\ Played \subseteq Slips
    /\ \A s \in Slips :
          /\ IsFiniteSet(s.legs) /\ s.stake \in Nat /\ s.accepted \in Nat
          /\ s.kind \in {"straight", "parlay", "round_robin", "teaser"}
          /\ s.points \in Int /\ s.parent \in BOOLEAN

VARIABLES
    slip,        \* the booked terms
    row,         \* wagers and legs: the stored ticket, or NoTicket
    held,        \* the copy each hand is working on, or NoTicket
    overtaken,   \* hands whose row was changed after they read it
    posted       \* the ledger: a sequence of transactions

ticketVars == <<slip, row, held, overtaken, posted>>

Open == {"placed", "open"}
GradedStatus == {"won", "lost", "void", "push"}
Terminal == GradedStatus \cup {"cashed_out"}
LegStatus == {"pending"} \cup GradedStatus
Unpaid == -1                         \* hasReturned is false; the column is NULL

----------------------------------------------------------------------------
(* What NewLeg and NewWager accept.                                         *)

Untouched == 999                     \* TeasedLine absent; teased_line is NULL
Teased(l) == l.teased # Untouched

RolesOf(type) ==
    CASE type = "moneyline" -> {"home", "away", "draw"}
      [] type = "spread" -> {"home", "away"}
      [] type = "total" -> {"over", "under"}

LegBuilt(l) == l.role \in RolesOf(l.type) /\ (Teased(l) => l.type \in {"spread", "total"})

LegSetBuilt(legs) ==
    /\ legs # {} /\ Cardinality(legs) <= MaxLegs
    /\ \A a, b \in legs : a # b => a.selection # b.selection /\ a.market # b.market

CountFits(kind, n) == IF kind = "straight" THEN n = 1 ELSE n >= 2

\* The size of the move is checked; its direction is not.
TeaserFits(s) ==
    IF s.kind = "teaser"
    THEN /\ s.points > 0
         /\ \A l \in s.legs : Teased(l) /\ Magnitude(l.teased - l.line) = s.points
    ELSE s.points = 0 /\ \A l \in s.legs : ~Teased(l)

ParentFits(s) == (s.kind = "round_robin") = s.parent

PriceFits(s) == s.accepted > 4 /\ (s.kind = "straight" => \A l \in s.legs : s.accepted = l.price)

\* The return if every leg wins, rounded under the ticket's own rule.
Payout(s) == MulFloat(s.stake, s.accepted, 4, s.rounding)

Placeable(s) ==
    /\ \A l \in s.legs : LegBuilt(l)
    /\ LegSetBuilt(s.legs)
    /\ CountFits(s.kind, Cardinality(s.legs))
    /\ TeaserFits(s)
    /\ ParentFits(s)
    /\ s.stake > 0
    /\ PriceFits(s)
    /\ Payout(s) # Overflow
    /\ Payout(s) >= s.stake

\* The ticket NewWager returns: placed, every leg pending.
NewWager(s, at) ==
    [status |-> "placed", grade |-> [l \in s.legs |-> "pending"], gradedAt |-> [l \in s.legs |-> 0],
     returned |-> Unpaid, net |-> 0, at |-> at]

----------------------------------------------------------------------------
(* What the schema accepts: CHECKs of a row, its shape at COMMIT, triggers.  *)

\* teased_line against price_line, in the customer's favour.
TowardsBettor(l, points) ==
    l.teased = IF l.role = "over" THEN l.line - points ELSE l.line + points

ShapeAtCommit(s) ==
    LET n == Cardinality(s.legs) IN
    /\ n > 0 /\ n <= MaxLegs
    /\ s.kind = "straight" => n = 1
    /\ s.kind \in {"parlay", "round_robin", "teaser"} => n >= 2
    /\ IF s.kind = "teaser"
       THEN \A l \in s.legs :
               Teased(l) /\ Magnitude(l.teased - l.line) = s.points /\ TowardsBettor(l, s.points)
       ELSE \A l \in s.legs : ~Teased(l)
    /\ s.kind = "straight" => \A l \in s.legs : l.price = s.accepted
    /\ s.kind = "round_robin" => n \in s.sizes

\* The CHECKs and keys of wagers and legs on what is booked.
TermsStorable(s) ==
    /\ \A l \in s.legs : l.role \in RolesOf(l.type)
    /\ \A l \in s.legs : Teased(l) => l.type \in {"spread", "total"}
    /\ \A a, b \in s.legs : a # b => a.selection # b.selection /\ a.market # b.market
    /\ (s.kind = "teaser") = (s.points # 0)
    /\ s.points >= 0
    /\ (s.kind = "round_robin") = s.parent
    /\ s.stake > 0 /\ s.accepted > 4
    /\ Payout(s) # Overflow /\ Payout(s) >= s.stake

ReturnStorable(w) ==
    /\ (w.status \in Terminal) = (w.returned # Unpaid)
    /\ w.returned # Unpaid => w.net = w.returned - slip.stake
    /\ w.status = "lost" => w.returned = 0
    /\ w.status \in {"void", "push"} => w.returned = slip.stake
    /\ w.status = "won" => w.returned >= slip.stake /\ w.returned <= Payout(slip)
    /\ w.status = "cashed_out" => w.returned > 0 /\ w.returned <= Payout(slip)

\* Variant: the amounts of a closed ticket may change.
WagerMoves_StatusOnly(old, new) ==
    /\ \/ old.status = new.status
       \/ old.status = "placed" /\ new.status # "placed"
       \/ old.status = "open" /\ new.status \in Terminal
    /\ new.at >= old.at

WagerMoves(old, new) ==
    /\ \/ old.status = new.status
       \/ old.status = "placed" /\ new.status # "placed"
       \/ old.status = "open" /\ new.status \in Terminal
    /\ old.returned # Unpaid => new.returned = old.returned /\ new.net = old.net
    /\ new.at >= old.at

LegsMove(old, new) ==
    \A l \in slip.legs :
        /\ old.grade[l] # new.grade[l] => old.grade[l] = "pending"
        /\ old.gradedAt[l] # 0 => new.gradedAt[l] = old.gradedAt[l]
        /\ (new.grade[l] # "pending") = (new.gradedAt[l] # 0)

Storable(old, new) == ReturnStorable(new) /\ WagerMoves(old, new) /\ LegsMove(old, new)

----------------------------------------------------------------------------
(* The ledger: what a transaction's entries move, and what is refused.       *)

Accounts == {"cash", "escrow", "house", "issuance"}
Still == [a \in Accounts |-> 0]      \* no entry: a zero one is dropped or refused

Sum(moves) == moves["cash"] + moves["escrow"] + moves["house"] + moves["issuance"]

\* NewTransaction and the trigger at COMMIT: two entries at least, sum zero.
Balanced(moves) == Cardinality({a \in Accounts : moves[a] # 0}) >= 2 /\ Sum(moves) = 0

ASSUME CorrectionsAssumption ==
    \A c \in Corrections : c.from \in Accounts /\ c.to \in Accounts /\ c.amount \in 0 .. MaxSafe

Transfer(from, to, amount) == [Still EXCEPT ![from] = Neg(amount), ![to] = amount]

Settlement(w) ==
    [cash |-> w.returned, escrow |-> Neg(slip.stake), house |-> Sub(slip.stake, w.returned),
     issuance |-> 0]

SettlementKind(status) ==
    CASE status = "won" -> "payout"
      [] status = "lost" -> "loss"
      [] status \in {"void", "push"} -> "refund"
      [] status = "cashed_out" -> "cash_out"

Posts(kind, moves) ==
    /\ Cardinality(DOMAIN posted) < MaxPosts
    /\ Balanced(moves)
    /\ posted' = [i \in 1 .. (Cardinality(DOMAIN posted) + 1) |->
                    IF i \in DOMAIN posted THEN posted[i] ELSE [kind |-> kind, moves |-> moves]]

Kinds(ks) == {i \in DOMAIN posted : posted[i].kind \in ks}
Settlements == Kinds({"payout", "loss", "refund", "cash_out"})

\* Balance and Balances: a sum over the entries in their order, stored nowhere.
BalanceOf(ledger, a) ==
    LET size == Cardinality(DOMAIN ledger)
        upTo[n \in 0 .. size] == IF n = 0 THEN 0 ELSE upTo[n - 1] + ledger[n].moves[a]
    IN upTo[size]
Balance(a) == BalanceOf(posted, a)

----------------------------------------------------------------------------
TicketsInit ==
    /\ slip \in Slips
    /\ row = NoTicket
    /\ held = [h \in Hands |-> NoTicket]
    /\ overtaken = {}
    /\ posted = <<>>

\* The wager, its legs and its stake, in one database transaction.
Places(at) ==
    /\ row = NoTicket
    /\ slip \in Played
    /\ Placeable(slip) /\ TermsStorable(slip) /\ ShapeAtCommit(slip)
    /\ row' = NewWager(slip, at)
    /\ Posts("stake", Transfer("cash", "escrow", slip.stake))
    /\ UNCHANGED <<slip, held, overtaken>>

Grants(amount) ==
    /\ amount > 0
    /\ Posts("grant", Transfer("issuance", "cash", amount))
    /\ UNCHANGED <<slip, row, held, overtaken>>

Adjusts(from, to, amount) ==
    /\ from # to /\ amount > 0
    /\ Posts("adjustment", Transfer(from, to, amount))
    /\ UNCHANGED <<slip, row, held, overtaken>>

Loads(h) ==
    /\ row # NoTicket
    /\ held[h] = NoTicket
    /\ held' = [held EXCEPT ![h] = row]
    /\ UNCHANGED <<slip, row, overtaken, posted>>

\* WagerStatus.CanTransitionTo
CanTransitionTo(s, t) ==
    s = t \/ (s = "placed" /\ t \in {"open"} \cup Terminal) \/ (s = "open" /\ t \in Terminal)

\* Wager.stamp: an instant before the last one is refused.
Stamped(h, at) == held[h] # NoTicket /\ at > 0 /\ at >= held[h].at

\* A method hands back a changed copy.
Holds(h, w) == held' = [held EXCEPT ![h] = w] /\ UNCHANGED <<slip, row, overtaken, posted>>

Opens(h, at) ==
    /\ Stamped(h, at)
    /\ CanTransitionTo(held[h].status, "open")
    /\ Holds(h, [held[h] EXCEPT !.status = "open", !.at = at])

\* Variant: a leg graded again takes the new time.
Grades_Restamped(h, l, s, at) ==
    /\ Stamped(h, at)
    /\ held[h].status \notin Terminal
    /\ held[h].grade[l] \in {"pending", s}
    /\ Holds(h, [held[h] EXCEPT !.grade[l] = s, !.gradedAt[l] = at, !.at = at])

\* Leg.WithStatus keeps the first grading time of a leg graded again.
Grades(h, l, s, at) ==
    /\ Stamped(h, at)
    /\ held[h].status \notin Terminal
    /\ held[h].grade[l] \in {"pending", s}
    /\ Holds(h, [held[h] EXCEPT
                   !.grade[l] = s,
                   !.gradedAt[l] = IF held[h].grade[l] = s THEN @ ELSE at,
                   !.at = at])

ReturnFits(outcome, returned) ==
    /\ outcome = "lost" => returned = 0
    /\ outcome \in {"void", "push"} => returned = slip.stake
    /\ outcome = "won" => returned >= slip.stake /\ returned <= Payout(slip)

\* Wager.settleAt
Closed(w, outcome, returned, at) ==
    [w EXCEPT !.status = outcome, !.returned = returned, !.net = Sub(returned, slip.stake), !.at = at]

Settles(h, outcome, returned, at) ==
    /\ Stamped(h, at)
    /\ outcome \in GradedStatus
    /\ CanTransitionTo(held[h].status, outcome)
    /\ ReturnFits(outcome, returned)
    /\ Sub(returned, slip.stake) # Overflow
    /\ Holds(h, Closed(held[h], outcome, returned, at))

CashesOut(h, amount, at) ==
    /\ Stamped(h, at)
    /\ CanTransitionTo(held[h].status, "cashed_out")
    /\ amount > 0 /\ amount <= Payout(slip)
    /\ Sub(amount, slip.stake) # Overflow
    /\ Holds(h, Closed(held[h], "cashed_out", amount, at))

\* The copy is dropped once its database transaction has been tried.
Saves(h) ==
    /\ held[h] # NoTicket
    /\ Storable(row, held[h])
    /\ row' = held[h]
    /\ \/ UNCHANGED posted
       \/ /\ held[h].returned # Unpaid
          /\ Posts(SettlementKind(held[h].status), Settlement(held[h]))
    /\ held' = [held EXCEPT ![h] = NoTicket]
    /\ overtaken' =
          (IF row' = row THEN overtaken ELSE {g \in Hands : held[g] # NoTicket}) \ {h}
    /\ UNCHANGED slip

Refused(h) ==
    /\ held[h] # NoTicket
    /\ ~Storable(row, held[h])
    /\ held' = [held EXCEPT ![h] = NoTicket]
    /\ overtaken' = overtaken \ {h}
    /\ UNCHANGED <<slip, row, posted>>

\* BOUND: a grant or a correction, which commutes with all that is done to a
\* copy, is posted only while no hand holds one.
Quiet == \A h \in Hands : held[h] = NoTicket

TicketsNext ==
    \/ \E at \in 1 .. MaxTime : Places(at)
    \/ /\ Quiet
       /\ \E c \in Corrections : Grants(c.amount) \/ Adjusts(c.from, c.to, c.amount)
    \/ \E h \in Hands :
          \/ Loads(h) \/ Saves(h) \/ Refused(h)
          \/ \E at \in 0 .. MaxTime :
                \/ Opens(h, at)
                \/ \E l \in slip.legs, s \in Gradings : Grades(h, l, s, at)
                \/ \E a \in Amounts, s \in Endings : Settles(h, s, a, at)
                \/ \E a \in Amounts : CashesOut(h, a, at)

TicketsSpec == TicketsInit /\ [][TicketsNext]_ticketVars

----------------------------------------------------------------------------
TicketsOf(s) ==
    [status : Open \cup Terminal, grade : [s.legs -> LegStatus], gradedAt : [s.legs -> Nat],
     returned : Int, net : Int, at : Nat]
TicketType == TicketsOf(slip)

ASSUME NoTicketAssumption == \A s \in Slips : NoTicket \notin TicketsOf(s)

TicketsTypeOK ==
    /\ slip \in Slips
    /\ row \in TicketType \cup {NoTicket}
    /\ held \in [Hands -> TicketType \cup {NoTicket}]
    /\ overtaken \subseteq {h \in Hands : held[h] # NoTicket}
    /\ \A i \in DOMAIN posted : posted[i].moves \in [Accounts -> Int]

\* NewWager and the schema accept the same slips, but for two rules only the
\* schema has: a teased line moves in the customer's favour (validateTeaser
\* measures the distance alone) and the ticket of a round robin has one of the
\* sizes its parent declared.
TermsAgree ==
    (TermsStorable(slip) /\ ShapeAtCommit(slip))
      <=> /\ Placeable(slip)
          /\ slip.kind = "teaser" => \A l \in slip.legs : TowardsBettor(l, slip.points)
          /\ slip.kind = "round_robin" => Cardinality(slip.legs) \in slip.sizes

\* A copy that nobody overtook is refused for one reason only: it returns
\* another amount than the row already records. Everything else the package's
\* methods can make of a stored ticket, in any order and any number of times,
\* redelivered results among it, passes every CHECK and trigger.
MethodsFitSchema ==
    \A h \in Hands :
        (held[h] # NoTicket /\ h \notin overtaken) =>
            (Storable(row, held[h]) <=> (row.returned = Unpaid \/ held[h].returned = row.returned))

\* However copies overtake each other, every settlement on the ledger says
\* what the ticket's row says: its kind, the amount returned, the stake out of
\* escrow, and the house's part the customer's net return with the sign turned.
SettlementsAgree ==
    \A i \in Settlements :
        LET m == posted[i].moves IN
        /\ row.status \in Terminal
        /\ posted[i].kind = SettlementKind(row.status)
        /\ m["cash"] = row.returned
        /\ m["escrow"] = -slip.stake
        /\ m["house"] = -row.net

\* The ledger sums to zero over all accounts, and, corrections aside, the
\* customer's escrow is the stake once for the ticket less once for each
\* settlement posted: at most the stake, and the stake while the ticket runs.
MoneyConserved ==
    /\ Balance("cash") + Balance("escrow") + Balance("house") + Balance("issuance") = 0
    /\ (row # NoTicket /\ Kinds({"adjustment"}) = {}) =>
          /\ Balance("escrow") = slip.stake * (1 - Cardinality(Settlements))
          /\ row.status \in Open => Balance("escrow") = slip.stake
          /\ Balance("issuance") <= 0

TicketsCorrect ==
    TicketsTypeOK /\ TermsAgree /\ MethodsFitSchema /\ SettlementsAgree /\ MoneyConserved

\* "A settled ticket ... cannot be re-settled at a different amount"
\* (wager.go): a copy of a closed ticket keeps the amount it was closed at.
ClosedKeepsItsAmount ==
    \A h \in Hands :
        (held[h] # NoTicket /\ h \notin overtaken /\ row.returned # Unpaid)
            => held[h].returned = row.returned
=============================================================================
