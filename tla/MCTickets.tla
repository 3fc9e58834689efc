----------------------------- MODULE MCTickets -----------------------------
(* Slips to place, most of them wrong in some way, and the one played on.    *)
EXTENDS Tickets

Leg(market, selection, type, role, line, teased) ==
    [market |-> market, selection |-> selection, type |-> type, role |-> role, line |-> line,
     teased |-> teased, price |-> 6]

\* Legs that agree and clash on market and selection, fit their market's type
\* or not, and are teased towards the customer, away, too far or not at all.
MCLegs ==
    { Leg(1, 1, "spread", "home", 2, Untouched), Leg(1, 1, "spread", "home", 2, 6),
      Leg(1, 2, "spread", "away", -2, Untouched), Leg(2, 3, "total", "over", 8, 4),
      Leg(2, 3, "total", "over", 8, 12), Leg(2, 4, "total", "under", 8, Untouched),
      Leg(3, 5, "moneyline", "home", 0, 4), Leg(3, 5, "moneyline", "over", 0, Untouched),
      Leg(4, 1, "total", "over", 8, 3) }

MCPlayed ==
    { [kind |-> "straight", legs |-> {Leg(1, 1, "spread", "home", 2, Untouched)}, points |-> 0,
       parent |-> FALSE, sizes |-> {2}, stake |-> 2, accepted |-> 6, rounding |-> "toward_zero"] }

\* Three legs are one too many for MaxLegs; most of these slips are refused.
MCSlips ==
    MCPlayed \cup
    [kind : {"straight", "parlay", "round_robin", "teaser"},
     legs : {s \in SUBSET MCLegs : Cardinality(s) <= 3},
     points : {0, 4}, parent : BOOLEAN, sizes : {{2}, {3}}, stake : {2}, accepted : {6, 7},
     rounding : {"toward_zero"}]

MCCorrections == {[from |-> "house", to |-> "cash", amount |-> 1]}
=============================================================================
