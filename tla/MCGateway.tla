----------------------------- MODULE MCGateway -----------------------------
(* Small instances of Gateway: markets that stay on one event and one league. *)
EXTENDS Gateway, TLC

CONSTANTS m1, e1, l1, p1

MCMarkets == {m1}
MCRoutes == [m \in MCMarkets |-> {[event |-> e1, league |-> l1]}]

\* Every document has the same instant, so none is stale.
MCRecords ==
    [n \in 1..MaxFolds |-> {d \in Documents : d.obs = 1 /\ d.docObs = 1}
                             \cup {d \in Tombstones : d.obs = 0}]

\* Connections are interchangeable, and no property names one.
MCSymmetry == Permutations(Conns)

MCOneChannel == {LeagueChannel(l1)}
MCChannels == {MarketChannel(m1), LeagueChannel(l1)}
=============================================================================
