------------------------------ MODULE MCBoard ------------------------------
(* Small instances of BoardClient.  The n-th record of the topic carries       *)
(* payload n, so that of two documents the later one is the greater.           *)
EXTENDS BoardClient

CONSTANTS m1, e1, l1, l2

MCMarkets == {m1}
MCPayloads == 1..MaxFolds
MCRoutes == [m \in MCMarkets |-> {[event |-> e1, league |-> l1]}]

\* A market a provider moves from one league to another.
MCMovingRoutes == [m \in MCMarkets |-> {[event |-> e1, league |-> l] : l \in {l1, l2}}]

\* The n-th record carries payload n; one instant, so none is stale.
MCRecords ==
    [n \in 1..MaxFolds |->
        {d \in Documents : d.obs = 1 /\ d.docObs = 1 /\ d.payload = n}
          \cup {d \in Tombstones : d.obs = 0}]

MCChannels == {MarketChannel(m1), LeagueChannel(l1)}
MCLeagueChannel == {LeagueChannel(l1)}

\* BOUND: after a reconnection at most one record is folded.
MCBounded == (\A c \in Conns : phase[c] # "idle") => folds <= 1

\* Connections are interchangeable: one of them is always the first.
MCFirst == CHOOSE c \in Conns : TRUE
MCInTurn == (\E c \in Conns : phase[c] # "idle") => phase[MCFirst] # "idle"
MCBoardSpec == BoardInit /\ [][BoardNext /\ MCBounded' /\ MCInTurn']_boardGatewayVars /\ BoardFairness
=============================================================================
