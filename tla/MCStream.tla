------------------------------ MODULE MCStream ------------------------------
(* Small instances of StreamClient, over one market of one league.            *)
EXTENDS StreamClient, TLC

CONSTANTS m1, e1, l1

MCMarkets == {m1}
MCRoutes == [m \in MCMarkets |-> {[event |-> e1, league |-> l1]}]

\* The n-th record carries payload n; one instant, so none is stale.
MCPayloads == 1..MaxFolds
MCRecords ==
    [n \in 1..MaxFolds |-> {d \in Documents : d.obs = 1 /\ d.docObs = 1 /\ d.payload = n}]

MCLeagueChannel == {LeagueChannel(l1)}
\* BOUND: two calls are made only of a stream nobody closes.
MCBounded == closer.at # "no" => asked <= 1

\* Connections are interchangeable: one of them is always the first.
MCFirst == CHOOSE c \in Conns : TRUE
MCInTurn == (\E c \in Conns : phase[c] # "idle") => phase[MCFirst] # "idle"
MCStreamSpec ==
    StreamInit /\ [][StreamNext /\ MCBounded' /\ MCInTurn']_streamGatewayVars /\ StreamFairness
=============================================================================
