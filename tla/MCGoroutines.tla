---------------------------- MODULE MCGoroutines ----------------------------
(***************************************************************************)
(* Three sets of goroutines that share a lock and nothing with each other:   *)
(* the four of one connection of the gateway (Conn), the planner and the     *)
(* runners of one poller (Sweeps), and the callers of one session of the SDK *)
(* (Keeper). A behaviour is of one of them, with the others at rest.         *)
(*                                                                         *)
(* The poller sweeps one league of one event, by runners of two generations: *)
(* the event's market is there with one of two contents, or is not listed.   *)
(***************************************************************************)
EXTENDS Conn, Sweeps, Keeper, TLC

CONSTANTS l1, e1, m1, x, y, g1, g2

VARIABLE process

Answering(c) == [e \in {e1} |-> [m \in {m1} |-> c]]

\* The two contents are interchangeable.
MCSymmetry == Permutations(Contents)

MCAnswers == [l \in {l1} |-> {Answering(x), Answering(y), Answering(Nothing)}]
MCLeagueOf == [e \in {e1} |-> l1]
MCReadings == {Nothing, 0}

GoroutinesInit ==
    /\ process \in {"gateway", "poller", "sdk"}
    /\ Init
    /\ SweepsInit
    /\ KeeperInit /\ (process # "sdk" => fresh)

GoroutinesNext ==
    \/ process = "gateway" /\ Next /\ UNCHANGED <<process, sweepsVars, keeperVars>>
    \/ process = "poller" /\ SweepsNext /\ UNCHANGED <<process, vars, keeperVars>>
    \/ process = "sdk" /\ KeeperNext /\ UNCHANGED <<process, vars, sweepsVars>>

GoroutinesSpec == GoroutinesInit /\ [][GoroutinesNext]_<<process, vars, sweepsVars, keeperVars>>
=============================================================================
