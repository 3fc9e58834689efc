------------------------------ MODULE MCStores ------------------------------
(***************************************************************************)
(* What is kept in one place and changed by steps that are atomic, each by   *)
(* itself: the slate in a replica's memory (Slate, a mutex), the sessions in *)
(* Redis (Presence, scripts), a compacted topic (Replay, read from its       *)
(* start; Pricer, one of its keys), and tables of Postgres (Tickets,         *)
(* LineWriter, Limits, Pages: statements, row locks, triggers). And the      *)
(* amounts all money goes through (Money, RoundRobin). A behaviour is of one *)
(* of them, with the others at rest.                                        *)
(***************************************************************************)
EXTENDS Slate, Presence, MCTickets, MCReplay, LineWriter, Pricer, Limits, MCPages, RoundRobin, TLC

CONSTANTS m1, m2, e1, e2, l1, l2, p1, c1, c2, s1, s2, r1, r2, h1, h2, x, y, bad

VARIABLES
    store,       \* the one of this behaviour
    operands     \* two machine words

restVars == <<store, operands>>
memoryVars == <<slateVars, presenceVars, replayVars, pricerVars>>
tableVars == <<ticketVars, writerVars, limitVars, pageVars>>
allVars == <<restVars, memoryVars, tableVars>>

\* m1 may be re-keyed to any event and league; m2 stays where it is.
MCRoutes ==
    [m \in Markets |->
        IF m = m1 THEN [event : Events, league : Leagues]
        ELSE {[event |-> e1, league |-> l1]}]

Link(session2, replica2) ==
    [c \in Conns |-> IF c = c1 THEN [session |-> s1, replica |-> r1]
                     ELSE [session |-> session2, replica |-> replica2]]

\* One session on two replicas; two sessions on one.
MCSetups == { [link |-> Link(s1, r2), max |-> 1], [link |-> Link(s2, r1), max |-> 1] }

Line(place, event, market, books, when, good) ==
    [sport |-> place, league |-> place, event |-> event, market |-> market, books |-> books,
     selections |-> <<market>>, at |-> when, good |-> good]

\* One market listed twice, its books in two orders; another of the same event; a
\* market of another sport quoted by the same books; a record resolve refuses.
MCLines ==
    << Line(1, 1, 1, <<2, 1>>, 1, TRUE), Line(1, 1, 1, <<1>>, 2, TRUE),
       Line(2, 2, 3, <<1, 2>>, 1, TRUE), Line(1, 1, 2, <<1>>, 1, TRUE),
       Line(2, 2, 3, <<1>>, 1, FALSE) >>

\* Three records of the market, in the order of their instants: each moves it or does
\* not, or deletes it; the second is of the first's instant, or one the engine refuses.
MCSeen(when) == [fp : {x, y}, at : {when}]
MCInputs == {<<r1st, r2nd, r3rd>> :
    r1st \in MCSeen(1) \cup {Gone}, r2nd \in MCSeen(1) \cup {Gone, [fp |-> bad, at |-> 2]},
    r3rd \in MCSeen(2) \cup {Gone}}

\* The hands are interchangeable, whatever they are of, and so are the names x and y.
MCSymmetry == Permutations({h1, h2}) \cup Permutations({x, y})

Stores == {"slate", "sessions", "topic", "price", "bet", "lines", "limits", "pages", "amounts"}

StoresInit ==
    /\ store \in Stores
    /\ operands \in (IF store = "amounts" THEN Words \X Words ELSE {<<0, 0>>})
    /\ SlateInit
    /\ PresenceInit /\ (store # "sessions" => setup = CHOOSE s \in Setups : TRUE)
    /\ TicketsInit /\ (store # "bet" => slip \in Played)
    /\ ReplayInit
    /\ store # "topic" => /\ reader = [kind |-> "snapshot", policy |-> "stop"] /\ ~exists
    /\ PricerInit /\ (store # "price" => skips /\ input = <<Gone, Gone, Gone>>)
    /\ WriterInit
    /\ LimitsInit
    /\ PagesInit
    /\ store # "pages" => /\ listing = CHOOSE l \in Listings : TRUE
                          /\ \A f \in Fixtures : fixture[f] = [start |-> 1, status |-> "over"]

StoresNext ==
    \/ store = "slate" /\ SlateNext /\ UNCHANGED <<restVars, presenceVars, replayVars, pricerVars, tableVars>>
    \/ store = "sessions" /\ PresenceNext /\ UNCHANGED <<restVars, slateVars, replayVars, pricerVars, tableVars>>
    \/ store = "topic" /\ ReplayNext /\ UNCHANGED <<restVars, slateVars, presenceVars, pricerVars, tableVars>>
    \/ store = "price" /\ PricerNext /\ UNCHANGED <<restVars, slateVars, presenceVars, replayVars, tableVars>>
    \/ store = "bet" /\ TicketsNext /\ UNCHANGED <<restVars, memoryVars, writerVars, limitVars, pageVars>>
    \/ store = "lines" /\ WriterNext /\ UNCHANGED <<restVars, memoryVars, ticketVars, limitVars, pageVars>>
    \/ store = "limits" /\ LimitsNext /\ UNCHANGED <<restVars, memoryVars, ticketVars, writerVars, pageVars>>
    \/ store = "pages" /\ PagesNext /\ UNCHANGED <<restVars, memoryVars, ticketVars, writerVars, limitVars>>

StoresSpec == StoresInit /\ [][StoresNext]_allVars

\* Every operation on amounts is exact or refused (SumsExact, ProductsExact),
\* and so is the cost of a round robin of the first operand's stake on as many
\* selections as the second (ExpansionExact).
ArithmeticExact ==
    LET a == operands[1]
        b == operands[2] IN
    /\ SumsExact(a, b) /\ ProductsExact(a, b)
    /\ b \in 2 .. 5 => \A sizes \in SUBSET (2 .. 5) : ExpansionExact(b, sizes, a)
=============================================================================
