------------------------------ MODULE MCPages ------------------------------
(* Small instances of Pages: listings of three events.                       *)
EXTENDS Pages

\* The board of every league with a window of the client's own, that of one league,
\* and the search.
MCListings ==
    { [endpoint |-> "board", selects |-> {1, 2, 3}, before |-> 2],
      [endpoint |-> "board", selects |-> {1, 3}, before |-> 3],
      [endpoint |-> "search", selects |-> {1, 2, 3}, before |-> Endless] }

\* The board as a client asks for it that leaves every parameter out.
MCPlainBoard == { [endpoint |-> "board", selects |-> {1, 2, 3}, before |-> Default] }
=============================================================================
