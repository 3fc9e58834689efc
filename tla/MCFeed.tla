------------------------------- MODULE MCFeed -------------------------------
(* Small instances of Normalizer: one market that moves and moves back,     *)
(* behind a record that nothing decodes.                                       *)
EXTENDS Normalizer, TLC

CONSTANTS a, b, p1, k1, x, y

MCMarketsOf == [p \in Parts |-> {k1}]
MCRaw == [p \in Parts |-> [n \in 1..LogLen |-> [k \in {k1} |-> IF n % 2 = 1 THEN x ELSE y]]]
MCOneUndecodable == {<<p1, 1>>}
=============================================================================
