------------------------------ MODULE MCReplay ------------------------------
(* A small instance of Replay: two partitions, one of which grows.           *)
EXTENDS Replay

CONSTANTS pa, pb

Rec(k, garbled) == [key |-> k, garbled |-> garbled]
MCFresh ==
    [p \in Partitions |-> IF p = pa THEN {Rec("a", FALSE), Rec("b", FALSE), Rec("b", TRUE)} ELSE {}]

Topic(a, b, from) ==
    [log |-> [p \in Partitions |-> IF p = pa THEN a ELSE b],
     start |-> [p \in Partitions |-> IF p = pa THEN from ELSE 1]]

\* Empty; two keys; a swept tombstone at the end; a partition removed whole; a
\* record that will not decode.
MCTopics ==
    { Topic(<<>>, <<>>, 1),
      Topic(<<Rec("a", FALSE), Rec("b", FALSE)>>, <<Rec("c", FALSE)>>, 1),
      Topic(<<Swept, Rec("a", FALSE), Swept>>, <<>>, 1),
      Topic(<<Swept, Swept>>, <<Rec("c", FALSE), Rec("c", FALSE)>>, 3),
      Topic(<<Rec("a", FALSE), Rec("a", TRUE)>>, <<>>, 1) }
=============================================================================
