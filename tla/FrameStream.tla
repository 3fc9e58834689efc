---------------------------- MODULE FrameStream ----------------------------
(***************************************************************************)
(* What a gateway connection promises its client about frames, whatever     *)
(* goroutines and queues implement it (internal/wsgw/doc.go, D3 and D4):    *)
(* numbers are assigned one by one, frames arrive in the order of their     *)
(* numbers, a frame may be lost, and no loss is left unannounced: the next  *)
(* number assigned after a loss is a resync frame.                          *)
(***************************************************************************)
EXTENDS Naturals, Sequences

VARIABLES
    last,       \* the highest number assigned
    pending,    \* frames assigned and neither received nor lost, oldest first
    received,   \* frames the client has received, in order
    owed,       \* frames have been lost and no resync assigned since
    phase       \* "open", "closed" to new frames, or "broken"

streamVars == <<last, pending, received, owed, phase>>

Init ==
    /\ last = 0
    /\ pending = <<>>
    /\ received = <<>>
    /\ owed = FALSE
    /\ phase = "open"

\* A frame is numbered and will be delivered unless it is lost.
Assign ==
    /\ phase = "open"
    /\ ~owed
    /\ last' = last + 1
    /\ pending' = Append(pending, last + 1)
    /\ UNCHANGED <<received, owed, phase>>

\* A frame is numbered and lost at once: the number is spent all the same.
AssignLost ==
    /\ phase = "open"
    /\ ~owed
    /\ last' = last + 1
    /\ owed' = TRUE
    /\ UNCHANGED <<pending, received, phase>>

\* The oldest pending frame is given up, while a resync is owed.
Lose ==
    /\ owed
    /\ pending # <<>>
    /\ \E i \in DOMAIN pending :
        pending' = [j \in 1..Len(pending) - 1 |-> pending[IF j < i THEN j ELSE j + 1]]
    /\ UNCHANGED <<last, received, owed, phase>>

\* The resync frame that tells the client.
Announce ==
    /\ phase = "open"
    /\ owed
    /\ last' = last + 1
    /\ pending' = Append(pending, last + 1)
    /\ owed' = FALSE
    /\ UNCHANGED <<received, phase>>

Deliver ==
    /\ phase # "broken"
    /\ pending # <<>>
    /\ received' = Append(received, Head(pending))
    /\ pending' = Tail(pending)
    /\ UNCHANGED <<last, owed, phase>>

\* No loss may be owed when the stream closes: what is pending still arrives.
Close ==
    /\ phase = "open"
    /\ ~owed
    /\ phase' = "closed"
    /\ UNCHANGED <<last, pending, received, owed>>

\* A failed write ends the stream, and with it everything still pending.
Break ==
    /\ phase # "broken"
    /\ phase' = "broken"
    /\ pending' = <<>>
    /\ owed' = FALSE
    /\ UNCHANGED <<last, received>>

\* Numbers may still be spent on a broken stream until its owner notices; the
\* client receives nothing more.
Spend ==
    /\ phase = "broken"
    /\ last' = last + 1
    /\ UNCHANGED <<pending, received, owed, phase>>

Next == Assign \/ AssignLost \/ Lose \/ Announce \/ Deliver \/ Close \/ Break \/ Spend

Spec == Init /\ [][Next]_streamVars
=============================================================================
