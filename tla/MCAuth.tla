------------------------------- MODULE MCAuth -------------------------------
(***************************************************************************)
(* Small instances of the two halves of an account, which share no state:   *)
(* a behaviour is of one of them, with the other at rest.                   *)
(***************************************************************************)
EXTENDS Sessions, SecondFactor, TLC

CONSTANTS r1, r2, f1, t1, t2, t3, w1, w2, k1

VARIABLE half

\* Requests, tokens, and the passwords or secrets are interchangeable.
MCSymmetry == Permutations(Requests) \cup Permutations(TokenIds) \cup Permutations(Passwords)

AuthInit ==
    /\ half \in {"sessions", "factor"}
    /\ SessionsInit /\ (half = "factor" => ~weak)
    /\ FactorInit

AuthNext ==
    \/ half = "sessions" /\ SessionsNext /\ UNCHANGED <<half, factorVars>>
    \/ half = "factor" /\ FactorNext /\ UNCHANGED <<half, sessionVars>>

AuthSpec == AuthInit /\ [][AuthNext]_<<half, sessionVars, factorVars>>

\* What is promised of an account: at any moment, and of any step.
AccountCorrect == SessionsCorrect /\ FactorCorrect
AccountSteps == EndedNotExtended /\ ArmedOnlyRemoved
=============================================================================
