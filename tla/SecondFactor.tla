---------------------------- MODULE SecondFactor ----------------------------
(***************************************************************************)
(* The second factor of one account: internal/auth/enrolment.go, the checks *)
(* of a login in service.go, the statements of pgstore on user_totp, and    *)
(* redisguard, where every replica burns the step of a code it accepts.     *)
(*                                                                          *)
(* A code is the secret and the step it was computed for.  Time is counted  *)
(* in whole steps; an entry of the guard that expires within a step is      *)
(* forgotten as that step begins, the earliest it could be missed.  The     *)
(* deployed api has no store of recovery codes: the one here is the         *)
(* interface RecoveryCodeStore as the service uses it.                      *)
(***************************************************************************)
EXTENDS Naturals, FiniteSets

CONSTANTS
    Calls,
    Secrets,
    RecoveryCodes,
    SkewSteps,        \* steps either side of the current one that are accepted
    LastStep,         \* bound: the last step of the clock
    MaxMints,         \* bound: sets of recovery codes minted
    NoRow

VARIABLES
    enrolled,    \* the user_totp row: [secret, confirmed], or NoRow
    unused,      \* recovery codes stored and not used: <<mint, code>>
    burnt,       \* step -> the step at which redisguard forgets it, 0 when free
    step,        \* the current step
    at,          \* the statement each call executes next
    read,        \* the row the call loaded
    picked,      \* the recovery code it matched
    mints,       \* sets of recovery codes minted so far
    minted,      \* secrets handed out by an enrolment (history)
    proven,      \* secrets a code of which was accepted (history)
    spent        \* codes accepted, and how often: [steps, recovery] (history)

store == <<enrolled, unused, burnt>>
past == <<mints, minted, proven, spent>>
factorVars == <<store, step, at, read, picked, past>>

Row(secret, confirmed) == [secret |-> secret, confirmed |-> confirmed]
StepsOfCodes == 0..(LastStep + SkewSteps)
Minted == (1..MaxMints) \X RecoveryCodes

ASSUME FactorAssumption ==
    /\ {SkewSteps, LastStep, MaxMints} \subseteq Nat
    /\ NoRow \notin [secret : Secrets, confirmed : BOOLEAN]

Armed == enrolled # NoRow /\ enrolled.confirmed
Pending == enrolled # NoRow /\ ~enrolled.confirmed

To(c, where) == at' = [at EXCEPT ![c] = where]

Ends(c) ==
    /\ To(c, "idle")
    /\ read' = [read EXCEPT ![c] = NoRow]
    /\ picked' = [picked EXCEPT ![c] = NoRow]

Loads(c, where) ==
    /\ at[c] = "idle"
    /\ To(c, where)
    /\ read' = [read EXCEPT ![c] = enrolled]
    /\ UNCHANGED picked

-----------------------------------------------------------------------------
(* Codes *)

\* ValidateTOTPCode: the steps whose codes are accepted now.
Acceptable == {s \in StepsOfCodes : s + SkewSteps >= step /\ s <= step + SkewSteps}

\* Variant: a step is kept for as long as its code is current.
Forgotten_Soon(s) == s + 1

\* The expiry consumeTOTPCode gives the guard, skew + 2 periods from now.
Forgotten(s) == step + SkewSteps + 2

\* SET NX PX: the first to burn a step has it, until the entry expires.
Burns(s) ==
    /\ burnt[s] <= step
    /\ burnt' = [burnt EXCEPT ![s] = Forgotten(s)]
    /\ spent' = [spent EXCEPT !.steps = @ \cup {s}, !.twice = @ \/ s \in spent.steps]

\* consumeTOTPCode: a code of the secret the call loaded, for a step that is
\* acceptable, and burnt by this call.
Consumes(c, s) ==
    /\ s \in Acceptable
    /\ Burns(s)
    /\ proven' = proven \cup {read[c].secret}

-----------------------------------------------------------------------------
(* Enrolment *)

\* BeginTOTPEnrolment refuses while a confirmed row exists.
BeginLoads(c) ==
    /\ ~Armed
    /\ Loads(c, "save")
    /\ UNCHANGED <<store, step, past>>

\* Variant: the upsert forgets WHERE confirmed_at IS NULL.
Replaceable_Always == TRUE

\* The condition of SaveTOTP's upsert.
Replaceable == ~Armed

\* SaveTOTP: a new secret replaces an unconfirmed one; over a row confirmed
\* meanwhile the upsert writes nothing and the enrolment is refused.
BeginSaves(c, new) ==
    /\ at[c] = "save"
    /\ Replaceable
    /\ new \notin minted
    /\ enrolled' = Row(new, FALSE)
    /\ minted' = minted \cup {new}
    /\ Ends(c)
    /\ UNCHANGED <<unused, burnt, step, mints, proven, spent>>

BeginRefused(c) ==
    /\ at[c] = "save"
    /\ ~Replaceable
    /\ Ends(c)
    /\ UNCHANGED <<store, step, past>>

\* ConfirmTOTPEnrolment loads a row that is not confirmed.
ConfirmLoads(c) ==
    /\ Pending
    /\ Loads(c, "prove")
    /\ UNCHANGED <<store, step, past>>

ConfirmConsumes(c, s) ==
    /\ at[c] = "prove"
    /\ Consumes(c, s)
    /\ To(c, "arm")
    /\ UNCHANGED <<enrolled, unused, step, read, picked, mints, minted>>

\* ConfirmTOTP: the row of the user is confirmed, if one is there that is not.
ConfirmArms(c) ==
    /\ at[c] = "arm"
    /\ \/ /\ Pending
          /\ enrolled' = Row(enrolled.secret, TRUE)
          /\ To(c, "mint") /\ UNCHANGED <<read, picked>>
       \/ /\ ~Pending
          /\ Ends(c) /\ UNCHANGED enrolled
    /\ UNCHANGED <<unused, burnt, step, past>>

\* Variant: the codes of the set before stay good.
Mints_Adds(c) ==
    /\ at[c] = "mint"
    /\ mints < MaxMints
    /\ mints' = mints + 1
    /\ unused' = unused \cup ({mints'} \X RecoveryCodes)
    /\ Ends(c)
    /\ UNCHANGED <<enrolled, burnt, step, minted, proven, spent>>

\* mintRecoveryCodes: the new set replaces what was stored, or the store fails
\* and no codes are handed out.
Mints(c) ==
    /\ at[c] = "mint"
    /\ mints < MaxMints
    /\ mints' = mints + 1
    /\ unused' = {mints'} \X RecoveryCodes
    /\ Ends(c)
    /\ UNCHANGED <<enrolled, burnt, step, minted, proven, spent>>

\* RegenerateRecoveryCodes, the password verified.
RegenerateLoads(c) ==
    /\ Armed
    /\ Loads(c, "mint")
    /\ UNCHANGED <<store, step, past>>

-----------------------------------------------------------------------------
(* Login *)

\* checkSecondFactor: a confirmed row asks for a code.
LoginLoads(c) ==
    /\ Armed
    /\ Loads(c, "login")
    /\ UNCHANGED <<store, step, past>>

LoginConsumes(c, s) ==
    /\ at[c] = "login"
    /\ Consumes(c, s)
    /\ Ends(c)
    /\ UNCHANGED <<enrolled, unused, step, mints, minted>>

\* consumeRecoveryCode matches the code among the unused ones.
LoginMatches(c, k) ==
    /\ at[c] = "login"
    /\ k \in unused
    /\ To(c, "redeem")
    /\ picked' = [picked EXCEPT ![c] = k]
    /\ UNCHANGED <<store, step, read, past>>

\* Variant: the statement does not look whether the code is still unused.
StillUnused_Assumed(k) == TRUE

\* ConsumeRecoveryCode finds the code unused, or replaced and used by others.
StillUnused(k) == k \in unused

LoginRecovers(c) ==
    /\ at[c] = "redeem"
    /\ StillUnused(picked[c])
    /\ unused' = unused \ {picked[c]}
    /\ spent' = [spent EXCEPT !.codes = @ \cup {picked[c]}, !.twice = @ \/ picked[c] \in spent.codes]
    /\ Ends(c)
    /\ UNCHANGED <<enrolled, burnt, step, mints, minted, proven>>

-----------------------------------------------------------------------------
(* Removal *)

\* DisableTOTP, the password verified, and DisableTOTPWithCode, on a code of
\* the row that is removed, confirmed or not.
DisableLoads(c) ==
    /\ enrolled # NoRow
    /\ Loads(c, "disable")
    /\ UNCHANGED <<store, step, past>>

DisableByPassword(c) ==
    /\ at[c] = "disable"
    /\ To(c, "delete")
    /\ UNCHANGED <<store, step, read, picked, past>>

DisableByCode(c, s) ==
    /\ at[c] = "disable"
    /\ Consumes(c, s)
    /\ To(c, "delete")
    /\ UNCHANGED <<enrolled, unused, step, read, picked, mints, minted>>

\* removeSecondFactor: the row first, then the recovery codes.
RemovesRow(c) ==
    /\ at[c] = "delete"
    /\ enrolled' = NoRow
    /\ To(c, "clear")
    /\ UNCHANGED <<unused, burnt, step, read, picked, past>>

ClearsCodes(c) ==
    /\ at[c] = "clear"
    /\ unused' = {}
    /\ Ends(c)
    /\ UNCHANGED <<enrolled, burnt, step, past>>

\* The code is wrong or replayed, a statement fails, or the process ends.
GivesUp(c) ==
    /\ at[c] # "idle"
    /\ Ends(c)
    /\ UNCHANGED <<store, step, past>>

StepPasses ==
    /\ step < LastStep
    /\ step' = step + 1
    /\ UNCHANGED <<store, at, read, picked, past>>

FactorInit ==
    /\ enrolled = NoRow /\ unused = {}
    /\ burnt = [s \in StepsOfCodes |-> 0]
    /\ step = 0
    /\ at = [c \in Calls |-> "idle"]
    /\ read = [c \in Calls |-> NoRow] /\ picked = read
    /\ mints = 0 /\ minted = {} /\ proven = {}
    /\ spent = [steps |-> {}, codes |-> {}, twice |-> FALSE]

FactorNext ==
    \/ \E c \in Calls :
        \/ BeginLoads(c) \/ ConfirmLoads(c) \/ RegenerateLoads(c) \/ LoginLoads(c) \/ DisableLoads(c)
        \/ \E new \in Secrets : BeginSaves(c, new)
        \/ BeginRefused(c)
        \/ \E s \in StepsOfCodes : ConfirmConsumes(c, s) \/ LoginConsumes(c, s) \/ DisableByCode(c, s)
        \/ \E k \in unused : LoginMatches(c, k)
        \/ LoginRecovers(c)
        \/ ConfirmArms(c) \/ Mints(c)
        \/ DisableByPassword(c) \/ RemovesRow(c) \/ ClearsCodes(c)
        \/ GivesUp(c)
    \/ StepPasses

FactorSpec == FactorInit /\ [][FactorNext]_factorVars

-----------------------------------------------------------------------------
(* Properties *)

Rows == [secret : Secrets, confirmed : BOOLEAN] \cup {NoRow}

\* The type of the rows and of the calls' reads.  The recovery codes that are
\* good are of the last set minted (mintRecoveryCodes), and a code is only
\* accepted of a secret some enrolment handed out.
FactorTypeOK ==
    /\ enrolled \in Rows /\ read \in [Calls -> Rows]
    /\ unused \subseteq {mints} \X RecoveryCodes /\ picked \in [Calls -> Minted \cup {NoRow}]
    /\ burnt \in [StepsOfCodes -> Nat]
    /\ step \in 0..LastStep /\ mints \in 0..MaxMints
    /\ minted \subseteq Secrets /\ proven \subseteq minted

\* A code is good once: no step of a secret and no recovery code is accepted a
\* second time, by whatever call on whatever replica (consumeTOTPCode, Consume,
\* consumeRecoveryCode).
CodeGoodOnce == ~spent.twice

\* What is promised of the second factor at any moment.
FactorCorrect == FactorTypeOK /\ CodeGoodOnce

\* An armed factor is only ever removed: no enrolment that began before it was
\* confirmed replaces its secret (BeginTOTPEnrolment, SaveTOTP).
ArmedOnlyRemoved ==
    [][Armed => enrolled' \in {enrolled, NoRow}]_factorVars

\* The secret a confirmation arms is one the user has proven a code from
\* (ConfirmTOTPEnrolment).
ArmedIsProven == Armed => enrolled.secret \in proven
=============================================================================
