------------------------------ MODULE Sessions ------------------------------
(***************************************************************************)
(* Sessions of one account: internal/auth/service.go over the statements    *)
(* and transactions of internal/auth/pgstore.                               *)
(*                                                                          *)
(* A session is a family of refresh tokens, each redeemed once for its      *)
(* successor.  A request is one goroutine of any replica; it moves from one *)
(* statement to the next, may fail at each and may disappear between two,   *)
(* with its process or its context.  An access token is the answer "ok".    *)
(* A login's second factor is the module SecondFactor.                      *)
(***************************************************************************)
EXTENDS Naturals, FiniteSets, FiniteSetsExt

CONSTANTS
    Requests,
    FamilyIds,
    TokenIds,
    Passwords,
    RefreshTTL,          \* how long a refresh token may be presented
    SessionLifetime,     \* how long a family may live, 0 for no cap
    MaxWall,             \* bound: the last instant
    MaxEpoch,            \* bound: password changes
    Nobody

VARIABLES
    hash,       \* the password the stored hash verifies
    weak,       \* that hash was derived under weaker parameters than policy
    changedAt,  \* password_changed_at
    status,     \* whether the status admits authentication
    family,     \* the row of each family, or Nobody
    token,      \* the row of each refresh token, or Nobody
    wall,       \* the clock the replicas share
    pc,         \* the statement each request executes next
    arg,        \* the token it presented, or the password it writes
    seen,       \* the owner of the token as it read it
    stamp,      \* the instant it took
    epoch,      \* password changes committed (history)
    chosen,     \* the password the last of them set (history)
    swept,      \* the last change whose revocation committed (history)
    told        \* families whose end some request has answered (history)

userRow == <<hash, weak, changedAt, status>>
local == <<pc, arg, seen, stamp>>
history == <<epoch, chosen, swept, told>>
sessionVars == <<userRow, family, token, wall, local, history>>

Times == 0..MaxWall
Statuses == {"active", "barred"}
Reasons == {"logout", "reuse_detected", "credential_change", "operator"}
Stored(rows) == {i \in DOMAIN rows : rows[i] # Nobody}

\* refresh_token_families, with the number of password changes there had been
\* when the row was inserted (history).
FamilyRow(started, inserted, revoked) ==
    [started |-> started, insertedIn |-> inserted, revoked |-> revoked]

\* refresh_tokens.
TokenRow(f, parent, used, expires) ==
    [family |-> f, parent |-> parent, used |-> used, expires |-> expires]

FamilyRows == [started : Times, insertedIn : 0..MaxEpoch,
               revoked : Reasons \cup {"no"}]
TokenRows == [family : FamilyIds, parent : TokenIds \cup {Nobody}, used : BOOLEAN, expires : Nat]

\* What rotateAttempt reads of the user beside the token and its family.
OwnerRow == [changedAt |-> changedAt, status |-> status, epoch |-> epoch]

ASSUME SessionsAssumption ==
    /\ {RefreshTTL, SessionLifetime, MaxWall, MaxEpoch} \subseteq Nat
    /\ RefreshTTL > 0
    /\ Cardinality(Passwords) > 1
    /\ Nobody \notin TokenIds \cup FamilyRows \cup TokenRows

Smaller(a, b) == IF a < b THEN a ELSE b

\* Variant: the lifetime is measured from the token and not from the login.
CappedExpiry_FromIssue(issued, started) ==
    IF SessionLifetime = 0 THEN issued + RefreshTTL
                           ELSE Smaller(issued + RefreshTTL, issued + SessionLifetime)

CappedExpiry(issued, started) ==
    IF SessionLifetime = 0 THEN issued + RefreshTTL
                           ELSE Smaller(issued + RefreshTTL, started + SessionLifetime)

Goto(r, where) == pc' = [pc EXCEPT ![r] = where]

Begin(r, where, a, read, at) ==
    /\ pc[r] = "idle"
    /\ Goto(r, where)
    /\ arg' = [arg EXCEPT ![r] = a]
    /\ seen' = [seen EXCEPT ![r] = read]
    /\ stamp' = [stamp EXCEPT ![r] = at]

\* The request has answered, and is gone with all it held.
Answered(r) ==
    /\ Goto(r, "idle")
    /\ arg' = [arg EXCEPT ![r] = Nobody]
    /\ seen' = [seen EXCEPT ![r] = Nobody]
    /\ stamp' = [stamp EXCEPT ![r] = 0]

\* The end of a family is answered.
Tells(f) == told' = told \cup {f}

-----------------------------------------------------------------------------
(* Rows *)

\* Variant: the revocation forgets WHERE revoked_at IS NULL.
Revoked_Again(fs, reason) ==
    [f \in FamilyIds |-> IF f \in fs /\ family[f] # Nobody
        THEN FamilyRow(family[f].started, family[f].insertedIn, reason)
        ELSE family[f]]

\* Families revoked for a reason: the first reason stays.
Revoked(fs, reason) ==
    [f \in FamilyIds |-> IF f \in fs /\ family[f] # Nobody /\ family[f].revoked = "no"
        THEN FamilyRow(family[f].started, family[f].insertedIn, reason)
        ELSE family[f]]

\* Variant: the redeemed token is not marked.
Successor_Unmarked(t, new, expires) ==
    [token EXCEPT ![new] = TokenRow(token[t].family, t, FALSE, expires)]

\* The redeemed token and its successor.
Successor(t, new, expires) ==
    [i \in TokenIds |->
        IF i = t THEN TokenRow(token[t].family, token[t].parent, TRUE, token[t].expires)
        ELSE IF i = new THEN TokenRow(token[t].family, t, FALSE, expires)
        ELSE token[i]]

FamilyOf(t) == token[t].family

-----------------------------------------------------------------------------
(* Login *)

\* The account is read, the password verified and the status checked; a login
\* that fails one of them changes nothing.
LoginVerifies(r) ==
    /\ status = "active"
    /\ \/ weak /\ Begin(r, "rehash", hash, Nobody, 0)
       \/ ~weak /\ Begin(r, "stamp", Nobody, Nobody, 0)
    /\ UNCHANGED <<userRow, family, token, wall, history>>

\* maybeRehash: a hash of the password that was typed replaces the stored one.
\* A failure is logged, and the login goes on.
LoginRehashes(r) ==
    /\ pc[r] = "rehash"
    /\ Goto(r, "stamp")
    /\ arg' = [arg EXCEPT ![r] = Nobody]
    /\ \/ hash' = arg[r] /\ weak' = FALSE
       \/ UNCHANGED <<hash, weak>>
    /\ UNCHANGED <<changedAt, status, family, token, wall, seen, stamp, history>>

\* openSession takes the instant the session starts at.
LoginStamps(r) ==
    /\ pc[r] = "stamp"
    /\ Goto(r, "open")
    /\ stamp' = [stamp EXCEPT ![r] = wall]
    /\ UNCHANGED <<userRow, family, token, wall, arg, seen, history>>

\* CreateSession: the family and its root token in one transaction.
LoginOpens(r, f, t) ==
    /\ pc[r] = "open"
    /\ family[f] = Nobody /\ token[t] = Nobody
    /\ family' = [family EXCEPT ![f] = FamilyRow(stamp[r], epoch, "no")]
    /\ token' = [token EXCEPT ![t] =
                   TokenRow(f, Nobody, FALSE, CappedExpiry(stamp[r], stamp[r]))]
    /\ Answered(r)
    /\ UNCHANGED <<userRow, wall, history>>

-----------------------------------------------------------------------------
(* Refresh *)

\* Refresh takes its instant, and the statement of rotateAttempt its snapshot
\* of the users row; the token and its family are read again once locked.
RotateReads(r, t) ==
    /\ token[t] # Nobody
    /\ Begin(r, "rotate", t, OwnerRow, wall)
    /\ UNCHANGED <<userRow, family, token, wall, history>>

\* Variant: the family's age is not compared with password_changed_at.
Verdict_AnyAge(r) ==
    LET t == arg[r]
        f == FamilyOf(t)
    IN  IF family[f].revoked # "no" THEN "revoked"
        ELSE IF token[t].expires <= stamp[r] THEN "expired"
        ELSE IF token[t].used THEN "reuse_detected"
        ELSE "ok"

\* Variant: a redeemed token is not noticed.
Verdict_AnyUse(r) ==
    LET t == arg[r]
        f == FamilyOf(t)
    IN  IF family[f].revoked # "no" THEN "revoked"
        ELSE IF family[f].started < seen[r].changedAt THEN "credential_change"
        ELSE IF token[t].expires <= stamp[r] THEN "expired"
        ELSE "ok"

\* The verdict of the switch in rotateAttempt, in its order.  The two later
\* guards of a redemption, used_at IS NULL and the unique parent, repeat the
\* last one: behind the row locks they find what it found.
Verdict(r) ==
    LET t == arg[r]
        f == FamilyOf(t)
    IN  IF family[f].revoked # "no" THEN "revoked"
        ELSE IF family[f].started < seen[r].changedAt THEN "credential_change"
        ELSE IF token[t].expires <= stamp[r] THEN "expired"
        ELSE IF token[t].used THEN "reuse_detected"
        ELSE "ok"

\* The transaction of rotateAttempt, which holds the token and its family from
\* the read to the commit.
RotateRedeems(r, new) ==
    /\ pc[r] = "rotate"
    /\ Verdict(r) = "ok"
    /\ token[new] = Nobody
    /\ token' = Successor(arg[r], new, CappedExpiry(stamp[r], family[FamilyOf(arg[r])].started))
    /\ Goto(r, "check")
    /\ UNCHANGED <<userRow, family, wall, arg, seen, stamp, history>>

RotateRefuses(r) ==
    /\ pc[r] = "rotate"
    /\ Verdict(r) \in {"revoked", "expired"}
    /\ Answered(r)
    /\ UNCHANGED <<userRow, family, token, wall, history>>

RotateDetects(r) ==
    /\ pc[r] = "rotate"
    /\ Verdict(r) \in {"credential_change", "reuse_detected"}
    /\ Goto(r, Verdict(r))
    /\ UNCHANGED <<userRow, family, token, wall, arg, seen, stamp, history>>

Convicted(r) == pc[r] \in {"credential_change", "reuse_detected"}

\* Variant: the verdict is answered whatever became of the revocation.
RotateRevokes_Unchecked(r) ==
    /\ Convicted(r)
    /\ family' \in {Revoked({FamilyOf(arg[r])}, pc[r]), family}
    /\ Tells(FamilyOf(arg[r]))
    /\ Answered(r)
    /\ UNCHANGED <<userRow, token, wall, epoch, chosen, swept>>

\* Rotate revokes in a transaction of its own, and only then is the verdict
\* answered; a revocation that fails is an error (Abandons).
RotateRevokes(r) ==
    /\ Convicted(r)
    /\ family' = Revoked({FamilyOf(arg[r])}, pc[r])
    /\ Tells(FamilyOf(arg[r]))
    /\ Answered(r)
    /\ UNCHANGED <<userRow, token, wall, epoch, chosen, swept>>

\* The status read with the token: a barred account's family is revoked; a
\* failure is logged and the refresh refused all the same (Abandons).
RefreshBarred(r) ==
    /\ pc[r] = "check"
    /\ seen[r].status = "barred"
    /\ family' = Revoked({FamilyOf(arg[r])}, "operator")
    /\ Answered(r)
    /\ UNCHANGED <<userRow, token, wall, history>>

RefreshGrants(r) ==
    /\ pc[r] = "check"
    /\ seen[r].status = "active"
    /\ Answered(r)
    /\ UNCHANGED <<userRow, family, token, wall, history>>

-----------------------------------------------------------------------------
(* Ending sessions *)

\* Logout: RevokeByToken, one transaction.  A token nobody issued answers the
\* same and changes nothing.
Logout(t) ==
    /\ token[t] # Nobody
    /\ family' = Revoked({FamilyOf(t)}, "logout")
    /\ Tells(FamilyOf(t))
    /\ UNCHANGED <<userRow, token, wall, local, epoch, chosen, swept>>

\* LogoutEverywhere: one UPDATE over the families of the user.
LogoutEverywhere ==
    /\ family' = Revoked(FamilyIds, "logout")
    /\ told' = told \cup Stored(family)
    /\ UNCHANGED <<userRow, token, wall, local, epoch, chosen, swept>>

\* ChangePassword reads the account and verifies the current password; the new
\* one must differ from it.
ChangeVerifies(r, new) ==
    /\ new # hash
    /\ Begin(r, "hash", new, Nobody, 0)
    /\ UNCHANGED <<userRow, family, token, wall, history>>

\* The instant of the change, taken after the new password is hashed.
ChangeStamps(r) ==
    /\ pc[r] = "hash"
    /\ Goto(r, "set")
    /\ stamp' = [stamp EXCEPT ![r] = wall]
    /\ UNCHANGED <<userRow, family, token, wall, arg, seen, history>>

\* SetPassword: the hash and the instant in one statement.
ChangeSets(r) ==
    /\ pc[r] = "set"
    /\ epoch < MaxEpoch
    /\ hash' = arg[r] /\ weak' = FALSE /\ changedAt' = stamp[r]
    /\ epoch' = epoch + 1 /\ chosen' = arg[r]
    /\ Goto(r, "sweep")
    /\ UNCHANGED <<status, family, token, wall, arg, seen, stamp, swept, told>>

\* Variant: the sweep spares the families that are not older than the change.
ChangeSweeps_ByAge(r) ==
    /\ pc[r] = "sweep"
    /\ family' = Revoked({f \in Stored(family) : family[f].started < stamp[r]}, "credential_change")
    /\ swept' = epoch
    /\ Answered(r)
    /\ UNCHANGED <<userRow, token, wall, epoch, chosen, told>>

\* RevokeUserSessions, a second statement; its failure is logged and the change
\* answered as made (Abandons).
ChangeSweeps(r) ==
    /\ pc[r] = "sweep"
    /\ family' = Revoked(FamilyIds, "credential_change")
    /\ swept' = epoch
    /\ Answered(r)
    /\ UNCHANGED <<userRow, token, wall, epoch, chosen, told>>

-----------------------------------------------------------------------------
(* The rest of the world *)

\* A statement fails, the context ends or the process does: whatever the
\* request had not yet done is not done.
Abandons(r) ==
    /\ pc[r] # "idle"
    /\ Answered(r)
    /\ UNCHANGED <<userRow, family, token, wall, history>>

\* An operator, or the user, changes the status of the account.
StatusMoves ==
    /\ \E s \in Statuses \ {status} : status' = s
    /\ UNCHANGED <<hash, weak, changedAt, family, token, wall, local, history>>

Passes ==
    /\ wall < MaxWall
    /\ wall' = wall + 1
    /\ UNCHANGED <<userRow, family, token, local, history>>

SessionsInit ==
    /\ hash \in Passwords /\ weak \in BOOLEAN
    /\ changedAt = 0 /\ status = "active"
    /\ family = [f \in FamilyIds |-> Nobody]
    /\ token = [t \in TokenIds |-> Nobody]
    /\ wall = 0
    /\ pc = [r \in Requests |-> "idle"]
    /\ arg = [r \in Requests |-> Nobody]
    /\ seen = [r \in Requests |-> Nobody]
    /\ stamp = [r \in Requests |-> 0]
    /\ epoch = 0 /\ chosen = hash /\ swept = 0 /\ told = {}

SessionsNext ==
    \/ \E r \in Requests :
        \/ LoginVerifies(r)
        \/ LoginRehashes(r)
        \/ LoginStamps(r)
        \/ \E f \in FamilyIds, t \in TokenIds : LoginOpens(r, f, t)
        \/ \E t \in TokenIds : RotateReads(r, t)
        \/ \E t \in TokenIds : RotateRedeems(r, t)
        \/ RotateRefuses(r)
        \/ RotateDetects(r)
        \/ RotateRevokes(r)
        \/ RefreshBarred(r)
        \/ RefreshGrants(r)
        \/ \E new \in Passwords : ChangeVerifies(r, new)
        \/ ChangeStamps(r)
        \/ ChangeSets(r)
        \/ ChangeSweeps(r)
        \/ Abandons(r)
    \/ \E t \in TokenIds : Logout(t)
    \/ LogoutEverywhere
    \/ StatusMoves
    \/ Passes

SessionsSpec == SessionsInit /\ [][SessionsNext]_sessionVars

-----------------------------------------------------------------------------
(* Properties *)

\* Every row belongs to a row: a token to a family, a successor to a redeemed
\* token of its own family (rotateAttempt's insert, CreateSession).
SessionsTypeOK ==
    /\ {hash, chosen} \subseteq Passwords /\ weak \in BOOLEAN
    /\ changedAt \in Times /\ status \in Statuses
    /\ family \in [FamilyIds -> FamilyRows \cup {Nobody}]
    /\ token \in [TokenIds -> TokenRows \cup {Nobody}]
    /\ \A t \in Stored(token) :
        /\ family[FamilyOf(t)] # Nobody
        /\ token[t].parent # Nobody => /\ token[token[t].parent] # Nobody
                                       /\ FamilyOf(token[t].parent) = FamilyOf(t)
                                       /\ token[token[t].parent].used

\* A session is one line of tokens: at any time a family has at most one token
\* that can still be redeemed, and no token has two successors (rotateAttempt).
OneLine ==
    \A t, u \in Stored(token) :
        t # u /\ FamilyOf(t) = FamilyOf(u)
            => /\ token[t].used \/ token[u].used
               /\ token[t].parent # token[u].parent

\* A session whose end was answered has ended: a reuse, a change of password
\* found by a refresh and a logout are answered only once the family is revoked
\* (Rotate, RevokeByToken).
AnsweredEnds == \A f \in told : family[f].revoked # "no"

\* However often a session is refreshed, no token of it can be presented after
\* the lifetime of the login has passed (cappedExpiry).
LifetimeKept ==
    SessionLifetime > 0 =>
        \A t \in Stored(token) : token[t].expires <= family[FamilyOf(t)].started + SessionLifetime

\* A password change whose two statements succeeded leaves none of the sessions
\* that were there before it (ChangePassword, RevokeUserSessions).
ChangeEvicts ==
    \A f \in Stored(family) : family[f].insertedIn < swept => family[f].revoked # "no"

\* What is promised of a session at any moment.
SessionsCorrect == SessionsTypeOK /\ OneLine /\ AnsweredEnds /\ LifetimeKept /\ ChangeEvicts

\* The first revocation of a family is the last: its reason stays, and no token
\* is added to it (RevokeFamily, RevokeByToken, RevokeUserSessions, Rotate).
RevocationFinal ==
    [][\A f \in Stored(family) : family[f].revoked # "no" =>
          /\ family'[f] = family[f]
          /\ {t \in Stored(token)' : FamilyOf(t)' = f} = {t \in Stored(token) : FamilyOf(t) = f}
      ]_sessionVars

\* A session older than the last password change is not extended by a refresh
\* that began after the change, even if its revocation failed (rotateAttempt).
StaleNotExtended ==
    [][\A t \in Stored(token)' \ Stored(token) :
          family'[FamilyOf(t)'].started < changedAt => \A r \in Requests :
              pc[r] = "rotate" /\ pc'[r] = "check" => seen[r].epoch < epoch
      ]_sessionVars

\* A session that has ended, or that a change of password should have ended, is
\* not extended (Rotate, RevokeFamily, RevokeUserSessions).
EndedNotExtended == RevocationFinal /\ StaleNotExtended

\* What the user set last is what the account verifies (ChangePassword,
\* SetPassword, and RehashPassword, which "does not touch" the credential).
LastPasswordStays == hash = chosen
=============================================================================
