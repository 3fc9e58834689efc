------------------------------- MODULE Keeper -------------------------------
(***************************************************************************)
(* The Go SDK's Session (pkg/client/session.go) under the calls of several  *)
(* goroutines (client.go, do): one rotating credential behind a mutex that is *)
(* held across the refresh round trip. The login family on the server is the *)
(* other party: a number for its newest refresh token, and what ended it.   *)
(* An access token bears the number of the refresh token issued with it.    *)
(*                                                                         *)
(* The process may die and another may Resume from the token that OnRotate  *)
(* last persisted. Answers may be lost, after the server acted or before; a *)
(* request of a process that died arrived before its end, or never.         *)
(***************************************************************************)
EXTENDS Naturals, FiniteSets

CONSTANTS
    Callers,        \* goroutines with calls to make
    Attempts,       \* of the retry policy, for a safe method
    MaxRotations,   \* bound: refresh tokens of the family
    Free            \* the mutex, when nobody holds it

VARIABLES
    head,       \* the newest refresh token of the family
    ended,      \* what ended it: "no", "logout", "reuse"
    over,       \* its absolute lifetime has passed
    tok, acc,   \* Session.tokens: refresh and access token, 0 for ""
    fresh,      \* the clock is before refreshAt
    gen,        \* Session.gen
    mu,         \* the goroutine that holds the mutex, or Free
    call,       \* goroutine -> its call of do
    bye,        \* refresh token of a logout under way, 0 for none
    stored      \* what the callback of OnRotate last persisted

\* History: a refresh answer was lost; a token was resumed that was not the
\* newest; the access tokens the server rejected; the refresh tokens it refused
\* this process; Logout was called.
VARIABLES lost, resumedBehind, rejected, refused, loggedOut

familyVars == <<head, ended, over>>
tokenVars == <<tok, acc, fresh, gen>>
historyVars == <<lost, resumedBehind, rejected, refused, loggedOut>>
keeperVars == <<familyVars, tokenVars, mu, call, bye, stored, historyVars>>

Generations == 0 .. MaxRotations

Idle == [pc |-> "idle", safe |-> FALSE, attempt |-> 1, refreshed |-> FALSE, gen |-> 0,
         acc |-> 0, answer |-> 0, then |-> "sent", acted |-> 0]

ASSUME KeeperAssumption ==
    /\ Attempts \in Nat \ {0}
    /\ MaxRotations \in Nat \ {0}
    /\ Free \notin Callers

At(c, pc) == call[c].pc = pc
MoveTo(c, pc) == call' = [call EXCEPT ![c].pc = pc]
Errs(c) == call' = [call EXCEPT ![c] = Idle]

-----------------------------------------------------------------------------
(* do *)

Start(c) ==
    /\ At(c, "idle")
    /\ \E safe \in BOOLEAN : call' = [call EXCEPT ![c] = [Idle EXCEPT !.pc = "credential", !.safe = safe]]
    /\ UNCHANGED <<familyVars, tokenVars, mu, bye, stored, historyVars>>

Wiped == tok' = 0 /\ acc' = 0 /\ fresh' = FALSE

\* refreshLocked up to the round trip. The end of the family is known once a
\* session response has been applied, that is while there is an access token.
RefreshLocked(c, then) ==
    \/ /\ tok = 0
       /\ Errs(c)
       /\ UNCHANGED <<tokenVars, mu>>
    \/ /\ tok # 0 /\ over /\ acc # 0
       /\ Wiped
       /\ Errs(c)
       /\ UNCHANGED <<gen, mu>>
    \/ /\ tok # 0 /\ ~(over /\ acc # 0)
       /\ mu' = c
       /\ call' = [call EXCEPT ![c].pc = "redeem", ![c].then = then]
       /\ UNCHANGED tokenVars

\* AccessToken: the token is fresh, or the goroutine refreshes it and then sends.
Credential(c) ==
    /\ At(c, "credential")
    /\ mu = Free
    /\ \/ /\ acc # 0 /\ fresh
          /\ call' = [call EXCEPT ![c].pc = "sent", ![c].acc = acc, ![c].gen = gen]
          /\ UNCHANGED <<tokenVars, mu>>
       \/ /\ ~(acc # 0 /\ fresh)
          /\ RefreshLocked(c, "sent")
    /\ UNCHANGED <<familyVars, bye, stored, historyVars>>

\* Variant: the generation is not compared.
SessionRefresh_Always(c) ==
    /\ At(c, "refresh")
    /\ mu = Free
    /\ RefreshLocked(c, "credential")
    /\ UNCHANGED <<familyVars, bye, stored, historyVars>>

\* Session.Refresh, with the generation the rejected call used.
SessionRefresh(c) ==
    /\ At(c, "refresh")
    /\ mu = Free
    /\ \/ /\ gen # call[c].gen
          /\ MoveTo(c, "credential")
          /\ UNCHANGED <<tokenVars, mu>>
       \/ /\ gen = call[c].gen
          /\ RefreshLocked(c, "credential")
    /\ UNCHANGED <<familyVars, bye, stored, historyVars>>

\* Variant: a POST that looks harmless is repeated.
MaxAttempts_OfAll(c) == Attempts

MaxAttempts(c) == IF call[c].safe THEN Attempts ELSE 1

Acted(c, acts) == call[c].acted + (IF acts /\ ~call[c].safe THEN 1 ELSE 0)

\* do returns: the call acted, or it did not.
Returns(c, acts) ==
    /\ At(c, "sent")
    /\ call' = [call EXCEPT ![c] = [Idle EXCEPT !.acted = Acted(c, acts)]]
    /\ UNCHANGED <<familyVars, tokenVars, mu, bye, stored, historyVars>>

\* A transport error, or an answer that may be repeated.
Again(c, acts) ==
    /\ At(c, "sent")
    /\ call[c].attempt < MaxAttempts(c)
    /\ call' = [call EXCEPT ![c].pc = "credential", ![c].attempt = @ + 1, ![c].acted = Acted(c, acts)]
    /\ UNCHANGED <<familyVars, tokenVars, mu, bye, stored, historyVars>>

\* A second 401 is the call's error.
Unauthorized(c) ==
    /\ At(c, "sent")
    /\ rejected' = rejected \cup {call[c].acc}
    /\ IF call[c].refreshed THEN Errs(c)
       ELSE call' = [call EXCEPT ![c].pc = "refresh", ![c].refreshed = TRUE, ![c].attempt = @ + 1]
    /\ UNCHANGED <<familyVars, tokenVars, mu, bye, stored, lost, resumedBehind, refused, loggedOut>>

-----------------------------------------------------------------------------
(* The refresh round trip *)

\* POST /auth/refresh: the newest token rotates, an older one ends the family.
Redeem(c) ==
    /\ At(c, "redeem")
    /\ IF tok = head /\ ended = "no" /\ ~over
         THEN /\ head < MaxRotations
              /\ head' = head + 1
              /\ call' = [call EXCEPT ![c].pc = "answer", ![c].answer = head + 1]
              /\ UNCHANGED ended
         ELSE /\ ended' = IF ended = "no" /\ tok < head THEN "reuse" ELSE ended
              /\ call' = [call EXCEPT ![c].pc = "answer", ![c].answer = 0]
              /\ UNCHANGED head
    /\ UNCHANGED <<over, tokenVars, mu, bye, stored, historyVars>>

\* applyLocked; the callback runs after the unlock, with what was applied.
Apply(c) ==
    /\ At(c, "answer")
    /\ call[c].answer # 0
    /\ tok' = call[c].answer
    /\ acc' = call[c].answer
    /\ fresh' = TRUE
    /\ gen' = gen + 1
    /\ mu' = Free
    /\ call' = [call EXCEPT ![c].pc = "callback", ![c].acc = acc', ![c].gen = gen']
    /\ UNCHANGED <<familyVars, bye, stored, historyVars>>

\* A 401 is terminal.
Refused(c) ==
    /\ At(c, "answer")
    /\ call[c].answer = 0
    /\ refused' = refused \cup {tok}
    /\ Wiped
    /\ mu' = Free
    /\ Errs(c)
    /\ UNCHANGED <<familyVars, gen, bye, stored, lost, resumedBehind, rejected, loggedOut>>

\* Any other error, before or after the server acted, leaves the tokens as they are.
RefreshFails(c) ==
    /\ At(c, "redeem") \/ At(c, "answer")
    /\ lost' = TRUE
    /\ mu' = Free
    /\ Errs(c)
    /\ UNCHANGED <<familyVars, tokenVars, bye, stored, resumedBehind, rejected, refused, loggedOut>>

\* OnRotate, outside the lock; then AccessToken returns what it read under it,
\* or Refresh returns and do asks for the credential again.
Callback(c) ==
    /\ At(c, "callback")
    /\ stored' = call[c].answer
    /\ MoveTo(c, call[c].then)
    /\ UNCHANGED <<familyVars, tokenVars, mu, bye, historyVars>>

-----------------------------------------------------------------------------
(* Logout, time, and the end of the process *)

Logout ==
    /\ mu = Free
    /\ ~loggedOut
    /\ Wiped
    /\ gen' = gen + 1
    /\ bye' = tok
    /\ loggedOut' = TRUE
    /\ UNCHANGED <<familyVars, mu, call, stored, lost, resumedBehind, rejected, refused>>

\* POST /auth/logout arrives, or fails: the local state is cleared all the same.
LogoutArrives ==
    /\ bye # 0
    /\ bye' = 0
    /\ ended' \in {ended, IF ended = "no" THEN "logout" ELSE ended}
    /\ UNCHANGED <<head, over, tokenVars, mu, call, stored, historyVars>>

Expire ==
    /\ fresh
    /\ fresh' = FALSE
    /\ UNCHANGED <<familyVars, tok, acc, gen, mu, call, bye, stored, historyVars>>

FamilyEnds ==
    /\ ~over
    /\ over' = TRUE
    /\ UNCHANGED <<head, ended, tokenVars, mu, call, bye, stored, historyVars>>

\* The process dies and another resumes from what was persisted.
Resume ==
    /\ ~loggedOut
    /\ stored # 0
    /\ tok' = stored /\ acc' = 0 /\ fresh' = FALSE
    /\ gen' = 0
    /\ mu' = Free
    /\ call' = [c \in Callers |-> Idle]
    /\ resumedBehind' = (resumedBehind \/ stored # head)
    /\ refused' = {}
    /\ UNCHANGED <<familyVars, bye, stored, lost, rejected, loggedOut>>

-----------------------------------------------------------------------------
KeeperInit ==
    /\ head = 1 /\ ended = "no" /\ over = FALSE
    /\ tok = 1
    /\ \/ acc = 1 /\ fresh = TRUE /\ gen = 1    \* Login
       \/ acc = 0 /\ fresh = FALSE /\ gen = 0   \* Resume
    /\ mu = Free
    /\ call = [c \in Callers |-> Idle]
    /\ bye = 0
    /\ stored = 1
    /\ lost = FALSE /\ resumedBehind = FALSE /\ loggedOut = FALSE
    /\ rejected = {} /\ refused = {}

KeeperNext ==
    \/ \E c \in Callers :
        \/ Start(c) \/ Credential(c) \/ SessionRefresh(c)
        \/ \E acts \in BOOLEAN : Returns(c, acts) \/ Again(c, acts)
        \/ Unauthorized(c)
        \/ Redeem(c) \/ Apply(c) \/ Refused(c) \/ RefreshFails(c) \/ Callback(c)
    \/ Logout \/ LogoutArrives \/ Expire \/ FamilyEnds \/ Resume

KeeperSpec == KeeperInit /\ [][KeeperNext]_keeperVars

-----------------------------------------------------------------------------
(* Properties *)

KeeperTypeOK ==
    /\ {head, tok, acc, bye, stored} \subseteq Generations
    /\ ended \in {"no", "logout", "reuse"}
    /\ gen \in Nat
    /\ mu \in Callers \cup {Free}
    /\ {over, fresh, lost, resumedBehind, loggedOut} \subseteq BOOLEAN
    /\ \A c \in Callers : (mu = c) = (call[c].pc \in {"redeem", "answer"})

\* However many goroutines refresh, the family is only ever ended as reused
\* after the answer of a refresh was lost, or after a process resumed a token
\* that was not the newest.
ReuseNeedsLoss == ended = "reuse" => lost \/ resumedBehind

\* One refresh per expiry: what is being refreshed is missing, past refreshAt, or
\* was rejected, never the token another goroutine has just obtained.
OneRefreshPerExpiry ==
    \A c \in Callers : At(c, "redeem") => acc = 0 \/ ~fresh \/ acc \in rejected

\* A token the server has refused is never presented again by this process.
RefusedIsDropped == \A c \in Callers : At(c, "redeem") => tok \notin refused

\* After Logout the process holds no credential, whatever was under way.
LogoutIsFinal == loggedOut => tok = 0 /\ acc = 0

\* A call of an unsafe method acts at most once, with the replay after a 401.
ActsOnce == \A c \in Callers : call[c].acted <= 1

KeeperCorrect ==
    /\ KeeperTypeOK
    /\ ReuseNeedsLoss
    /\ OneRefreshPerExpiry
    /\ RefusedIsDropped
    /\ LogoutIsFinal
    /\ ActsOnce

\* What is persisted is the newest token once every callback has returned. Does not
\* hold: two callbacks may run in the inverse order of their rotations.
PersistedIsNewest ==
    (\A c \in Callers : At(c, "idle")) /\ tok # 0 /\ ~lost => stored = tok
=============================================================================
