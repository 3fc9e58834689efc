---------------------------- MODULE AccountProofs ----------------------------
(***************************************************************************)
(* Proofs about one account: its sessions (Sessions.tla) for any number of  *)
(* concurrent requests and any failures between their statements, and its    *)
(* second factor (SecondFactor.tla).                                        *)
(***************************************************************************)
EXTENDS MCAuth, TLAPS

-----------------------------------------------------------------------------
(* Sessions *)

Working == {"rehash", "stamp", "open", "rotate", "check", "hash", "set", "sweep",
            "credential_change", "reuse_detected"}
OwnerRows == [changedAt : Times, status : Statuses, epoch : 0..MaxEpoch]

SessionTypes ==
    /\ {hash, chosen} \subseteq Passwords /\ weak \in BOOLEAN
    /\ changedAt \in Times /\ status \in Statuses
    /\ family \in [FamilyIds -> FamilyRows \cup {Nobody}]
    /\ token \in [TokenIds -> TokenRows \cup {Nobody}]
    /\ wall \in Times
    /\ pc \in [Requests -> Working \cup {"idle"}]
    /\ arg \in [Requests -> Passwords \cup TokenIds \cup {Nobody}]
    /\ seen \in [Requests -> OwnerRows \cup {Nobody}]
    /\ stamp \in [Requests -> Times]
    /\ epoch \in 0..MaxEpoch /\ swept \in 0..epoch
    /\ told \subseteq Stored(family)

\* What a request holds at each statement: a token that is stored, with the owner as he
\* was at some earlier time, or a password to write.
RequestInv(r) ==
    /\ pc[r] \in {"rotate", "check", "credential_change", "reuse_detected"} =>
          arg[r] \in TokenIds /\ token[arg[r]] # Nobody
    /\ pc[r] \in {"rehash", "hash", "set"} => arg[r] \in Passwords
    /\ pc[r] \in {"rotate", "check"} =>
          /\ seen[r] \in OwnerRows /\ seen[r].epoch <= epoch
          /\ seen[r].epoch = epoch => seen[r].changedAt = changedAt

\* A token belongs to a family, a successor to a redeemed token of the same one.
LinksInv ==
    \A t \in TokenIds : token[t] # Nobody =>
        /\ family[FamilyOf(t)] # Nobody
        /\ token[t].parent # Nobody => /\ token[token[t].parent] # Nobody
                                       /\ FamilyOf(token[t].parent) = FamilyOf(t)
                                       /\ token[token[t].parent].used

SessionsInv ==
    /\ SessionTypes
    /\ \A r \in Requests : RequestInv(r)
    /\ LinksInv
    /\ OneLine /\ AnsweredEnds /\ LifetimeKept /\ ChangeEvicts

LEMMA SessionsInitial == SessionsInit => SessionsInv
<1> SUFFICES ASSUME SessionsInit PROVE SessionsInv
  OBVIOUS
<1>1. Stored(family) = {} /\ Stored(token) = {}
  BY DEF SessionsInit, Stored
<1>2. 0 \in Times /\ 0 \in 0..MaxEpoch /\ 0 \in 0..0
  BY SessionsAssumption DEF Times
<1>3. SessionTypes
  BY <1>1, <1>2 DEF SessionsInit, SessionTypes, Statuses
<1>4. \A r \in Requests : RequestInv(r)
  BY DEF SessionsInit, RequestInv
<1>5. LinksInv
  BY DEF SessionsInit, LinksInv
<1> QED BY <1>1, <1>3, <1>4, <1>5
    DEF SessionsInv, OneLine, AnsweredEnds, LifetimeKept, ChangeEvicts, SessionsInit

-----------------------------------------------------------------------------
(* The rows of the two tables *)

\* What the steps do to the tables: a step that leaves them alone keeps what is said of
\* them, if it changes neither the history nor who was answered.
RowsInv == LinksInv /\ OneLine /\ LifetimeKept

LEMMA RowsKept ==
    ASSUME RowsInv, UNCHANGED <<family, token>>
    PROVE  RowsInv'
BY DEF RowsInv, LinksInv, OneLine, LifetimeKept, FamilyOf, Stored

\* Revocation keeps every row but for the reason of those that had none.
LEMMA RevokedFacts ==
    ASSUME SessionTypes, NEW fs, NEW reason \in Reasons, family' = Revoked(fs, reason)
    PROVE  /\ family' \in [FamilyIds -> FamilyRows \cup {Nobody}]
           /\ \A f \in FamilyIds :
                /\ family[f] = Nobody <=> family'[f] = Nobody
                /\ family[f] # Nobody =>
                      /\ family'[f].started = family[f].started
                      /\ family'[f].insertedIn = family[f].insertedIn
                      /\ family[f].revoked # "no" => family'[f] = family[f]
                      /\ f \in fs => family'[f].revoked # "no"
<1> SUFFICES ASSUME NEW f \in FamilyIds
             PROVE  /\ family'[f] \in FamilyRows \cup {Nobody}
                    /\ family[f] = Nobody <=> family'[f] = Nobody
                    /\ family[f] # Nobody =>
                          /\ family'[f].started = family[f].started
                          /\ family'[f].insertedIn = family[f].insertedIn
                          /\ family[f].revoked # "no" => family'[f] = family[f]
                          /\ f \in fs => family'[f].revoked # "no"
  BY DEF Revoked
<1>1. family[f] \in FamilyRows \cup {Nobody} /\ Nobody \notin FamilyRows /\ reason # "no"
  BY SessionsAssumption DEF SessionTypes, Reasons
<1>2. CASE family[f] = Nobody
  BY <1>1, <1>2 DEF Revoked
<1>3. CASE family[f] \in FamilyRows
  <2>1. FamilyRow(family[f].started, family[f].insertedIn, reason) \in FamilyRows
    BY <1>3 DEF FamilyRows, FamilyRow
  <2> QED BY <1>1, <1>3, <2>1 DEF Revoked, FamilyRow
<1> QED BY <1>1, <1>2, <1>3

LEMMA RowsRevoked ==
    ASSUME SessionTypes, RowsInv, NEW fs, NEW reason \in Reasons,
           family' = Revoked(fs, reason), UNCHANGED token
    PROVE  RowsInv'
<1>1. \A f \in FamilyIds : /\ family[f] = Nobody <=> family'[f] = Nobody
                           /\ family[f] # Nobody => family'[f].started = family[f].started
  BY RevokedFacts
<1>2. \A t \in Stored(token) : FamilyOf(t) \in FamilyIds
  BY DEF SessionTypes, Stored, FamilyOf, TokenRows
<1>3. LinksInv'
  BY <1>1, <1>2 DEF RowsInv, LinksInv, FamilyOf, Stored, SessionTypes
<1>4. OneLine'
  BY DEF RowsInv, OneLine, Stored, FamilyOf
<1>5. LifetimeKept'
  BY <1>1, <1>2, <1>3 DEF RowsInv, LifetimeKept, LinksInv, Stored, FamilyOf, SessionTypes
<1> QED BY <1>3, <1>4, <1>5 DEF RowsInv

LEMMA Expiry ==
    ASSUME NEW issued \in Times, NEW started \in Times
    PROVE  /\ CappedExpiry(issued, started) \in Nat
           /\ SessionLifetime > 0 => CappedExpiry(issued, started) <= started + SessionLifetime
BY SessionsAssumption DEF Times, CappedExpiry, Smaller

\* A login's session: one token in a family that had none.
LEMMA RowsOpened ==
    ASSUME SessionTypes, RowsInv, NEW r \in Requests, NEW f \in FamilyIds, NEW t \in TokenIds,
           LoginOpens(r, f, t)
    PROVE  /\ family' \in [FamilyIds -> FamilyRows \cup {Nobody}]
           /\ token' \in [TokenIds -> TokenRows \cup {Nobody}]
           /\ RowsInv'
<1> DEFINE row == FamilyRow(stamp[r], epoch, "no")
           root == TokenRow(f, Nobody, FALSE, CappedExpiry(stamp[r], stamp[r]))
<1>1. /\ family[f] = Nobody /\ token[t] = Nobody
      /\ family' = [family EXCEPT ![f] = row]
      /\ token' = [token EXCEPT ![t] = root]
  BY DEF LoginOpens
<1>2. stamp[r] \in Times /\ epoch \in 0..MaxEpoch
  BY DEF SessionTypes
<1>3. row \in FamilyRows /\ row.started = stamp[r]
  BY <1>2 DEF FamilyRow, FamilyRows
<1>4. /\ root \in TokenRows
      /\ root.family = f /\ root.parent = Nobody /\ ~root.used
      /\ root.expires = CappedExpiry(stamp[r], stamp[r])
  BY <1>2, Expiry DEF TokenRow, TokenRows
<1>5. Nobody \notin FamilyRows /\ Nobody \notin TokenRows /\ Nobody \notin TokenIds
  BY SessionsAssumption
<1>6. \A u \in TokenIds : token[u] # Nobody => /\ token[u] \in TokenRows
                                               /\ token[u].family \in FamilyIds \ {f}
                                               /\ token[u].parent \in TokenIds \cup {Nobody}
  BY <1>1 DEF SessionTypes, RowsInv, LinksInv, FamilyOf, TokenRows
<1>7. /\ family' \in [FamilyIds -> FamilyRows \cup {Nobody}]
      /\ family'[f] = row /\ \A g \in FamilyIds \ {f} : family'[g] = family[g]
  BY <1>1, <1>3 DEF SessionTypes
<1>8. /\ token' \in [TokenIds -> TokenRows \cup {Nobody}]
      /\ token'[t] = root /\ \A u \in TokenIds \ {t} : token'[u] = token[u]
  BY <1>1, <1>4 DEF SessionTypes
<1>9. \A u \in TokenIds : token'[u] = token[u] \/ (u = t /\ token'[u] = root)
  BY <1>8
<1> HIDE DEF row, root
<1>10. LinksInv'
  <2> SUFFICES ASSUME NEW u \in TokenIds, token'[u] # Nobody
               PROVE  /\ family'[token'[u].family] # Nobody
                      /\ token'[u].parent # Nobody =>
                            /\ token'[token'[u].parent] # Nobody
                            /\ token'[token'[u].parent].family = token'[u].family
                            /\ token'[token'[u].parent].used
    BY DEF LinksInv, FamilyOf
  <2>1. CASE u = t
    BY <2>1, <1>3, <1>4, <1>5, <1>7, <1>8
  <2>2. CASE u # t
    <3>1. token'[u] = token[u] /\ token[u] # Nobody
      BY <2>2, <1>8
    <3>2. family[token[u].family] # Nobody
      BY <3>1 DEF RowsInv, LinksInv, FamilyOf
    <3>3. token[u].parent # Nobody =>
              /\ token[u].parent \in TokenIds \ {t}
              /\ token[token[u].parent] # Nobody
              /\ token[token[u].parent].family = token[u].family
              /\ token[token[u].parent].used
      BY <3>1, <1>1, <1>6 DEF RowsInv, LinksInv, FamilyOf
    <3> QED BY <3>1, <3>2, <3>3, <1>6, <1>7, <1>8
  <2> QED BY <2>1, <2>2
<1>11. OneLine'
  <2> SUFFICES ASSUME NEW u \in TokenIds, NEW v \in TokenIds, token'[u] # Nobody, token'[v] # Nobody,
                      u # v, token'[u].family = token'[v].family
               PROVE  /\ token'[u].used \/ token'[v].used
                      /\ token'[u].parent # token'[v].parent
    BY <1>8 DEF OneLine, Stored, FamilyOf
  <2>1. u # t /\ v # t
    BY <1>4, <1>6, <1>8
  <2>2. token'[u] = token[u] /\ token'[v] = token[v]
    BY <2>1, <1>8
  <2> QED BY <2>2 DEF RowsInv, OneLine, Stored, FamilyOf, SessionTypes
<1>12. LifetimeKept'
  <2> SUFFICES ASSUME SessionLifetime > 0, NEW u \in TokenIds, token'[u] # Nobody
               PROVE  token'[u].expires <= family'[token'[u].family].started + SessionLifetime
    BY <1>8 DEF LifetimeKept, Stored, FamilyOf
  <2>1. CASE u = t
    BY <2>1, <1>2, <1>3, <1>4, <1>7, <1>8, Expiry
  <2>2. CASE u # t
    <3>1. token'[u] = token[u] /\ u \in Stored(token)
      BY <2>2, <1>8 DEF Stored, SessionTypes
    <3>2. family'[token[u].family] = family[token[u].family]
      BY <3>1, <1>6, <1>7 DEF Stored
    <3> QED BY <3>1, <3>2 DEF RowsInv, LifetimeKept, FamilyOf
  <2> QED BY <2>1, <2>2
<1> QED BY <1>7, <1>8, <1>10, <1>11, <1>12 DEF RowsInv

\* A redemption: the token is used, and its family has one more, its only successor.
LEMMA RowsRedeemed ==
    ASSUME SessionTypes, RowsInv, NEW r \in Requests, RequestInv(r), NEW new \in TokenIds,
           RotateRedeems(r, new)
    PROVE  /\ token' \in [TokenIds -> TokenRows \cup {Nobody}]
           /\ RowsInv'
           /\ \A u \in TokenIds : token[u] # Nobody =>
                 token'[u] # Nobody /\ token'[u].family = token[u].family
           /\ \A u \in TokenIds \ {new} : token'[u] # Nobody => token[u] # Nobody
           /\ token'[new].family = token[arg[r]].family
           /\ family[token[arg[r]].family].revoked = "no"
           /\ ~(family[token[arg[r]].family].started < seen[r].changedAt)
<1> DEFINE t == arg[r]
           fam == token[t].family
           expires == CappedExpiry(stamp[r], family[fam].started)
           old == TokenRow(fam, token[t].parent, TRUE, token[t].expires)
           next == TokenRow(fam, t, FALSE, expires)
<1>1. /\ pc[r] = "rotate" /\ Verdict(r) = "ok" /\ token[new] = Nobody
      /\ token' = Successor(t, new, expires) /\ UNCHANGED family
  BY DEF RotateRedeems, FamilyOf
<1>2. t \in TokenIds /\ token[t] # Nobody /\ t # new
  BY <1>1 DEF RequestInv
<1>3. Nobody \notin FamilyRows /\ Nobody \notin TokenRows /\ Nobody \notin TokenIds
  BY SessionsAssumption
<1>4. /\ family[fam].revoked = "no"
      /\ ~(family[fam].started < seen[r].changedAt)
      /\ ~token[t].used
  BY <1>1 DEF Verdict, FamilyOf
<1>5. \A u \in TokenIds : token[u] # Nobody => /\ token[u] \in TokenRows
                                               /\ token[u].family \in FamilyIds
                                               /\ family[token[u].family] # Nobody
                                               /\ token[u].parent \in TokenIds \cup {Nobody}
  BY DEF SessionTypes, RowsInv, LinksInv, FamilyOf, TokenRows
<1>6. /\ family[fam] \in FamilyRows /\ family[fam].started \in Times /\ stamp[r] \in Times
      /\ token[t].expires \in Nat
  BY <1>2, <1>5 DEF SessionTypes, FamilyRows, TokenRows
<1>7. /\ expires \in Nat
      /\ SessionLifetime > 0 => expires <= family[fam].started + SessionLifetime
  BY <1>6, Expiry
<1>8. /\ old \in TokenRows /\ old.family = fam /\ old.parent = token[t].parent
      /\ old.used /\ old.expires = token[t].expires
  BY <1>2, <1>5, <1>6 DEF TokenRow, TokenRows
<1>9. /\ next \in TokenRows /\ next.family = fam /\ next.parent = t
      /\ ~next.used /\ next.expires = expires
  BY <1>2, <1>5, <1>7 DEF TokenRow, TokenRows
<1>10. /\ token'[t] = old /\ token'[new] = next
       /\ \A u \in TokenIds \ {t, new} : token'[u] = token[u]
  BY <1>1, <1>2 DEF Successor, FamilyOf
<1>11. token' \in [TokenIds -> TokenRows \cup {Nobody}]
  BY <1>1, <1>5, <1>8, <1>9, <1>10 DEF Successor, FamilyOf
<1>12. /\ \A u \in TokenIds : token[u] # Nobody => /\ token'[u] # Nobody
                                                   /\ token'[u].family = token[u].family
                                                   /\ token'[u].parent = token[u].parent
                                                   /\ token'[u].expires = token[u].expires
                                                   /\ token[u].used => token'[u].used
       /\ \A u \in TokenIds \ {new} : token'[u] # Nobody => token[u] # Nobody
  BY <1>1, <1>2, <1>3, <1>8, <1>10
<1> HIDE DEF t, fam, expires, old, next
<1>13. LinksInv'
  <2> SUFFICES ASSUME NEW u \in TokenIds, token'[u] # Nobody
               PROVE  /\ family[token'[u].family] # Nobody
                      /\ token'[u].parent # Nobody =>
                            /\ token'[token'[u].parent] # Nobody
                            /\ token'[token'[u].parent].family = token'[u].family
                            /\ token'[token'[u].parent].used
    BY <1>1 DEF LinksInv, FamilyOf
  <2>1. CASE u = new
    BY <2>1, <1>3, <1>6, <1>8, <1>9, <1>10 DEF fam
  <2>2. CASE u # new
    <3>1. token[u] # Nobody
      BY <2>2, <1>12
    <3>2. token[u].parent # Nobody =>
              /\ token[u].parent \in TokenIds
              /\ token[token[u].parent] # Nobody
              /\ token[token[u].parent].family = token[u].family
              /\ token[token[u].parent].used
      BY <3>1, <1>5 DEF RowsInv, LinksInv, FamilyOf
    <3> QED BY <3>1, <3>2, <1>5, <1>12
  <2> QED BY <2>1, <2>2
<1>14. \A u \in TokenIds : token[u] # Nobody /\ u # t /\ token[u].family = fam =>
          token[u].used
  BY <1>2, <1>4 DEF RowsInv, OneLine, Stored, FamilyOf, SessionTypes, t, fam
<1>15. \A u \in TokenIds : token[u] # Nobody => token[u].parent # t
  BY <1>2, <1>3, <1>4 DEF RowsInv, LinksInv, t
<1>16. OneLine'
  <2>1. \A u, v \in TokenIds : token'[u] # Nobody /\ token'[v] # Nobody /\ u # v /\ u # new
              /\ token'[u].family = token'[v].family =>
            /\ token'[u].used \/ token'[v].used
            /\ token'[u].parent # token'[v].parent
    <3> SUFFICES ASSUME NEW u \in TokenIds, NEW v \in TokenIds, token'[u] # Nobody, token'[v] # Nobody,
                        u # v, u # new, token'[u].family = token'[v].family
                 PROVE  /\ token'[u].used \/ token'[v].used
                        /\ token'[u].parent # token'[v].parent
      OBVIOUS
    <3>1. token[u] # Nobody
      BY <1>12
    <3>2. CASE v = new
      <4>1. token[u].family = fam
        BY <3>1, <3>2, <1>9, <1>10, <1>12
      <4>2. token'[u].used
        BY <3>1, <4>1, <1>8, <1>10, <1>12, <1>14
      <4> QED BY <3>1, <3>2, <4>2, <1>9, <1>10, <1>12, <1>15
    <3>3. CASE v # new
      <4>1. token[v] # Nobody /\ token[u].family = token[v].family
        BY <3>1, <3>3, <1>12
      <4>2. /\ token[u].used \/ token[v].used
            /\ token[u].parent # token[v].parent
        BY <3>1, <4>1 DEF RowsInv, OneLine, Stored, FamilyOf, SessionTypes
      <4> QED BY <3>1, <4>1, <4>2, <1>12
    <3> QED BY <3>2, <3>3
  <2> QED BY <2>1, <1>11 DEF OneLine, Stored, FamilyOf
<1>17. LifetimeKept'
  <2> SUFFICES ASSUME SessionLifetime > 0, NEW u \in TokenIds, token'[u] # Nobody
               PROVE  token'[u].expires <= family[token'[u].family].started + SessionLifetime
    BY <1>1, <1>11 DEF LifetimeKept, Stored, FamilyOf
  <2>1. CASE u = new
    BY <2>1, <1>7, <1>9, <1>10
  <2>2. CASE u # new
    BY <2>2, <1>12 DEF RowsInv, LifetimeKept, Stored, FamilyOf, SessionTypes
  <2> QED BY <2>1, <2>2
<1> QED BY <1>4, <1>9, <1>10, <1>11, <1>12, <1>13, <1>16, <1>17 DEF RowsInv, t, fam

-----------------------------------------------------------------------------
(* The requests *)

\* A request's step leaves the others what they hold: tokens stay, and a password is
\* changed together with the epoch.
LEMMA OthersKept ==
    ASSUME SessionTypes, \A q \in Requests : RequestInv(q), NEW r \in Requests, RequestInv(r)',
           \A q \in Requests \ {r} :
              pc'[q] = pc[q] /\ arg'[q] = arg[q] /\ seen'[q] = seen[q],
           \A t \in TokenIds : token[t] # Nobody => token'[t] # Nobody,
           epoch' \in Nat, epoch <= epoch', epoch' = epoch => changedAt' = changedAt
    PROVE  \A q \in Requests : RequestInv(q)'
<1> SUFFICES ASSUME NEW q \in Requests \ {r} PROVE RequestInv(q)'
  OBVIOUS
<1>1. RequestInv(q)
  OBVIOUS
<1>2. epoch \in Nat
  BY DEF SessionTypes
<1>3. seen[q] \in OwnerRows => seen[q].epoch \in Nat
  BY DEF OwnerRows
<1> QED BY <1>1, <1>2, <1>3 DEF RequestInv

\* The local state after Begin, a move to the next statement, and an answer.
LocalTypes ==
    /\ pc \in [Requests -> Working \cup {"idle"}]
    /\ arg \in [Requests -> Passwords \cup TokenIds \cup {Nobody}]
    /\ seen \in [Requests -> OwnerRows \cup {Nobody}]
    /\ stamp \in [Requests -> Times]

LEMMA Begun ==
    ASSUME SessionTypes, NEW r \in Requests, NEW where \in Working,
           NEW a \in Passwords \cup TokenIds \cup {Nobody}, NEW owner \in OwnerRows \cup {Nobody},
           NEW at0 \in Times, Begin(r, where, a, owner, at0)
    PROVE  /\ LocalTypes'
           /\ pc'[r] = where /\ arg'[r] = a /\ seen'[r] = owner
           /\ \A q \in Requests \ {r} :
                 pc'[q] = pc[q] /\ arg'[q] = arg[q] /\ seen'[q] = seen[q]
BY DEF SessionTypes, LocalTypes, Begin, Goto

LEMMA AnsweredFacts ==
    ASSUME SessionTypes, NEW r \in Requests, Answered(r)
    PROVE  /\ LocalTypes'
           /\ pc'[r] = "idle"
           /\ \A q \in Requests \ {r} :
                 pc'[q] = pc[q] /\ arg'[q] = arg[q] /\ seen'[q] = seen[q]
<1>1. 0 \in Times
  BY SessionsAssumption DEF Times
<1> QED BY <1>1 DEF SessionTypes, LocalTypes, Answered, Goto

LEMMA IdleKept ==
    ASSUME SessionTypes, \A q \in Requests : RequestInv(q), NEW r \in Requests, Answered(r),
           \A t \in TokenIds : token[t] # Nobody => token'[t] # Nobody,
           UNCHANGED <<epoch, changedAt>>
    PROVE  \A q \in Requests : RequestInv(q)'
<1>1. /\ pc'[r] = "idle"
      /\ \A q \in Requests \ {r} :
            pc'[q] = pc[q] /\ arg'[q] = arg[q] /\ seen'[q] = seen[q]
  BY AnsweredFacts
<1>2. RequestInv(r)'
  BY <1>1 DEF RequestInv
<1>3. epoch' \in Nat /\ epoch <= epoch'
  BY DEF SessionTypes
<1> QED BY <1>1, <1>2, <1>3, OthersKept

\* A step that leaves the sessions and the history alone.
LEMMA Quiet ==
    ASSUME SessionsInv, UNCHANGED <<family, token, history, changedAt>>,
           hash' \in Passwords, weak' \in BOOLEAN, status' \in Statuses, wall' \in Times,
           LocalTypes', \A q \in Requests : RequestInv(q)'
    PROVE  SessionsInv'
<1>1. RowsInv'
  BY RowsKept DEF SessionsInv, RowsInv, history
<1>2. SessionTypes'
  BY DEF SessionsInv, SessionTypes, LocalTypes, history, Stored
<1>3. AnsweredEnds' /\ ChangeEvicts'
  BY DEF SessionsInv, AnsweredEnds, ChangeEvicts, history, Stored
<1> QED BY <1>1, <1>2, <1>3 DEF SessionsInv, RowsInv

\* A step that revokes, for whatever reason, what it tells the end of.
LEMMA Revoking ==
    ASSUME SessionsInv, NEW fs, NEW reason \in Reasons, family' = Revoked(fs, reason),
           UNCHANGED <<userRow, token, wall, epoch, chosen>>,
           LocalTypes', \A q \in Requests : RequestInv(q)',
           told' \subseteq told \cup (fs \cap Stored(family)),
           swept' = swept \/ (swept' = epoch /\ FamilyIds \subseteq fs)
    PROVE  SessionsInv'
<1>1. SessionTypes /\ RowsInv /\ AnsweredEnds /\ ChangeEvicts
  BY DEF SessionsInv, RowsInv
<1>2. /\ family' \in [FamilyIds -> FamilyRows \cup {Nobody}]
      /\ \A f \in FamilyIds :
           /\ family[f] = Nobody <=> family'[f] = Nobody
           /\ family[f] # Nobody =>
                 /\ family'[f].started = family[f].started
                 /\ family'[f].insertedIn = family[f].insertedIn
                 /\ family[f].revoked # "no" => family'[f] = family[f]
                 /\ f \in fs => family'[f].revoked # "no"
  BY <1>1, RevokedFacts
<1>3. RowsInv'
  BY <1>1, RowsRevoked
<1>4. Stored(family)' = Stored(family) /\ Stored(family) \subseteq FamilyIds
  BY <1>1, <1>2 DEF Stored, SessionTypes
<1>5. swept' \in 0..epoch'
  BY <1>1 DEF SessionTypes
<1>6. SessionTypes'
  BY <1>1, <1>2, <1>4, <1>5 DEF SessionTypes, LocalTypes, userRow
<1>7. AnsweredEnds'
  <2> SUFFICES ASSUME NEW f \in told' PROVE family'[f].revoked # "no"
    BY DEF AnsweredEnds
  <2>1. f \in FamilyIds /\ family[f] # Nobody /\ (f \in told \/ f \in fs)
    BY <1>1, <1>4 DEF SessionTypes, Stored
  <2> QED BY <2>1, <1>1, <1>2 DEF AnsweredEnds
<1>8. ChangeEvicts'
  <2> SUFFICES ASSUME NEW f \in Stored(family), family'[f].insertedIn < swept'
               PROVE  family'[f].revoked # "no"
    BY <1>4 DEF ChangeEvicts
  <2>1. f \in FamilyIds /\ family[f] # Nobody
    BY <1>4 DEF Stored
  <2> QED BY <2>1, <1>1, <1>2 DEF ChangeEvicts
<1> QED BY <1>3, <1>6, <1>7, <1>8 DEF SessionsInv, RowsInv

\* The requests' other steps, each for one request.
LEMMA QuietStep ==
    ASSUME SessionsInv, NEW r \in Requests,
           \/ LoginVerifies(r) \/ LoginRehashes(r) \/ LoginStamps(r)
           \/ \E t \in TokenIds : RotateReads(r, t)
           \/ RotateRefuses(r) \/ RotateDetects(r) \/ RefreshGrants(r)
           \/ \E new \in Passwords : ChangeVerifies(r, new)
           \/ ChangeStamps(r) \/ Abandons(r)
    PROVE  SessionsInv'
<1>1. /\ SessionTypes /\ RequestInv(r) /\ \A q \in Requests : RequestInv(q)
      /\ hash \in Passwords /\ weak \in BOOLEAN /\ status \in Statuses /\ wall \in Times
      /\ epoch \in Nat /\ 0 \in Times /\ changedAt \in Times
  BY SessionsAssumption DEF SessionsInv, SessionTypes, Times
<1>2. CASE RotateRefuses(r) \/ RefreshGrants(r) \/ Abandons(r)
  <2>1. Answered(r) /\ UNCHANGED <<userRow, family, token, wall, history>>
    BY <1>2 DEF RotateRefuses, RefreshGrants, Abandons
  <2>2. \A q \in Requests : RequestInv(q)'
    BY <1>1, <2>1, IdleKept DEF userRow, history
  <2>3. LocalTypes'
    BY <1>1, <2>1, AnsweredFacts
  <2> QED BY <1>1, <2>1, <2>2, <2>3, Quiet DEF userRow
<1>3. CASE LoginVerifies(r)
  <2>1. PICK where \in Working, a \in Passwords \cup {Nobody} :
            where \in {"rehash", "stamp"} /\ (where = "rehash" => a \in Passwords) /\ Begin(r, where, a, Nobody, 0)
    BY <1>1, <1>3 DEF LoginVerifies, Working
  <2>2. UNCHANGED <<userRow, family, token, wall, history>>
    BY <1>3 DEF LoginVerifies
  <2>3. /\ LocalTypes' /\ pc'[r] = where /\ arg'[r] = a
        /\ \A q \in Requests \ {r} : pc'[q] = pc[q] /\ arg'[q] = arg[q] /\ seen'[q] = seen[q]
    BY <1>1, <2>1, Begun
  <2>4. RequestInv(r)'
    BY <2>1, <2>3 DEF RequestInv
  <2>5. \A q \in Requests : RequestInv(q)'
    BY <1>1, <2>2, <2>3, <2>4, OthersKept DEF userRow, history
  <2> QED BY <1>1, <2>2, <2>3, <2>5, Quiet DEF userRow
<1>4. CASE \E new \in Passwords : ChangeVerifies(r, new)
  <2>1. PICK new \in Passwords : ChangeVerifies(r, new)
    BY <1>4
  <2>2. Begin(r, "hash", new, Nobody, 0) /\ UNCHANGED <<userRow, family, token, wall, history>>
    BY <2>1 DEF ChangeVerifies
  <2>3. /\ LocalTypes' /\ pc'[r] = "hash" /\ arg'[r] = new
        /\ \A q \in Requests \ {r} : pc'[q] = pc[q] /\ arg'[q] = arg[q] /\ seen'[q] = seen[q]
    BY <1>1, <2>2, Begun DEF Working
  <2>4. RequestInv(r)'
    BY <2>3 DEF RequestInv
  <2>5. \A q \in Requests : RequestInv(q)'
    BY <1>1, <2>2, <2>3, <2>4, OthersKept DEF userRow, history
  <2> QED BY <1>1, <2>2, <2>3, <2>5, Quiet DEF userRow
<1>5. CASE \E t \in TokenIds : RotateReads(r, t)
  <2>1. PICK t \in TokenIds : RotateReads(r, t)
    BY <1>5
  <2>2. /\ token[t] # Nobody /\ Begin(r, "rotate", t, OwnerRow, wall)
        /\ UNCHANGED <<userRow, family, token, wall, history>>
    BY <2>1 DEF RotateReads
  <2>3. OwnerRow \in OwnerRows /\ OwnerRow.epoch = epoch /\ OwnerRow.changedAt = changedAt
    BY <1>1 DEF OwnerRow, OwnerRows, SessionTypes
  <2>4. /\ LocalTypes' /\ pc'[r] = "rotate" /\ arg'[r] = t /\ seen'[r] = OwnerRow
        /\ \A q \in Requests \ {r} : pc'[q] = pc[q] /\ arg'[q] = arg[q] /\ seen'[q] = seen[q]
    BY <1>1, <2>2, <2>3, Begun DEF Working
  <2>5. RequestInv(r)'
    BY <1>1, <2>2, <2>3, <2>4 DEF RequestInv, userRow, history
  <2>6. \A q \in Requests : RequestInv(q)'
    BY <1>1, <2>2, <2>4, <2>5, OthersKept DEF userRow, history
  <2> QED BY <1>1, <2>2, <2>4, <2>6, Quiet DEF userRow
<1>6. CASE LoginRehashes(r) \/ LoginStamps(r) \/ RotateDetects(r) \/ ChangeStamps(r)
  <2>1. UNCHANGED <<family, token, wall, changedAt, status, seen, history>>
    BY <1>6 DEF LoginRehashes, LoginStamps, RotateDetects, ChangeStamps, userRow, local
  <2>2. hash' \in Passwords /\ weak' \in BOOLEAN
    BY <1>1, <1>6 DEF LoginRehashes, LoginStamps, RotateDetects, ChangeStamps, userRow, RequestInv
  <2>3. LocalTypes'
    BY <1>1, <1>6 DEF SessionTypes, LocalTypes, Goto, Working, LoginRehashes, LoginStamps,
                      RotateDetects, ChangeStamps
  <2>4. \A q \in Requests \ {r} : pc'[q] = pc[q] /\ arg'[q] = arg[q] /\ seen'[q] = seen[q]
    BY <1>1, <1>6, <2>1 DEF SessionTypes, Goto, LoginRehashes, LoginStamps, RotateDetects, ChangeStamps
  <2>5. RequestInv(r)'
    BY <1>1, <1>6, <2>1 DEF SessionTypes, RequestInv, Goto, LoginRehashes, LoginStamps,
                            RotateDetects, ChangeStamps
  <2>6. \A q \in Requests : RequestInv(q)'
    BY <1>1, <2>1, <2>4, <2>5, OthersKept DEF history
  <2> QED BY <1>1, <2>1, <2>2, <2>3, <2>6, Quiet
<1> QED BY <1>2, <1>3, <1>4, <1>5, <1>6

LEMMA RevokingStep ==
    ASSUME SessionsInv,
           \/ \E r \in Requests : RotateRevokes(r) \/ RefreshBarred(r) \/ ChangeSweeps(r)
           \/ \E t \in TokenIds : Logout(t)
           \/ LogoutEverywhere
    PROVE  SessionsInv'
<1>1. /\ SessionTypes /\ \A q \in Requests : RequestInv(q)
      /\ \A t \in TokenIds : token[t] # Nobody =>
            FamilyOf(t) \in FamilyIds /\ FamilyOf(t) \in Stored(family)
  BY DEF SessionsInv, SessionTypes, LinksInv, FamilyOf, TokenRows, Stored
<1>2. ASSUME NEW r \in Requests, RotateRevokes(r) \/ RefreshBarred(r) \/ ChangeSweeps(r)
      PROVE  SessionsInv'
  <2>1. Answered(r) /\ UNCHANGED <<userRow, token, wall, epoch, chosen>>
    BY <1>2 DEF RotateRevokes, RefreshBarred, ChangeSweeps, history
  <2>2. LocalTypes' /\ \A q \in Requests : RequestInv(q)'
    BY <1>1, <2>1, AnsweredFacts, IdleKept DEF userRow
  <2>3. CASE RotateRevokes(r)
    <3>1. pc[r] \in Reasons /\ arg[r] \in TokenIds /\ token[arg[r]] # Nobody
      BY <1>1, <2>3 DEF RotateRevokes, Convicted, Reasons, RequestInv
    <3>2. /\ family' = Revoked({FamilyOf(arg[r])}, pc[r]) /\ UNCHANGED swept
          /\ told' = told \cup {FamilyOf(arg[r])}
      BY <2>3 DEF RotateRevokes, Tells
    <3>3. told' \subseteq told \cup ({FamilyOf(arg[r])} \cap Stored(family))
      BY <1>1, <3>1, <3>2
    <3> QED BY <2>1, <2>2, <3>1, <3>2, <3>3, Revoking
  <2>4. CASE RefreshBarred(r)
    <3>1. /\ family' = Revoked({FamilyOf(arg[r])}, "operator") /\ UNCHANGED <<swept, told>>
          /\ "operator" \in Reasons
      BY <2>4 DEF RefreshBarred, Reasons, history
    <3> QED BY <2>1, <2>2, <3>1, Revoking
  <2>5. CASE ChangeSweeps(r)
    <3>1. /\ family' = Revoked(FamilyIds, "credential_change") /\ swept' = epoch /\ UNCHANGED told
          /\ "credential_change" \in Reasons
      BY <2>5 DEF ChangeSweeps, Reasons
    <3> QED BY <2>1, <2>2, <3>1, Revoking
  <2> QED BY <1>2, <2>3, <2>4, <2>5
<1>3. ASSUME \/ \E t \in TokenIds : Logout(t)
             \/ LogoutEverywhere
      PROVE  SessionsInv'
  <2>1. /\ UNCHANGED <<userRow, token, wall, local, epoch, chosen, swept>>
        /\ "logout" \in Reasons
    BY <1>3 DEF Logout, LogoutEverywhere, Reasons
  <2>2. LocalTypes' /\ \A q \in Requests : RequestInv(q)'
    BY <1>1, <2>1 DEF SessionTypes, LocalTypes, local, RequestInv, userRow
  <2>3. CASE \E t \in TokenIds : Logout(t)
    <3>1. PICK t \in TokenIds : Logout(t)
      BY <2>3
    <3>2. /\ family' = Revoked({FamilyOf(t)}, "logout")
          /\ told' \subseteq told \cup ({FamilyOf(t)} \cap Stored(family))
      BY <1>1, <3>1 DEF Logout, Tells
    <3> QED BY <2>1, <2>2, <3>2, Revoking
  <2>4. CASE LogoutEverywhere
    <3>1. /\ family' = Revoked(FamilyIds, "logout")
          /\ told' \subseteq told \cup (FamilyIds \cap Stored(family))
      BY <1>1, <2>4 DEF LogoutEverywhere, Stored, SessionTypes
    <3> QED BY <2>1, <2>2, <3>1, Revoking
  <2> QED BY <1>3, <2>3, <2>4
<1> QED BY <1>2, <1>3

\* The steps that change the tables or the password.
LEMMA OpeningStep ==
    ASSUME SessionsInv, NEW r \in Requests, NEW f \in FamilyIds, NEW t \in TokenIds,
           LoginOpens(r, f, t)
    PROVE  SessionsInv'
<1>1. SessionTypes /\ RowsInv /\ \A q \in Requests : RequestInv(q)
  BY DEF SessionsInv, RowsInv
<1>2. /\ family' \in [FamilyIds -> FamilyRows \cup {Nobody}]
      /\ token' \in [TokenIds -> TokenRows \cup {Nobody}]
      /\ RowsInv'
  BY <1>1, RowsOpened
<1>3. /\ family[f] = Nobody /\ token[t] = Nobody /\ Answered(r)
      /\ family' = [family EXCEPT ![f] = FamilyRow(stamp[r], epoch, "no")]
      /\ \A u \in TokenIds \ {t} : token'[u] = token[u]
      /\ UNCHANGED <<userRow, wall, history>>
  BY <1>1 DEF LoginOpens, SessionTypes
<1>4. LocalTypes' /\ \A q \in Requests : RequestInv(q)'
  BY <1>1, <1>3, AnsweredFacts, IdleKept DEF userRow, history
<1>5. /\ family'[f].insertedIn = epoch
      /\ \A g \in FamilyIds \ {f} : family'[g] = family[g]
  BY <1>1, <1>3 DEF SessionTypes, FamilyRow
<1>6. \A g \in Stored(family) : g \in FamilyIds \ {f} /\ g \in Stored(family)'
  BY <1>1, <1>2, <1>3, <1>5 DEF SessionTypes, Stored
<1>7. SessionTypes'
  BY <1>1, <1>2, <1>3, <1>4, <1>6 DEF SessionTypes, LocalTypes, userRow, history
<1>8. AnsweredEnds'
  BY <1>1, <1>3, <1>5, <1>6 DEF SessionsInv, SessionTypes, AnsweredEnds, history
<1>9. ChangeEvicts'
  <2> SUFFICES ASSUME NEW g \in FamilyIds, family'[g] # Nobody, family'[g].insertedIn < swept
               PROVE  family'[g].revoked # "no"
    BY <1>2, <1>3 DEF ChangeEvicts, Stored, history
  <2>1. g # f
    BY <1>1, <1>5 DEF SessionTypes
  <2> QED BY <2>1, <1>1, <1>5 DEF SessionsInv, SessionTypes, ChangeEvicts, Stored
<1> QED BY <1>2, <1>4, <1>7, <1>8, <1>9 DEF SessionsInv, RowsInv

LEMMA RedeemingStep ==
    ASSUME SessionsInv, NEW r \in Requests, NEW new \in TokenIds, RotateRedeems(r, new)
    PROVE  SessionsInv'
<1>1. SessionTypes /\ RowsInv /\ RequestInv(r) /\ \A q \in Requests : RequestInv(q)
  BY DEF SessionsInv, RowsInv
<1>2. /\ token' \in [TokenIds -> TokenRows \cup {Nobody}]
      /\ RowsInv'
      /\ \A u \in TokenIds : token[u] # Nobody => token'[u] # Nobody
  BY <1>1, RowsRedeemed
<1>3. /\ pc[r] = "rotate" /\ Goto(r, "check")
      /\ UNCHANGED <<userRow, family, wall, arg, seen, stamp, history>>
  BY DEF RotateRedeems
<1>4. LocalTypes' /\ pc'[r] = "check" /\ \A q \in Requests \ {r} : pc'[q] = pc[q]
  BY <1>1, <1>3 DEF Goto, LocalTypes, SessionTypes, Working
<1>5. RequestInv(r)'
  BY <1>1, <1>2, <1>3, <1>4 DEF RequestInv, userRow, history
<1>6. \A q \in Requests : RequestInv(q)'
  <2>1. epoch' \in Nat /\ epoch <= epoch' /\ changedAt' = changedAt
    BY <1>1, <1>3 DEF SessionTypes, userRow, history
  <2> QED BY <1>1, <1>2, <1>3, <1>4, <1>5, <2>1, OthersKept
<1>7. SessionTypes'
  BY <1>1, <1>2, <1>3, <1>4 DEF SessionTypes, LocalTypes, userRow, history, Stored
<1>8. AnsweredEnds' /\ ChangeEvicts'
  BY <1>3 DEF SessionsInv, AnsweredEnds, ChangeEvicts, history, Stored
<1> QED BY <1>2, <1>6, <1>7, <1>8 DEF SessionsInv, RowsInv

LEMMA SettingStep ==
    ASSUME SessionsInv, NEW r \in Requests, ChangeSets(r)
    PROVE  SessionsInv'
<1>1. SessionTypes /\ RowsInv /\ RequestInv(r) /\ \A q \in Requests : RequestInv(q)
  BY DEF SessionsInv, RowsInv
<1>2. /\ pc[r] = "set" /\ epoch < MaxEpoch /\ epoch' = epoch + 1 /\ Goto(r, "sweep")
      /\ hash' = arg[r] /\ chosen' = arg[r] /\ weak' = FALSE /\ changedAt' = stamp[r]
      /\ UNCHANGED <<status, family, token, wall, arg, seen, stamp, swept, told>>
  BY DEF ChangeSets
<1>3. LocalTypes' /\ pc'[r] = "sweep" /\ \A q \in Requests \ {r} : pc'[q] = pc[q]
  BY <1>1, <1>2 DEF Goto, LocalTypes, SessionTypes, Working
<1>4. epoch \in Nat /\ epoch' \in 0..MaxEpoch /\ swept \in 0..epoch' /\ epoch' # epoch
  BY <1>1, <1>2, SessionsAssumption DEF SessionTypes
<1>5. RequestInv(r)'
  BY <1>3 DEF RequestInv
<1>6. \A q \in Requests : RequestInv(q)'
  <2>1. epoch' \in Nat /\ epoch <= epoch'
    BY <1>2, <1>4
  <2> QED BY <1>1, <1>2, <1>3, <1>4, <1>5, <2>1, OthersKept
<1>7. SessionTypes'
  BY <1>1, <1>2, <1>3, <1>4 DEF SessionTypes, LocalTypes, RequestInv, Stored
<1>8. RowsInv'
  BY <1>1, <1>2, RowsKept
<1>9. AnsweredEnds' /\ ChangeEvicts'
  BY <1>2 DEF SessionsInv, AnsweredEnds, ChangeEvicts, Stored
<1> QED BY <1>6, <1>7, <1>8, <1>9 DEF SessionsInv, RowsInv

LEMMA SessionsStep == SessionsInv /\ [SessionsNext]_sessionVars => SessionsInv'
<1> SUFFICES ASSUME SessionsInv, [SessionsNext]_sessionVars PROVE SessionsInv'
  OBVIOUS
<1>1. LocalTypes /\ hash \in Passwords /\ weak \in BOOLEAN /\ status \in Statuses /\ wall \in Times
  BY DEF SessionsInv, SessionTypes, LocalTypes
<1>2. ASSUME UNCHANGED <<family, token, local, history, changedAt>>,
             hash' \in Passwords, weak' \in BOOLEAN, status' \in Statuses, wall' \in Times
      PROVE  SessionsInv'
  <2>1. LocalTypes' /\ \A q \in Requests : RequestInv(q)'
    BY <1>1, <1>2 DEF SessionsInv, LocalTypes, local, history, RequestInv
  <2> QED BY <1>2, <2>1, Quiet
<1>3. CASE StatusMoves
  BY <1>1, <1>2, <1>3 DEF StatusMoves, Statuses
<1>4. CASE Passes
  BY <1>1, <1>2, <1>4, SessionsAssumption DEF Passes, Times, userRow
<1>5. CASE UNCHANGED sessionVars
  BY <1>1, <1>2, <1>5 DEF sessionVars, userRow
<1>6. ASSUME NEW r \in Requests, NEW f \in FamilyIds, NEW t \in TokenIds, LoginOpens(r, f, t)
      PROVE  SessionsInv'
  BY <1>6, OpeningStep
<1>7. ASSUME NEW r \in Requests, NEW t \in TokenIds, RotateRedeems(r, t)
      PROVE  SessionsInv'
  BY <1>7, RedeemingStep
<1>8. ASSUME NEW r \in Requests, ChangeSets(r)
      PROVE  SessionsInv'
  BY <1>8, SettingStep
<1>9. ASSUME NEW r \in Requests,
             \/ LoginVerifies(r) \/ LoginRehashes(r) \/ LoginStamps(r)
             \/ \E t \in TokenIds : RotateReads(r, t)
             \/ RotateRefuses(r) \/ RotateDetects(r) \/ RefreshGrants(r)
             \/ \E new \in Passwords : ChangeVerifies(r, new)
             \/ ChangeStamps(r) \/ Abandons(r)
      PROVE  SessionsInv'
  BY <1>9, QuietStep
<1> QED BY <1>3, <1>4, <1>5, <1>6, <1>7, <1>8, <1>9, RevokingStep DEF SessionsNext

\* What a step may do to a family and its tokens: it adds none to one that has ended, and
\* a refresh adds one only to a family as young as the password it read.
Ending ==
    \A f \in Stored(family) : family[f].revoked # "no" =>
          /\ family'[f] = family[f]
          /\ {t \in Stored(token)' : FamilyOf(t)' = f} = {t \in Stored(token) : FamilyOf(t) = f}

Extending ==
    \A t \in Stored(token)' \ Stored(token) :
          family'[FamilyOf(t)'].started < changedAt => \A r \in Requests :
              pc[r] = "rotate" /\ pc'[r] = "check" => seen[r].epoch < epoch

LEMMA EndingStep ==
    ASSUME SessionsInv, [SessionsNext]_sessionVars
    PROVE  Ending
<1>1. SessionTypes /\ RowsInv /\ \A q \in Requests : RequestInv(q)
  BY DEF SessionsInv, RowsInv
<1>2. CASE UNCHANGED <<family, token>>
  BY <1>2 DEF Ending, Stored, FamilyOf
<1>3. ASSUME NEW fs, NEW reason \in Reasons, family' = Revoked(fs, reason), UNCHANGED token
      PROVE  Ending
  <2>1. \A f \in FamilyIds : family[f] # Nobody /\ family[f].revoked # "no" => family'[f] = family[f]
    BY <1>1, <1>3, RevokedFacts
  <2> QED BY <2>1, <1>1, <1>3 DEF Ending, Stored, FamilyOf, SessionTypes
<1>4. ASSUME NEW r \in Requests, NEW f0 \in FamilyIds, NEW t0 \in TokenIds, LoginOpens(r, f0, t0)
      PROVE  Ending
  <2>1. /\ family[f0] = Nobody /\ token[t0] = Nobody
        /\ \A g \in FamilyIds \ {f0} : family'[g] = family[g]
        /\ token' = [token EXCEPT ![t0] =
                       TokenRow(f0, Nobody, FALSE, CappedExpiry(stamp[r], stamp[r]))]
    BY <1>1, <1>4 DEF LoginOpens, SessionTypes
  <2>2. /\ DOMAIN token' = TokenIds /\ token'[t0].family = f0
        /\ \A u \in TokenIds \ {t0} : token'[u] = token[u]
    BY <1>1, <2>1 DEF SessionTypes, TokenRow
  <2> QED BY <1>1, <2>1, <2>2 DEF Ending, Stored, FamilyOf, SessionTypes
<1>5. ASSUME NEW r \in Requests, NEW new \in TokenIds, RotateRedeems(r, new)
      PROVE  Ending
  <2>1. /\ token' \in [TokenIds -> TokenRows \cup {Nobody}]
        /\ \A u \in TokenIds : token[u] # Nobody =>
              token'[u] # Nobody /\ token'[u].family = token[u].family
        /\ \A u \in TokenIds \ {new} : token'[u] # Nobody => token[u] # Nobody
        /\ token'[new].family = token[arg[r]].family
        /\ family[token[arg[r]].family].revoked = "no"
    BY <1>1, <1>5, RowsRedeemed
  <2>2. family' = family /\ DOMAIN token = TokenIds /\ DOMAIN token' = TokenIds
        /\ token[new] = Nobody
    BY <1>1, <1>5, <2>1 DEF RotateRedeems, SessionTypes
  <2>3. ASSUME NEW f, family[f].revoked # "no"
        PROVE  {t \in Stored(token)' : FamilyOf(t)' = f} = {t \in Stored(token) : FamilyOf(t) = f}
    BY <2>1, <2>2, <2>3 DEF Stored, FamilyOf
  <2> QED BY <2>2, <2>3 DEF Ending
<1>6. CASE \E r \in Requests : RotateRevokes(r) \/ RefreshBarred(r) \/ ChangeSweeps(r)
  <2>1. PICK r \in Requests : RotateRevokes(r) \/ RefreshBarred(r) \/ ChangeSweeps(r)
    BY <1>6
  <2>2. RequestInv(r) /\ UNCHANGED token
    BY <1>1, <2>1 DEF RotateRevokes, RefreshBarred, ChangeSweeps
  <2>3. \E fs : \E reason \in Reasons : family' = Revoked(fs, reason)
    BY <2>1 DEF RotateRevokes, RefreshBarred, ChangeSweeps, Convicted, Reasons
  <2> QED BY <1>3, <2>2, <2>3
<1>7. CASE (\E t \in TokenIds : Logout(t)) \/ LogoutEverywhere
  <2>1. "logout" \in Reasons /\ UNCHANGED token /\ \E fs : family' = Revoked(fs, "logout")
    BY <1>7 DEF Logout, LogoutEverywhere, Reasons
  <2> QED BY <1>3, <2>1
<1>8. CASE \/ StatusMoves \/ Passes \/ UNCHANGED sessionVars
           \/ \E r \in Requests :
                \/ LoginVerifies(r) \/ LoginRehashes(r) \/ LoginStamps(r)
                \/ \E t \in TokenIds : RotateReads(r, t)
                \/ RotateRefuses(r) \/ RotateDetects(r) \/ RefreshGrants(r)
                \/ \E new \in Passwords : ChangeVerifies(r, new)
                \/ ChangeStamps(r) \/ ChangeSets(r) \/ Abandons(r)
  BY <1>2, <1>8 DEF StatusMoves, Passes, sessionVars, LoginVerifies, LoginRehashes, LoginStamps,
      RotateReads, RotateRefuses, RotateDetects, RefreshGrants, ChangeVerifies, ChangeStamps,
      ChangeSets, Abandons
<1> QED BY <1>4, <1>5, <1>6, <1>7, <1>8 DEF SessionsNext

LEMMA ExtendingStep ==
    ASSUME SessionsInv, [SessionsNext]_sessionVars
    PROVE  Extending
<1>1. SessionTypes /\ RowsInv /\ \A q \in Requests : RequestInv(q)
  BY DEF SessionsInv, RowsInv
<1>2. CASE UNCHANGED token
  BY <1>2 DEF Extending, Stored
<1>3. ASSUME NEW r0 \in Requests, NEW f0 \in FamilyIds, NEW t0 \in TokenIds, LoginOpens(r0, f0, t0)
      PROVE  Extending
  <2>1. \A q \in Requests : pc'[q] = pc[q] \/ pc'[q] = "idle"
    BY <1>1, <1>3, AnsweredFacts DEF LoginOpens
  <2> QED BY <2>1 DEF Extending
<1>4. ASSUME NEW r0 \in Requests, NEW new \in TokenIds, RotateRedeems(r0, new)
      PROVE  Extending
  <2>1. /\ \A u \in TokenIds \ {new} : token'[u] # Nobody => token[u] # Nobody
        /\ token' \in [TokenIds -> TokenRows \cup {Nobody}]
        /\ token'[new].family = token[arg[r0]].family
        /\ ~(family[token[arg[r0]].family].started < seen[r0].changedAt)
    BY <1>1, <1>4, RowsRedeemed
  <2>2. pc[r0] = "rotate" /\ family' = family /\ \A q \in Requests \ {r0} : pc'[q] = pc[q]
    BY <1>1, <1>4 DEF RotateRedeems, Goto, SessionTypes
  <2>3. /\ seen[r0].epoch \in Nat /\ epoch \in Nat /\ seen[r0].epoch <= epoch
        /\ seen[r0].epoch = epoch => seen[r0].changedAt = changedAt
    BY <1>1, <2>2 DEF RequestInv, OwnerRows, SessionTypes
  <2>4. family'[token'[new].family].started < changedAt => seen[r0].epoch < epoch
    BY <2>1, <2>2, <2>3
  <2>5. \A t \in Stored(token)' \ Stored(token) : t = new
    BY <1>1, <2>1 DEF Stored, SessionTypes
  <2> QED BY <2>2, <2>4, <2>5 DEF Extending, FamilyOf
<1>5. CASE \/ StatusMoves \/ Passes \/ UNCHANGED sessionVars
           \/ (\E t \in TokenIds : Logout(t)) \/ LogoutEverywhere
           \/ \E r \in Requests :
                \/ LoginVerifies(r) \/ LoginRehashes(r) \/ LoginStamps(r)
                \/ \E t \in TokenIds : RotateReads(r, t)
                \/ RotateRefuses(r) \/ RotateDetects(r) \/ RefreshGrants(r)
                \/ RotateRevokes(r) \/ RefreshBarred(r) \/ ChangeSweeps(r)
                \/ \E new \in Passwords : ChangeVerifies(r, new)
                \/ ChangeStamps(r) \/ ChangeSets(r) \/ Abandons(r)
  BY <1>2, <1>5 DEF StatusMoves, Passes, sessionVars, LoginVerifies, LoginRehashes, LoginStamps,
      RotateReads, RotateRefuses, RotateDetects, RefreshGrants, ChangeVerifies, ChangeStamps,
      ChangeSets, Abandons, RotateRevokes, RefreshBarred, ChangeSweeps, Logout, LogoutEverywhere
<1> QED BY <1>3, <1>4, <1>5 DEF SessionsNext

\* What is promised of a session follows.
LEMMA SessionsPromised == SessionsInv => SessionsCorrect
<1> SUFFICES ASSUME SessionsInv PROVE SessionsCorrect
  OBVIOUS
<1>1. \A t \in Stored(token) : t \in TokenIds /\ token[t] # Nobody
  BY DEF SessionsInv, SessionTypes, Stored
<1> QED BY <1>1 DEF SessionsInv, SessionTypes, LinksInv, SessionsCorrect, SessionsTypeOK

-----------------------------------------------------------------------------
(* The second factor *)

Places == {"idle", "save", "prove", "arm", "mint", "login", "redeem", "disable", "delete", "clear"}

\* The statements that check a code against the row the call loaded.
Checking == {"prove", "login", "disable"}

FactorTypes ==
    /\ enrolled \in Rows
    /\ enrolled # NoRow => enrolled.secret \in minted
    /\ minted \subseteq Secrets /\ proven \subseteq minted
    /\ step \in 0..LastStep /\ mints \in 0..MaxMints
    /\ burnt \in [StepsOfCodes -> Nat]
    /\ spent \in [steps : SUBSET StepsOfCodes, codes : SUBSET Minted, twice : BOOLEAN]

CallsInv ==
    /\ at \in [Calls -> Places] /\ read \in [Calls -> Rows]
    /\ picked \in [Calls -> Minted \cup {NoRow}]
    /\ \A c \in Calls : /\ at[c] \in Checking => read[c] # NoRow
                        /\ read[c] # NoRow => read[c].secret \in minted

\* The codes stored are of the last set and unused; those used are of the sets there were.
CodesInv ==
    /\ unused \subseteq {mints} \X RecoveryCodes
    /\ mints = 0 => unused = {}
    /\ spent.codes \subseteq (1..mints) \X RecoveryCodes
    /\ unused \cap spent.codes = {}

\* The guard remembers a step for as long as its code would be accepted.
StepsInv == \A s \in spent.steps : burnt[s] > s + SkewSteps

FactorInv == FactorTypes /\ CallsInv /\ CodesInv /\ StepsInv /\ CodeGoodOnce

LEMMA FactorInitial == FactorInit => FactorInv
<1> SUFFICES ASSUME FactorInit PROVE FactorInv
  OBVIOUS
<1>1. 0 \in 0..LastStep /\ 0 \in 0..MaxMints /\ NoRow \in Rows
  BY FactorAssumption DEF Rows
<1>2. FactorTypes
  BY <1>1 DEF FactorInit, FactorTypes
<1>3. CallsInv
  BY <1>1 DEF FactorInit, CallsInv, Places, Checking
<1> QED BY <1>2, <1>3 DEF FactorInit, FactorInv, CodesInv, StepsInv, CodeGoodOnce

LEMMA CallsEnded ==
    ASSUME CallsInv, NEW c \in Calls, Ends(c), minted \subseteq minted'
    PROVE  CallsInv'
BY DEF CallsInv, Ends, To, Places, Checking, Rows

LEMMA CallsLoaded ==
    ASSUME FactorTypes, CallsInv, NEW c \in Calls, NEW where \in Places, Loads(c, where),
           where \in Checking => enrolled # NoRow, UNCHANGED minted
    PROVE  CallsInv'
BY DEF FactorTypes, CallsInv, Loads, To, Checking

LEMMA CallsMoved ==
    ASSUME CallsInv, NEW c \in Calls, NEW where \in Places \ Checking, To(c, where),
           UNCHANGED <<read, minted>>, picked' \in [Calls -> Minted \cup {NoRow}]
    PROVE  CallsInv'
BY DEF CallsInv, To, Checking

\* A code that is accepted has not been, and is remembered until it is no longer current.
LEMMA Consumed ==
    ASSUME SkewSteps <= 1, FactorInv, NEW c \in Calls, at[c] \in Checking,
           NEW s \in StepsOfCodes, Consumes(c, s),
           UNCHANGED <<enrolled, unused, step, mints, minted>>
    PROVE  FactorTypes' /\ CodesInv' /\ StepsInv' /\ CodeGoodOnce'
<1>1. FactorTypes /\ CallsInv /\ CodesInv /\ StepsInv /\ ~spent.twice
  BY DEF FactorInv, CodeGoodOnce
<1>2. /\ step \in Nat /\ s \in Nat /\ SkewSteps \in Nat
      /\ s + SkewSteps >= step /\ s <= step + SkewSteps /\ burnt[s] <= step
      /\ burnt' = [burnt EXCEPT ![s] = step + SkewSteps + 2]
      /\ spent' = [spent EXCEPT !.steps = spent.steps \cup {s},
                                !.twice = spent.twice \/ s \in spent.steps]
      /\ proven' = proven \cup {read[c].secret}
  BY <1>1, FactorAssumption
     DEF FactorTypes, Consumes, Burns, Acceptable, Forgotten, StepsOfCodes
<1>3. burnt[s] \in Nat /\ s \notin spent.steps
  BY <1>1, <1>2 DEF FactorTypes, StepsInv
<1>4. /\ spent'.steps = spent.steps \cup {s} /\ spent'.codes = spent.codes /\ ~spent'.twice
      /\ spent' \in [steps : SUBSET StepsOfCodes, codes : SUBSET Minted, twice : BOOLEAN]
  BY <1>1, <1>2, <1>3 DEF FactorTypes
<1>5. proven' \subseteq minted
  BY <1>1, <1>2 DEF FactorTypes, CallsInv
<1>6. /\ burnt' \in [StepsOfCodes -> Nat] /\ burnt'[s] > s + SkewSteps
      /\ \A u \in StepsOfCodes \ {s} : burnt'[u] = burnt[u]
  BY <1>1, <1>2 DEF FactorTypes
<1>7. FactorTypes'
  BY <1>1, <1>4, <1>5, <1>6 DEF FactorTypes
<1>8. StepsInv'
  BY <1>1, <1>4, <1>6 DEF StepsInv, FactorTypes
<1> QED BY <1>1, <1>4, <1>7, <1>8 DEF CodesInv, CodeGoodOnce

\* A step that does none of this.
LEMMA FactorQuiet ==
    ASSUME FactorInv, UNCHANGED <<enrolled, unused, burnt, mints, minted, proven, spent>>,
           step' \in 0..LastStep, CallsInv'
    PROVE  FactorInv'
BY DEF FactorInv, FactorTypes, CodesInv, StepsInv, CodeGoodOnce

LEMMA FactorStep ==
    ASSUME SkewSteps <= 1, FactorInv, [FactorNext]_factorVars
    PROVE  FactorInv'
<1>1. /\ FactorTypes /\ CallsInv /\ CodesInv /\ StepsInv /\ CodeGoodOnce
      /\ step \in 0..LastStep /\ mints \in 0..MaxMints
  BY DEF FactorInv, FactorTypes
<1>2. CASE StepPasses \/ UNCHANGED factorVars
  <2>1. /\ UNCHANGED <<enrolled, unused, burnt, mints, minted, proven, spent, at, read, picked>>
        /\ step' \in 0..LastStep
    BY <1>1, <1>2, FactorAssumption DEF StepPasses, factorVars, store, past
  <2>2. CallsInv'
    BY <1>1, <2>1 DEF CallsInv
  <2> QED BY <2>1, <2>2, FactorQuiet
<1>3. ASSUME NEW c \in Calls,
             BeginLoads(c) \/ ConfirmLoads(c) \/ RegenerateLoads(c) \/ LoginLoads(c) \/ DisableLoads(c)
      PROVE  FactorInv'
  <2>1. UNCHANGED <<store, step, past>>
    BY <1>3 DEF BeginLoads, ConfirmLoads, RegenerateLoads, LoginLoads, DisableLoads
  <2>2. \E where \in Places : Loads(c, where) /\ (where \in Checking => enrolled # NoRow)
    BY <1>3 DEF BeginLoads, ConfirmLoads, RegenerateLoads, LoginLoads, DisableLoads,
                Armed, Pending, Places, Checking
  <2>3. CallsInv'
    BY <1>1, <2>1, <2>2, CallsLoaded DEF past
  <2> QED BY <1>1, <2>1, <2>3, FactorQuiet DEF store, past
<1>4. ASSUME NEW c \in Calls, NEW new \in Secrets, BeginSaves(c, new)
      PROVE  FactorInv'
  <2>1. /\ enrolled' = Row(new, FALSE) /\ minted' = minted \cup {new} /\ Ends(c)
        /\ UNCHANGED <<unused, burnt, step, mints, proven, spent>>
    BY <1>4 DEF BeginSaves
  <2>2. enrolled' \in Rows /\ enrolled'.secret = new
    BY <2>1 DEF Row, Rows
  <2>3. FactorTypes'
    BY <1>1, <2>1, <2>2 DEF FactorTypes
  <2>4. CallsInv'
    BY <1>1, <2>1, CallsEnded
  <2> QED BY <1>1, <2>1, <2>3, <2>4 DEF FactorInv, CodesInv, StepsInv, CodeGoodOnce
<1>5. ASSUME NEW c \in Calls, BeginRefused(c) \/ GivesUp(c)
      PROVE  FactorInv'
  <2>1. Ends(c) /\ UNCHANGED <<store, step, past>>
    BY <1>5 DEF BeginRefused, GivesUp
  <2>2. CallsInv'
    BY <1>1, <2>1, CallsEnded DEF past
  <2> QED BY <1>1, <2>1, <2>2, FactorQuiet DEF store, past
<1>6. ASSUME NEW c \in Calls, NEW s \in StepsOfCodes,
             ConfirmConsumes(c, s) \/ LoginConsumes(c, s) \/ DisableByCode(c, s)
      PROVE  FactorInv'
  <2>1. /\ at[c] \in Checking /\ Consumes(c, s)
        /\ UNCHANGED <<enrolled, unused, step, mints, minted>>
    BY <1>6 DEF ConfirmConsumes, LoginConsumes, DisableByCode, Checking
  <2>2. FactorTypes' /\ CodesInv' /\ StepsInv' /\ CodeGoodOnce'
    BY <2>1, Consumed
  <2>3. CASE LoginConsumes(c, s)
    BY <1>1, <2>1, <2>2, <2>3, CallsEnded DEF LoginConsumes, FactorInv
  <2>4. CASE ConfirmConsumes(c, s) \/ DisableByCode(c, s)
    <3>1. /\ \E where \in Places \ Checking : To(c, where)
          /\ UNCHANGED <<read, picked>>
      BY <2>4 DEF ConfirmConsumes, DisableByCode, Places, Checking
    <3>2. picked' \in [Calls -> Minted \cup {NoRow}]
      BY <1>1, <3>1 DEF CallsInv
    <3> QED BY <1>1, <2>1, <2>2, <3>1, <3>2, CallsMoved DEF FactorInv
  <2> QED BY <1>6, <2>3, <2>4
<1>7. ASSUME NEW c \in Calls, NEW k \in unused, LoginMatches(c, k)
      PROVE  FactorInv'
  <2>1. k \in Minted
    BY <1>1, FactorAssumption DEF CodesInv, Minted
  <2>2. /\ To(c, "redeem") /\ picked' = [picked EXCEPT ![c] = k]
        /\ UNCHANGED <<store, step, read, past>>
    BY <1>7 DEF LoginMatches
  <2>3. picked' \in [Calls -> Minted \cup {NoRow}] /\ "redeem" \in Places \ Checking
    BY <1>1, <2>1, <2>2 DEF CallsInv, Places, Checking
  <2>4. CallsInv'
    BY <1>1, <2>2, <2>3, CallsMoved DEF past
  <2> QED BY <1>1, <2>2, <2>4, FactorQuiet DEF store, past
<1>8. ASSUME NEW c \in Calls, LoginRecovers(c)
      PROVE  FactorInv'
  <2>1. /\ picked[c] \in unused /\ unused' = unused \ {picked[c]} /\ Ends(c)
        /\ spent' = [spent EXCEPT !.codes = spent.codes \cup {picked[c]},
                                  !.twice = spent.twice \/ picked[c] \in spent.codes]
        /\ UNCHANGED <<enrolled, burnt, step, mints, minted, proven>>
    BY <1>8 DEF LoginRecovers, StillUnused
  <2>2. /\ picked[c] \in (1..mints) \X RecoveryCodes /\ picked[c] \in Minted
        /\ picked[c] \notin spent.codes
    BY <1>1, <2>1, FactorAssumption DEF CodesInv, Minted
  <2>3. /\ spent'.steps = spent.steps /\ spent'.codes = spent.codes \cup {picked[c]} /\ ~spent'.twice
        /\ spent' \in [steps : SUBSET StepsOfCodes, codes : SUBSET Minted, twice : BOOLEAN]
    BY <1>1, <2>1, <2>2 DEF FactorTypes, CodeGoodOnce
  <2>4. FactorTypes' /\ StepsInv' /\ CodeGoodOnce'
    BY <1>1, <2>1, <2>3 DEF FactorTypes, StepsInv, CodeGoodOnce
  <2>5. CodesInv'
    BY <1>1, <2>1, <2>2, <2>3 DEF CodesInv
  <2> QED BY <1>1, <2>1, <2>4, <2>5, CallsEnded DEF FactorInv
<1>9. ASSUME NEW c \in Calls, ConfirmArms(c)
      PROVE  FactorInv'
  <2>1. UNCHANGED <<unused, burnt, step, past>>
    BY <1>9 DEF ConfirmArms
  <2>2. CASE /\ Pending /\ enrolled' = Row(enrolled.secret, TRUE)
             /\ To(c, "mint") /\ UNCHANGED <<read, picked>>
    <3>1. enrolled' \in Rows /\ enrolled'.secret = enrolled.secret /\ enrolled.secret \in minted
      BY <1>1, <2>2 DEF FactorTypes, Pending, Row, Rows
    <3>2. FactorTypes'
      BY <1>1, <2>1, <3>1 DEF FactorTypes, past
    <3>3. CallsInv'
      <4>1. "mint" \in Places \ Checking /\ picked' \in [Calls -> Minted \cup {NoRow}]
        BY <1>1, <2>2 DEF CallsInv, Places, Checking
      <4> QED BY <1>1, <2>1, <2>2, <4>1, CallsMoved DEF past
    <3> QED BY <1>1, <2>1, <3>2, <3>3 DEF FactorInv, CodesInv, StepsInv, CodeGoodOnce, past
  <2>3. CASE Ends(c) /\ UNCHANGED enrolled
    <3>1. CallsInv'
      BY <1>1, <2>1, <2>3, CallsEnded DEF past
    <3> QED BY <1>1, <2>1, <2>3, <3>1, FactorQuiet DEF past
  <2> QED BY <1>9, <2>2, <2>3 DEF ConfirmArms
<1>10. ASSUME NEW c \in Calls, Mints(c)
       PROVE  FactorInv'
  <2>1. /\ mints < MaxMints /\ mints' = mints + 1 /\ unused' = {mints'} \X RecoveryCodes /\ Ends(c)
        /\ UNCHANGED <<enrolled, burnt, step, minted, proven, spent>>
    BY <1>10 DEF Mints
  <2>2. mints' \in 0..MaxMints /\ mints' # 0
    BY <1>1, <2>1, FactorAssumption
  <2>3. FactorTypes' /\ StepsInv' /\ CodeGoodOnce'
    BY <1>1, <2>1, <2>2 DEF FactorTypes, StepsInv, CodeGoodOnce
  <2>4. CodesInv'
    BY <1>1, <2>1, <2>2 DEF CodesInv
  <2> QED BY <1>1, <2>1, <2>3, <2>4, CallsEnded DEF FactorInv
<1>11. ASSUME NEW c \in Calls, DisableByPassword(c)
       PROVE  FactorInv'
  <2>1. To(c, "delete") /\ UNCHANGED <<store, step, read, picked, past>>
    BY <1>11 DEF DisableByPassword
  <2>2. "delete" \in Places \ Checking /\ picked' \in [Calls -> Minted \cup {NoRow}]
    BY <1>1, <2>1 DEF CallsInv, Places, Checking
  <2>3. CallsInv'
    BY <1>1, <2>1, <2>2, CallsMoved DEF past
  <2> QED BY <1>1, <2>1, <2>3, FactorQuiet DEF store, past
<1>12. ASSUME NEW c \in Calls, RemovesRow(c)
       PROVE  FactorInv'
  <2>1. enrolled' = NoRow /\ To(c, "clear") /\ UNCHANGED <<unused, burnt, step, read, picked, past>>
    BY <1>12 DEF RemovesRow
  <2>2. "clear" \in Places \ Checking /\ picked' \in [Calls -> Minted \cup {NoRow}]
    BY <1>1, <2>1 DEF CallsInv, Places, Checking
  <2>3. CallsInv'
    BY <1>1, <2>1, <2>2, CallsMoved DEF past
  <2>4. FactorTypes'
    BY <1>1, <2>1 DEF FactorTypes, Rows, past
  <2> QED BY <1>1, <2>1, <2>3, <2>4 DEF FactorInv, CodesInv, StepsInv, CodeGoodOnce, past
<1>13. ASSUME NEW c \in Calls, ClearsCodes(c)
       PROVE  FactorInv'
  <2>1. unused' = {} /\ Ends(c) /\ UNCHANGED <<enrolled, burnt, step, past>>
    BY <1>13 DEF ClearsCodes
  <2>2. CallsInv'
    BY <1>1, <2>1, CallsEnded DEF past
  <2> QED BY <1>1, <2>1, <2>2 DEF FactorInv, FactorTypes, CodesInv, StepsInv, CodeGoodOnce, past
<1> QED BY <1>2, <1>3, <1>4, <1>5, <1>6, <1>7, <1>8, <1>9, <1>10, <1>11, <1>12, <1>13 DEF FactorNext

\* An upsert that finds the row armed writes nothing, and only an unarmed row is confirmed.
LEMMA ArmedStep ==
    ASSUME [FactorNext]_factorVars, Armed
    PROVE  enrolled' \in {enrolled, NoRow}
BY DEF FactorNext, factorVars, store, past, Armed, Pending, BeginLoads, ConfirmLoads,
    RegenerateLoads, LoginLoads, DisableLoads, BeginSaves, Replaceable, BeginRefused,
    ConfirmConsumes, LoginConsumes, DisableByCode, LoginMatches, LoginRecovers, ConfirmArms,
    Mints, DisableByPassword, RemovesRow, ClearsCodes, GivesUp, StepPasses

-----------------------------------------------------------------------------
(* The account *)

AccountInv == SessionsInv /\ FactorInv

LEMMA AccountStep ==
    ASSUME SkewSteps <= 1, AccountInv, [AuthNext]_<<half, sessionVars, factorVars>>
    PROVE  AccountInv'
<1>1. [SessionsNext]_sessionVars /\ [FactorNext]_factorVars
  BY DEF AuthNext
<1> QED BY <1>1, SessionsStep, FactorStep DEF AccountInv

LEMMA AccountPromised == AccountInv => AccountCorrect
<1> SUFFICES ASSUME AccountInv PROVE FactorCorrect
  BY SessionsPromised DEF AccountInv, AccountCorrect
<1> QED BY DEF AccountInv, FactorInv, FactorTypes, CallsInv, CodesInv, FactorCorrect, FactorTypeOK

LEMMA SessionsAlone == AuthSpec => []SessionsInv
<1>1. AuthInit => SessionsInv
  BY SessionsInitial DEF AuthInit
<1>2. SessionsInv /\ [AuthNext]_<<half, sessionVars, factorVars>> => SessionsInv'
  BY SessionsStep DEF AuthNext
<1> QED BY <1>1, <1>2, PTL DEF AuthSpec

\* The sessions of an account, whatever else is done to it: every token is of a session,
\* a session is one line of tokens, an end that was answered is one, no token outlives
\* the login's lifetime, and a change of password leaves no older session (service.go).
THEOREM SessionsSafe == AuthSpec => []SessionsCorrect
<1>1. SessionsInv => SessionsCorrect
  BY SessionsPromised
<1> QED BY <1>1, SessionsAlone, PTL

\* What is promised of an account at any moment, where codes of at most one step before or
\* after the current one are accepted, as by default (totp.go, consumeTOTPCode): a wider
\* window outlives the guard's entry, and a code is then good twice.
THEOREM AccountSafe ==
    ASSUME SkewSteps <= 1
    PROVE  AuthSpec => []AccountCorrect
<1>1. AuthInit => AccountInv
  BY SessionsInitial, FactorInitial DEF AuthInit, AccountInv
<1>2. AccountInv /\ [AuthNext]_<<half, sessionVars, factorVars>> => AccountInv'
  BY AccountStep
<1>3. AccountInv => AccountCorrect
  BY AccountPromised
<1> QED BY <1>1, <1>2, <1>3, PTL DEF AuthSpec

\* A session that has ended keeps the reason and its tokens, one that a change of password
\* should have ended is not extended, and an armed factor is never replaced
\* (rotateAttempt, RevokeFamily, SaveTOTP): of any step, for any skew.
THEOREM AccountForward == AuthSpec => AccountSteps
<1>1. SessionsInv /\ [AuthNext]_<<half, sessionVars, factorVars>>
        => [\A f \in Stored(family) : family[f].revoked # "no" =>
              /\ family'[f] = family[f]
              /\ {t \in Stored(token)' : FamilyOf(t)' = f} = {t \in Stored(token) : FamilyOf(t) = f}
           ]_sessionVars
  BY EndingStep DEF AuthNext, Ending
<1>2. SessionsInv /\ [AuthNext]_<<half, sessionVars, factorVars>>
        => [\A t \in Stored(token)' \ Stored(token) :
              family'[FamilyOf(t)'].started < changedAt => \A r \in Requests :
                  pc[r] = "rotate" /\ pc'[r] = "check" => seen[r].epoch < epoch
           ]_sessionVars
  BY ExtendingStep DEF AuthNext, Extending
<1>3. [AuthNext]_<<half, sessionVars, factorVars>>
        => [Armed => enrolled' \in {enrolled, NoRow}]_factorVars
  BY ArmedStep DEF AuthNext
<1>4. AuthSpec => RevocationFinal
  BY <1>1, SessionsAlone, PTL DEF AuthSpec, RevocationFinal
<1>5. AuthSpec => StaleNotExtended
  BY <1>2, SessionsAlone, PTL DEF AuthSpec, StaleNotExtended
<1>6. AuthSpec => ArmedOnlyRemoved
  BY <1>3, PTL DEF AuthSpec, ArmedOnlyRemoved
<1> QED BY <1>4, <1>5, <1>6 DEF AccountSteps, EndedNotExtended
=============================================================================
