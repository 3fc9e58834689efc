------------------------------ MODULE Presence ------------------------------
(***************************************************************************)
(* The durable half of a subscription: the keys internal/wsgw/redispresence *)
(* keeps in Redis, the two scripts and the transactions that write them, and *)
(* what the hub of each replica does to them as connections come and go.     *)
(*                                                                         *)
(* A key is a record with the ticks it has left; ttl 0 is an absent key. A   *)
(* script or a transaction is one step. The hub ignores what a call answers, *)
(* so a call either takes effect (its answer may be lost) or does not.       *)
(* Several connections may share a session, as a reconnect makes them do.    *)
(***************************************************************************)
EXTENDS Integers, FiniteSets

CONSTANTS
    Conns, Sessions, Replicas, ChannelNames,
    Setups,                 \* configurations, and where connections come from
    PerCall,                \* Options.MaxChannelsPerCall
    TTL,                    \* Options.TTL, in ticks
    MaxCount,               \* BOUND: a counter drifts upward without limit
    Nobody

ASSUME PresenceAssumption ==
    /\ PerCall \in Nat \ {0} /\ TTL \in Nat \ {0}
    /\ MaxCount \in Nat
    /\ \A s \in Setups : /\ s.link \in [Conns -> [session : Sessions, replica : Replicas]]
                       /\ s.max \in Nat \ {0}
    /\ Nobody \notin Conns
    /\ IsFiniteSet(ChannelNames) /\ IsFiniteSet(Sessions)

VARIABLES
    setup,       \* link: the session and the replica of each connection; max:
                 \* Options.MaxChannels, which is the hub's cap too
    sub,         \* per session: the SET of its channels
    sess,        \* per session: the HASH, as the connection it names
    counter,     \* per channel: the fleet-wide number of subscribers
    present,     \* per replica: the SET of its connections
    phase,       \* per connection: new, restored, up, leaving, gone
    holds,       \* per connection: the channels the hub routes to it
    removing,    \* per connection: what Forget read and has yet to remove
    kept,        \* ghost: what the calls that took effect leave to a session
    age,         \* ghost: ticks since a call last refreshed a session's set
    drifted,     \* ghost: channels a key of which has expired
    silent       \* ghost: per replica, ticks since it last wrote its presence

keyVars == <<sub, sess, counter, present>>
presenceVars == <<setup, sub, sess, counter, present, phase, holds, removing, kept, age, drifted, silent>>

SessionOf(c) == setup.link[c].session
ReplicaOf(c) == setup.link[c].replica

Missing == [members |-> {}, ttl |-> 0]
Full(members) == IF members = {} THEN Missing ELSE [members |-> members, ttl |-> TTL]

\* PEXPIRE, which leaves an absent key absent.
Refreshed(key) == IF key.ttl = 0 THEN key ELSE [key EXCEPT !.ttl = TTL]

----------------------------------------------------------------------------
(* The scripts.                                                             *)

\* Variant: every channel of the call is counted.
FreshOf_Called(s, chans) == chans

\* Members the set already has are not counted again; past the cap nothing at
\* all is written.
FreshOf(s, chans) == chans \ sub[s].members
Admits(s, chans) == Cardinality(sub[s].members) + Cardinality(FreshOf(s, chans)) <= setup.max

SubscribeScript(c, chans) ==
    LET s == SessionOf(c) IN
    IF Admits(s, chans)
    THEN /\ \A ch \in FreshOf(s, chans) : counter[ch].n < MaxCount
         /\ sub' = [sub EXCEPT ![s] = Full(@.members \cup chans)]
         /\ counter' = [ch \in ChannelNames |->
                IF ch \in FreshOf(s, chans) THEN [n |-> counter[ch].n + 1, ttl |-> TTL] ELSE counter[ch]]
         /\ sess' = [sess EXCEPT ![s] = [by |-> c, ttl |-> TTL]]
         /\ kept' = [kept EXCEPT ![s] = @ \cup chans]
         /\ age' = [age EXCEPT ![s] = 0]
         /\ UNCHANGED present
    ELSE UNCHANGED <<keyVars, kept, age>>

\* DECR of an absent key is -1; zero and below are deleted, not stored.
Decremented(key) == IF key.n - 1 <= 0 THEN [n |-> 0, ttl |-> 0] ELSE [n |-> key.n - 1, ttl |-> TTL]

UnsubscribeScript(s, chans) ==
    /\ sub' = [sub EXCEPT ![s] = Full(@.members \ chans)]
    /\ counter' = [ch \in ChannelNames |->
           IF ch \in chans \cap sub[s].members THEN Decremented(counter[ch]) ELSE counter[ch]]
    /\ sess' = [sess EXCEPT ![s] = Refreshed(@)]
    /\ kept' = [kept EXCEPT ![s] = @ \ chans]
    /\ age' = [age EXCEPT ![s] = 0]
    /\ UNCHANGED present

(* The transactions.                                                        *)

\* Store.Connected; Store.Touch, which makes the hash anew if it has expired,
\* without naming anybody.
Writes(c, by) ==
    LET s == SessionOf(c)
        r == ReplicaOf(c) IN
    /\ sess' = [sess EXCEPT ![s] = [by |-> by, ttl |-> TTL]]
    /\ present' = [present EXCEPT ![r] = Full(@.members \cup {c})]
    /\ sub' = [sub EXCEPT ![s] = Refreshed(@)]
    /\ age' = [age EXCEPT ![s] = 0]
    /\ silent' = [silent EXCEPT ![r] = 0]
    /\ UNCHANGED <<counter, kept>>

Connected(c) == Writes(c, c)
Touch(c) == Writes(c, sess[SessionOf(c)].by)

Leaves(c) ==
    /\ present' = [present EXCEPT ![ReplicaOf(c)] = Full(@.members \ {c})]
    /\ silent' = [silent EXCEPT ![ReplicaOf(c)] = 0]

\* Variant: the session's set goes with its connection.
Disconnected_Clears(c) ==
    /\ Leaves(c)
    /\ sub' = [sub EXCEPT ![SessionOf(c)] = Missing]
    /\ UNCHANGED <<sess, counter, kept, age>>

\* Store.Disconnected leaves the set and the hash: the resume window.
Disconnected(c) == Leaves(c) /\ UNCHANGED <<sub, sess, counter, kept, age>>

Lost == UNCHANGED <<keyVars, kept, age, silent>>

----------------------------------------------------------------------------
(* The hub of a replica, and its connections.                               *)

PresenceInit ==
    /\ setup \in Setups
    /\ sub = [s \in Sessions |-> Missing]
    /\ sess = [s \in Sessions |-> [by |-> Nobody, ttl |-> 0]]
    /\ counter = [ch \in ChannelNames |-> [n |-> 0, ttl |-> 0]]
    /\ present = [r \in Replicas |-> Missing]
    /\ phase = [c \in Conns |-> "new"]
    /\ holds = [c \in Conns |-> {}]
    /\ removing = [c \in Conns |-> {}]
    /\ kept = [s \in Sessions |-> {}]
    /\ age = [s \in Sessions |-> TTL]
    /\ drifted = {}
    /\ silent = [r \in Replicas |-> TTL]

\* Store.Channels before the hello frame: nothing is restored when it fails.
Restores(c) ==
    /\ phase[c] = "new"
    /\ phase' = [phase EXCEPT ![c] = "restored"]
    /\ \E names \in {sub[SessionOf(c)].members, {}} : holds' = [holds EXCEPT ![c] = names]
    /\ UNCHANGED <<keyVars, removing, kept, age, drifted, silent>>

Registers(c) ==
    /\ phase[c] = "restored"
    /\ phase' = [phase EXCEPT ![c] = "up"]
    /\ Connected(c) \/ Lost
    /\ UNCHANGED <<holds, removing, drifted>>

\* The hub has changed its routing table and acknowledged already.
HubSubscribes(c, chans) ==
    /\ phase[c] = "up"
    /\ chans # {} /\ chans \cap holds[c] = {}
    /\ Cardinality(holds[c] \cup chans) <= setup.max
    /\ holds' = [holds EXCEPT ![c] = @ \cup chans]
    /\ (SubscribeScript(c, chans) /\ UNCHANGED silent) \/ Lost
    /\ UNCHANGED <<phase, removing, drifted>>

HubUnsubscribes(c, chans) ==
    /\ phase[c] = "up"
    /\ chans # {} /\ chans \subseteq holds[c]
    /\ holds' = [holds EXCEPT ![c] = @ \ chans]
    /\ (UnsubscribeScript(SessionOf(c), chans) /\ UNCHANGED silent) \/ Lost
    /\ UNCHANGED <<phase, removing, drifted>>

Heartbeat(c) ==
    /\ phase[c] = "up"
    /\ Touch(c) \/ Lost
    /\ UNCHANGED <<phase, holds, removing, drifted>>

Unregisters(c) ==
    /\ phase[c] = "up"
    /\ phase' = [phase EXCEPT ![c] = "gone"]
    /\ holds' = [holds EXCEPT ![c] = {}]
    /\ Disconnected(c) \/ Lost
    /\ UNCHANGED <<removing, drifted>>

\* SIGKILL of a replica: nothing is written.
Dies(r) ==
    /\ \E c \in Conns : ReplicaOf(c) = r /\ phase[c] \in {"restored", "up", "leaving"}
    /\ phase' = [c \in Conns |-> IF ReplicaOf(c) = r /\ phase[c] # "new" THEN "gone" ELSE phase[c]]
    /\ holds' = [c \in Conns |-> IF phase'[c] = "gone" THEN {} ELSE holds[c]]
    /\ removing' = [c \in Conns |-> IF phase'[c] = "gone" THEN {} ELSE removing[c]]
    /\ UNCHANGED <<keyVars, kept, age, drifted, silent>>

\* Store.Forget, under the precondition its comment states when it starts. No
\* caller in src uses it.
ForgetReads(c) ==
    /\ phase[c] = "up"
    /\ \A d \in Conns \ {c} : SessionOf(d) = SessionOf(c) => phase[d] \in {"new", "gone"}
    /\ phase' = [phase EXCEPT ![c] = "leaving"]
    /\ holds' = [holds EXCEPT ![c] = {}]
    /\ removing' = [removing EXCEPT ![c] = sub[SessionOf(c)].members]
    /\ UNCHANGED <<keyVars, kept, age, drifted, silent>>

ForgetRemoves(c) ==
    /\ phase[c] = "leaving"
    /\ \E chunk \in SUBSET removing[c] :
          /\ Cardinality(chunk) = (IF Cardinality(removing[c]) < PerCall THEN Cardinality(removing[c]) ELSE PerCall)
          /\ chunk # {}
          /\ removing' = [removing EXCEPT ![c] = @ \ chunk]
          /\ UnsubscribeScript(SessionOf(c), chunk)
    /\ UNCHANGED <<phase, holds, drifted, silent>>

ForgetEnds(c) ==
    /\ phase[c] = "leaving" /\ removing[c] = {}
    /\ phase' = [phase EXCEPT ![c] = "gone"]
    /\ sess' = [sess EXCEPT ![SessionOf(c)] = [by |-> Nobody, ttl |-> 0]]
    /\ Leaves(c)
    /\ UNCHANGED <<sub, counter, holds, removing, kept, age, drifted>>

\* A call of Forget fails: it returns, and the connection is gone all the same.
ForgetFails(c) ==
    /\ phase[c] = "leaving"
    /\ phase' = [phase EXCEPT ![c] = "gone"]
    /\ removing' = [removing EXCEPT ![c] = {}]
    /\ UNCHANGED <<keyVars, holds, kept, age, drifted, silent>>

----------------------------------------------------------------------------
(* Expiry. The hub's ping interval is far below the TTL; heartbeats that fail *)
(* are what lets a live session's keys run out.                             *)

Older(n) == IF n < TTL THEN n + 1 ELSE TTL
Ebbs(key) == IF key.ttl <= 1 THEN Missing ELSE [key EXCEPT !.ttl = @ - 1]

Tick ==
    /\ sub' = [s \in Sessions |-> Ebbs(sub[s])]
    /\ present' = [r \in Replicas |-> Ebbs(present[r])]
    /\ sess' = [s \in Sessions |->
          IF sess[s].ttl <= 1 THEN [by |-> Nobody, ttl |-> 0] ELSE [sess[s] EXCEPT !.ttl = @ - 1]]
    /\ counter' = [ch \in ChannelNames |->
          IF counter[ch].ttl <= 1 THEN [n |-> 0, ttl |-> 0] ELSE [counter[ch] EXCEPT !.ttl = @ - 1]]
    /\ age' = [s \in Sessions |-> Older(age[s])]
    /\ silent' = [r \in Replicas |-> Older(silent[r])]
    /\ kept' = [s \in Sessions |-> IF age'[s] = TTL THEN {} ELSE kept[s]]
    /\ drifted' = drifted
          \cup {ch \in ChannelNames : counter[ch].ttl = 1}
          \cup UNION {sub[s].members : s \in {z \in Sessions : sub[z].ttl = 1}}
    /\ UNCHANGED <<phase, holds, removing>>

PresenceStep ==
    \/ \E c \in Conns :
          \/ Restores(c) \/ Registers(c) \/ Heartbeat(c) \/ Unregisters(c)
          \/ \E chans \in SUBSET ChannelNames : HubSubscribes(c, chans) \/ HubUnsubscribes(c, chans)
          \/ ForgetReads(c) \/ ForgetRemoves(c) \/ ForgetEnds(c) \/ ForgetFails(c)
    \/ \E r \in Replicas : Dies(r)
    \/ Tick

PresenceNext == PresenceStep /\ UNCHANGED setup

PresenceSpec == PresenceInit /\ [][PresenceNext]_presenceVars

----------------------------------------------------------------------------
Holders(ch) == {s \in Sessions : ch \in sub[s].members}

PresenceTypeOK ==
    /\ sub \in [Sessions -> [members : SUBSET ChannelNames, ttl : 0 .. TTL]]
    /\ present \in [Replicas -> [members : SUBSET Conns, ttl : 0 .. TTL]]
    /\ sess \in [Sessions -> [by : Conns \cup {Nobody}, ttl : 0 .. TTL]]
    /\ counter \in [ChannelNames -> [n : Nat, ttl : 0 .. TTL]]
    /\ \A k \in {sub[s] : s \in Sessions} \cup {present[r] : r \in Replicas} :
          (k.ttl = 0) = (k.members = {})

\* The cap of a session holds over all its connections on all replicas, though
\* each hub checks only what one connection has.
CapHolds == \A s \in Sessions : Cardinality(sub[s].members) <= setup.max

\* The resume window: for a TTL after the last call that reached Redis for a
\* session, whichever replica and connection made it, a reconnect finds exactly
\* the channels the calls left; after it, none. A disconnect, a death of the
\* replica and a refused subscribe take nothing away.
ResumeWindow ==
    \A s \in Sessions :
        /\ age[s] < TTL => sub[s].members = kept[s]
        /\ age[s] = TTL => sub[s] = Missing

\* A counter counts the sessions that hold its channel, whatever is repeated,
\* refused, failed or forgotten half-way, until a key expires under it; and
\* then too it is positive or absent.
CountersExact ==
    \A ch \in ChannelNames :
        /\ ch \notin drifted => counter[ch].n = Cardinality(Holders(ch))
        /\ (counter[ch].ttl = 0) = (counter[ch].n = 0)

\* A replica that writes nothing for a TTL has left nothing behind, and a
\* connection that was never admitted is on no list.
NothingLeftBehind ==
    /\ \A r \in Replicas : silent[r] = TTL => present[r] = Missing
    /\ \A c \in Conns :
          phase[c] \in {"new", "restored"} => \A r \in Replicas : c \notin present[r].members

PresenceCorrect ==
    PresenceTypeOK /\ CapHolds /\ ResumeWindow /\ CountersExact /\ NothingLeftBehind
=============================================================================
