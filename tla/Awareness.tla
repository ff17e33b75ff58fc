------------------------------ MODULE Awareness ------------------------------
(***************************************************************************)
(* Presence in one document (document.rs: add_connection,                  *)
(* remove_connection, close_connection, handle_awareness, broadcast_with,  *)
(* evict_lagging, reply_query_awareness, handle_external_frame; redis.rs:  *)
(* on_awareness_update).                                                   *)
(*                                                                         *)
(* A presence state is a clock and whether it is live; of two states of a  *)
(* client id the newer wins.  The server credits a connection with every   *)
(* id that comes in over it, also with those that a provider only repeats, *)
(* and removes their states when the connection goes.  A client that       *)
(* reconnects has two connections for a while.                             *)
(*                                                                         *)
(* Queues are not kept: told is the newest that went into the queue of a   *)
(* connection, and a broadcast may find any queue full, since document     *)
(* updates share it.  An update carries one id.  The node runs with        *)
(* unload_immediately, the default, and no hook aborts an unload.          *)
(* Clients follow y-protocols: a client whose own live state was removed   *)
(* asserts it again with a higher clock.                                   *)
(***************************************************************************)
EXTENDS Naturals, Sequences, FiniteSets

CONSTANTS
    Conns,          \* the connections, each used once
    Ids,            \* the client ids, of this node's clients and of others
    Owner,          \* the client at the other end of a connection
    Present,        \* the ids whose client has a presence; the others only watch
    Repeaters,      \* the connections whose provider sends back what it learns of others
    MaxEvents       \* bound on evictions and on presence changes, taken together

ASSUME AwarenessAssumption ==
    /\ Owner \in [Conns -> Ids]
    /\ Present \subseteq Ids /\ Repeaters \subseteq Conns
    /\ MaxEvents \in Nat

VARIABLES
    states,         \* the actor's presence state of each id
    connections,    \* the registered connections
    client_ids,     \* the ids each of them is credited with
    told,           \* the newest state of each id that was queued for a connection
    unread,         \* the ids of which its client has not read the newest
    inbox,          \* the awareness updates on their way from a connection
    link,           \* the client's end of a connection
    own,            \* the presence state a client has of itself
    published,      \* the newest state of each client of this node that peers were sent
    foreign,        \* history: the ids whose state came from Redis
    silent,         \* history: the ids removed by an eviction, not broadcast since
    uninformed,     \* history: connections whose snapshot met a full queue
    events          \* evictions and presence changes so far

client == <<link, own>>
redis == <<published, foreign>>
history == <<silent, uninformed>>
actor == <<states, connections, client_ids, told, unread>>
vars == <<actor, inbox, client, redis, history, events>>

State(clock, live) == [clock |-> clock, live |-> live]
NoState == State(0, FALSE)      \* also: never heard of

LocalIds == {Owner[c] : c \in Conns}
Online(k) == {c \in Conns : Owner[c] = k /\ link[c] = "on"}

-----------------------------------------------------------------------------
(* yrs::sync::Awareness. *)

Newer(new, old) == new.clock > old.clock \/ (new.clock = old.clock /\ old.live /\ ~new.live)

\* apply_update
Applied(k, s) == IF Newer(s, states[k]) THEN [states EXCEPT ![k] = s] ELSE states

\* remove_state
Removed(sts, ks) ==
    [k \in Ids |-> IF k \in ks THEN State(sts[k].clock + 1, FALSE) ELSE sts[k]]

-----------------------------------------------------------------------------
(* The actor. *)

\* Mutant of Wiped: an evicted connection leaves its states behind.
WipedNothing(credit, lag) == {}

\* evict_lagging removes the states of the connections it drops, and tells nobody.
Wiped(credit, lag) == UNION {credit[c] : c \in lag}

\* The bound, on n more events.
Count(n) == events + n <= MaxEvents /\ events' = events + n

\* broadcast_awareness of the states of ks to conns, of which the lagging are evicted.
Broadcast(sts, ks, conns, credit, lag) ==
    /\ lag \subseteq conns
    /\ connections' = conns \ lag
    /\ told' = [c \in Conns |-> [k \in Ids |->
                  IF c \notin connections' THEN NoState
                  ELSE IF k \in ks THEN sts[k] ELSE told[c][k]]]
    /\ unread' = [c \in Conns |-> IF c \notin connections' THEN {}
                     ELSE unread[c] \cup {k \in ks : told[c][k] # sts[k]}]
    /\ client_ids' = [c \in Conns |-> IF c \in connections' THEN credit[c] ELSE {}]
    /\ states' = Removed(sts, Wiped(credit, lag))
    /\ silent' = (silent \ ks) \cup Wiped(credit, lag)
    /\ uninformed' = uninformed \cap connections'

\* Mutant of OnAwarenessUpdate: what came from Redis is published, and only that.
OnAwarenessUpdateInverted(origin, k, s) ==
    published' = IF origin = "redis" /\ k \in LocalIds THEN [published EXCEPT ![k] = s]
                 ELSE published

\* on_awareness_update of the Redis extension: a state that did not come from Redis
\* is published.  (What peers send back of their own clients brings them nothing.)
OnAwarenessUpdate(origin, k, s) ==
    published' = IF origin # "redis" /\ k \in LocalIds THEN [published EXCEPT ![k] = s]
                 ELSE published

\* Mutant of HandleAwareness: an update that is not newer is not broadcast.
HandleAwarenessOfNews(u, origin, credit, lag) ==
    LET sts == Applied(u.id, u.state) IN
    /\ Broadcast(sts, IF sts = states THEN {} ELSE {u.id}, connections, credit, lag)
    /\ OnAwarenessUpdate(origin, u.id, sts[u.id])
    /\ foreign' = IF sts = states THEN foreign
                  ELSE IF origin = "redis" THEN foreign \cup {u.id} ELSE foreign \ {u.id}

\* handle_awareness of an update: what the actor now has of the id is broadcast
\* and given to the hooks, whether or not the update was newer.
HandleAwareness(u, origin, credit, lag) ==
    LET sts == Applied(u.id, u.state) IN
    /\ Broadcast(sts, {u.id}, connections, credit, lag)
    /\ OnAwarenessUpdate(origin, u.id, sts[u.id])
    /\ foreign' = IF sts = states THEN foreign
                  ELSE IF origin = "redis" THEN foreign \cup {u.id} ELSE foreign \ {u.id}

\* The next update of a connection: the id is credited to it.
ClientUpdate(c, lag) ==
    /\ Count(Cardinality(lag))
    /\ inbox[c] # << >> /\ c \in connections
    /\ LET u == Head(inbox[c]) IN
       HandleAwareness(u, "connection", [client_ids EXCEPT ![c] = @ \cup {u.id}], lag)
    /\ inbox' = [inbox EXCEPT ![c] = Tail(@)]
    /\ UNCHANGED client

\* A connection that was evicted is not listened to.
IgnoreUpdate(c) ==
    /\ inbox[c] # << >> /\ c \notin connections
    /\ inbox' = [inbox EXCEPT ![c] = Tail(@)]
    /\ UNCHANGED <<actor, client, redis, history, events>>

\* A client, of this node or of another, sets, renews or withdraws its presence.
Change(k, live) ==
    /\ k \in Present
    /\ own' = [own EXCEPT ![k] = State(@.clock + 1, live)]

\* A peer publishes what one of its clients announced.
PeerUpdate(k, live, lag) ==
    /\ k \notin LocalIds
    /\ Count(1 + Cardinality(lag))
    /\ Change(k, live)
    /\ HandleAwareness([id |-> k, state |-> own'[k]], "redis", client_ids, lag)
    /\ UNCHANGED <<inbox, link>>

\* A peer returns what it was sent of a client of this node, in answer to the query
\* that a load publishes.
PeerAnswer(k, lag) ==
    /\ Count(Cardinality(lag))
    /\ k \in LocalIds /\ published[k] # NoState
    /\ HandleAwareness([id |-> k, state |-> published[k]], "redis", client_ids, lag)
    /\ UNCHANGED <<inbox, client>>

\* The whole of the live states, into the queue of one connection.
Snapshot(c) ==
    /\ told' = [told EXCEPT ![c] = [k \in Ids |-> IF states[k].live THEN states[k] ELSE @[k]]]
    /\ unread' = [unread EXCEPT ![c] = @ \cup {k \in Ids : told'[c][k] # told[c][k]}]

\* add_connection, and the client's announcement of itself that follows.  Nobody
\* looks whether the snapshot met a full queue.
AddConnection(c) ==
    /\ link[c] = "new" /\ Online(Owner[c]) = {}
    /\ link' = [link EXCEPT ![c] = "on"]
    /\ connections' = connections \cup {c}
    /\ \/ Snapshot(c) /\ UNCHANGED uninformed
       \/ /\ states # [k \in Ids |-> NoState]
          /\ uninformed' = uninformed \cup {c}
          /\ UNCHANGED <<told, unread>>
    /\ inbox' = IF own[Owner[c]].live
                THEN [inbox EXCEPT ![c] = << [id |-> Owner[c], state |-> own[Owner[c]]] >>]
                ELSE inbox
    /\ UNCHANGED <<states, client_ids, own, redis, silent, events>>

\* reply_query_awareness: a client asks for the states of all.
QueryAwareness(c) ==
    /\ link[c] = "on" /\ c \in connections
    /\ Snapshot(c)
    /\ uninformed' = uninformed \ {c}
    /\ UNCHANGED <<states, connections, client_ids, inbox, client, redis, silent, events>>

\* Mutant of Left: the removal is not broadcast.
LeftSilently(c, lag) ==
    /\ lag = {}
    /\ Broadcast(Removed(states, client_ids[c]), {}, connections \ {c}, client_ids, lag)

\* remove_connection: the states of every id the connection is credited with are
\* removed and that is broadcast, but no awareness hook runs.
Left(c, lag) ==
    /\ client_ids[c] = {} => lag = {}
    /\ Broadcast(Removed(states, client_ids[c]), client_ids[c], connections \ {c},
                 client_ids, lag)

\* Mutant of Unloaded: the next actor takes over what connections were credited with.
UnloadedKeepsCredits ==
    /\ states' = [k \in Ids |-> NoState]
    /\ connections' = {}
    /\ told' = [c \in Conns |-> [k \in Ids |-> NoState]]
    /\ unread' = [c \in Conns |-> {}]
    /\ foreign' = {} /\ silent' = {} /\ uninformed' = {}
    /\ UNCHANGED client_ids

\* The actor goes; a later one starts with nothing.
Unloaded ==
    /\ states' = [k \in Ids |-> NoState]
    /\ connections' = {} /\ client_ids' = [c \in Conns |-> {}]
    /\ told' = [c \in Conns |-> [k \in Ids |-> NoState]]
    /\ unread' = [c \in Conns |-> {}]
    /\ foreign' = {} /\ silent' = {} /\ uninformed' = {}

\* The RemoveConnection command, after what the connection had sent: with the last
\* connection gone the actor unloads.  The connection may have been evicted or
\* closed before.
RemoveConnection(c, lag) ==
    /\ Count(Cardinality(lag))
    /\ link[c] = "gone" /\ inbox[c] = << >>
    /\ lag \subseteq connections \ {c} /\ (client_ids[c] = {} => lag = {})
    /\ link' = [link EXCEPT ![c] = "off"]
    /\ \/ connections \ {c} = lag /\ Unloaded
       \/ /\ c \in connections /\ connections \ {c} # lag
          /\ Left(c, lag)
          /\ UNCHANGED foreign
       \/ /\ c \notin connections /\ connections # {}
          /\ UNCHANGED <<actor, foreign, history>>
    /\ UNCHANGED <<inbox, own, published>>

\* close_connection: the client said Close, after what it had sent.  Nothing is
\* unloaded before its socket ends.
CloseConnection(c, lag) ==
    /\ Count(Cardinality(lag))
    /\ link[c] = "on" /\ inbox[c] = << >> /\ c \in connections
    /\ link' = [link EXCEPT ![c] = "gone"]
    /\ Left(c, lag)
    /\ UNCHANGED <<inbox, own, redis>>

-----------------------------------------------------------------------------
(* The clients. *)

Sent(c, k, s) == inbox' = [inbox EXCEPT ![c] = Append(@, [id |-> k, state |-> s])]

Announce(c, live) ==
    /\ link[c] = "on"
    /\ Count(1)
    /\ Change(Owner[c], live)
    /\ Sent(c, Owner[c], own'[Owner[c]])
    /\ UNCHANGED <<actor, link, redis, history>>

\* The client reads what it was told of an id.  A removal of its own live state it
\* contradicts.
Receive(c, k) ==
    /\ link[c] = "on" /\ k \in unread[c]
    /\ unread' = [unread EXCEPT ![c] = @ \ {k}]
    /\ \/ /\ k = Owner[c] /\ own[k].live /\ Newer(told[c][k], own[k]) /\ ~told[c][k].live
          /\ own' = [own EXCEPT ![k] = State(told[c][k].clock + 1, TRUE)]
          /\ Sent(c, k, own'[k])
       \/ /\ k = Owner[c] /\ ~(own[k].live /\ Newer(told[c][k], own[k]) /\ ~told[c][k].live)
          /\ UNCHANGED <<own, inbox>>
       \/ /\ k # Owner[c]
          /\ IF c \in Repeaters THEN Sent(c, k, told[c][k]) ELSE UNCHANGED inbox
          /\ UNCHANGED own
    /\ UNCHANGED <<states, connections, client_ids, told, link, redis, history, events>>

\* The client leaves or the network does; the server will notice.
Disconnect(c) ==
    /\ link[c] = "on"
    /\ link' = [link EXCEPT ![c] = "gone"]
    /\ UNCHANGED <<actor, inbox, own, redis, history, events>>

-----------------------------------------------------------------------------

Init ==
    /\ states = [k \in Ids |-> NoState]
    /\ connections = {} /\ client_ids = [c \in Conns |-> {}]
    /\ told = [c \in Conns |-> [k \in Ids |-> NoState]]
    /\ unread = [c \in Conns |-> {}]
    /\ inbox = [c \in Conns |-> << >>]
    /\ link = [c \in Conns |-> "new"]
    /\ own = [k \in Ids |-> State(1, k \in Present)]
    /\ published = [k \in LocalIds |-> NoState]
    /\ foreign = {} /\ silent = {} /\ uninformed = {}
    /\ events = 0

Handle(c) == IgnoreUpdate(c) \/ \E lag \in SUBSET connections : ClientUpdate(c, lag)

Next ==
    \/ \E c \in Conns :
          \/ AddConnection(c) \/ QueryAwareness(c) \/ Disconnect(c) \/ Handle(c)
          \/ \E live \in BOOLEAN : Announce(c, live)
          \/ \E k \in Ids : Receive(c, k)
          \/ \E lag \in SUBSET connections : RemoveConnection(c, lag) \/ CloseConnection(c, lag)
    \/ \E k \in Ids, lag \in SUBSET connections :
          \/ PeerAnswer(k, lag)
          \/ \E live \in BOOLEAN : PeerUpdate(k, live, lag)

Spec == Init /\ [][Next]_vars

\* The actor handles what it is sent and connected clients read what they are told.
FairSpec ==
    /\ Spec
    /\ WF_vars(\E c \in Conns : Handle(c))
    /\ WF_vars(\E c \in Conns : Receive(c, Owner[c]))

-----------------------------------------------------------------------------
(* Properties. *)

States == [clock : Nat, live : BOOLEAN]

\* Every variable keeps its type; only registered connections have credits.
TypeOK ==
    /\ states \in [Ids -> States] /\ own \in [Ids -> States] /\ published \in [LocalIds -> States]
    /\ connections \subseteq Conns
    /\ client_ids \in [Conns -> SUBSET Ids]
    /\ \A c \in Conns \ connections : client_ids[c] = {}
    /\ told \in [Conns -> [Ids -> States]] /\ unread \in [Conns -> SUBSET Ids]
    /\ inbox \in [Conns -> Seq([id : Ids, state : States])]
    /\ link \in [Conns -> {"new", "on", "gone", "off"}]
    /\ foreign \subseteq Ids /\ silent \subseteq Ids
    /\ uninformed \subseteq connections
    /\ events \in 0..MaxEvents

\* Nobody is shown as present whom no connection answers for: a live state that
\* did not come from Redis belongs to a registered connection, whose end will
\* remove it, through reconnects, repeated states and evictions.
NoGhost ==
    \A k \in Ids : states[k].live =>
        k \in foreign \/ \E c \in connections : k \in client_ids[c]

\* Every registered connection has been told what the actor knows: who is live,
\* with the same clock, and nobody else.  The exceptions are the states that an
\* eviction removed without a broadcast and a connection whose snapshot was lost.
SeenByAll ==
    \A c \in connections \ uninformed, k \in Ids \ silent :
        \/ told[c][k] = states[k]
        \/ ~told[c][k].live /\ ~states[k].live

\* A live state of a client of this node has been published to the peers.
LivePublished ==
    \A k \in LocalIds : states[k].live /\ k \notin foreign => published[k] = states[k]

\* When the end of a connection removes the state of a client that is still there
\* over another one - its own older connection, or that of somebody who repeated
\* its state - the client learns of it and its presence comes back.
Restored ==
    <>[](\A c \in connections :
            link[c] = "on" /\ own[Owner[c]].live /\ Owner[c] \notin silent =>
                states[Owner[c]].live)

\* "Every server node publishes document updates, awareness changes and stateless
\* broadcasts": what the actor has of a client of this node is what its peers were
\* sent.
ChangesPublished ==
    \A k \in LocalIds : states[k] # NoState /\ k \notin foreign => published[k] = states[k]
=============================================================================
