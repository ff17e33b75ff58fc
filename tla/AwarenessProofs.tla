--------------------------- MODULE AwarenessProofs ---------------------------
(***************************************************************************)
(* What Awareness guarantees for any number of connections and client ids, *)
(* reconnects, repeated states and evictions.                              *)
(***************************************************************************)
EXTENDS Awareness, FiniteSetTheorems, SequenceTheorems, TLAPS

\* The registered connections are finitely many, and new ones are not among them.
Registrations ==
    /\ IsFiniteSet(connections)
    /\ \A c \in Conns : link[c] = "new" => c \notin connections

\* A connection that is not registered has been told nothing.
Untold == \A c \in Conns \ connections : \A k \in Ids : told[c][k] = NoState

\* A registered connection, even one that missed its snapshot, takes nobody for
\* present who is not, or with an older clock.
ToldTrue ==
    \A c \in connections, k \in Ids \ silent : told[c][k].live => told[c][k] = states[k]

\* The inductive invariant.
IInv ==
    /\ TypeOK /\ Registrations
    /\ NoGhost /\ LivePublished
    /\ Untold /\ ToldTrue /\ SeenByAll

-----------------------------------------------------------------------------
(* Presence states. *)

\* A presence state has its clock and its flag.
LEMMA StateFields ==
    ASSUME NEW n, NEW b
    PROVE  /\ State(n, b).clock = n /\ State(n, b).live = b
           /\ n \in Nat /\ b \in BOOLEAN => State(n, b) \in States
  BY DEF State, States

\* The state of an id that was never heard of.
LEMMA NoStateFields == NoState \in States /\ ~NoState.live
  BY StateFields DEF NoState

\* remove_state leaves no live state of the ids it is given and the others alone.
LEMMA RemovedAt ==
    ASSUME NEW sts, NEW ks, NEW k \in Ids
    PROVE  /\ k \in ks => ~Removed(sts, ks)[k].live
           /\ k \notin ks => Removed(sts, ks)[k] = sts[k]
  BY StateFields DEF Removed

\* What is removed keeps its type.
LEMMA RemovedType ==
    ASSUME NEW sts \in [Ids -> States], NEW ks
    PROVE  Removed(sts, ks) \in [Ids -> States]
  <1>1. ASSUME NEW k \in Ids PROVE State(sts[k].clock + 1, FALSE) \in States
    <2>1. sts[k].clock + 1 \in Nat
      BY DEF States
    <2> QED
      BY <2>1, StateFields
  <1> QED
    BY <1>1 DEF Removed

\* apply_update changes at most the state of its id.
LEMMA AppliedAt ==
    ASSUME TypeOK, NEW i \in Ids, NEW s \in States
    PROVE  /\ Applied(i, s) \in [Ids -> States]
           /\ \A k \in Ids \ {i} : Applied(i, s)[k] = states[k]
  BY DEF Applied, TypeOK

\* The ids that an eviction wipes.
LEMMA WipedMember ==
    ASSUME NEW credit, NEW lag, NEW k
    PROVE  k \in Wiped(credit, lag) <=> \E c \in lag : k \in credit[c]
  BY DEF Wiped

-----------------------------------------------------------------------------
(* A broadcast. *)

\* What a broadcast leaves behind, connection by connection and id by id.
LEMMA BroadcastEffect ==
    ASSUME NEW sts, NEW ks, NEW conns, NEW credit, NEW lag,
           Broadcast(sts, ks, conns, credit, lag)
    PROVE  /\ lag \subseteq conns /\ connections' = conns \ lag
           /\ \A c \in Conns, k \in Ids :
                 told'[c][k] = IF c \notin connections' THEN NoState
                               ELSE IF k \in ks THEN sts[k] ELSE told[c][k]
           /\ \A c \in Conns : client_ids'[c] = IF c \in connections' THEN credit[c] ELSE {}
           /\ \A k \in Ids : /\ k \in Wiped(credit, lag) => ~states'[k].live
                             /\ k \notin Wiped(credit, lag) => states'[k] = sts[k]
           /\ silent' = (silent \ ks) \cup Wiped(credit, lag)
           /\ uninformed' = uninformed \cap connections'
  <1>1. states' = Removed(sts, Wiped(credit, lag))
    BY DEF Broadcast
  <1>2. ASSUME NEW k \in Ids
        PROVE  /\ k \in Wiped(credit, lag) => ~states'[k].live
               /\ k \notin Wiped(credit, lag) => states'[k] = sts[k]
    BY <1>1, RemovedAt
  <1>3. \A c \in Conns, k \in Ids :
            told'[c][k] = IF c \notin connections' THEN NoState
                          ELSE IF k \in ks THEN sts[k] ELSE told[c][k]
    BY DEF Broadcast
  <1>4. \A c \in Conns : client_ids'[c] = IF c \in connections' THEN credit[c] ELSE {}
    BY DEF Broadcast
  <1> QED
    BY <1>2, <1>3, <1>4 DEF Broadcast

\* The types of what a broadcast writes.
LEMMA BroadcastTypes ==
    ASSUME TypeOK, Registrations,
           NEW sts \in [Ids -> States], NEW ks \in SUBSET Ids,
           NEW conns \in SUBSET connections, NEW credit \in [Conns -> SUBSET Ids], NEW lag,
           Broadcast(sts, ks, conns, credit, lag)
    PROVE  /\ states' \in [Ids -> States]
           /\ connections' \subseteq connections /\ IsFiniteSet(connections')
           /\ client_ids' \in [Conns -> SUBSET Ids]
           /\ \A c \in Conns \ connections' : client_ids'[c] = {}
           /\ told' \in [Conns -> [Ids -> States]] /\ unread' \in [Conns -> SUBSET Ids]
           /\ silent' \subseteq Ids /\ uninformed' \subseteq connections'
  <1>1. states' \in [Ids -> States]
    BY RemovedType DEF Broadcast
  <1>2. connections' \subseteq connections /\ IsFiniteSet(connections')
    <2>1. connections' \subseteq connections
      BY DEF Broadcast
    <2> QED
      BY <2>1, FS_Subset DEF Registrations
  <1>3. /\ client_ids' \in [Conns -> SUBSET Ids]
        /\ \A c \in Conns \ connections' : client_ids'[c] = {}
    BY DEF Broadcast
  <1>4. told' \in [Conns -> [Ids -> States]]
    <2>1. ASSUME NEW c \in Conns, NEW k \in Ids
          PROVE  (IF c \notin connections' THEN NoState
                  ELSE IF k \in ks THEN sts[k] ELSE told[c][k]) \in States
      BY NoStateFields DEF TypeOK
    <2> QED
      BY <2>1 DEF Broadcast
  <1>5. unread' \in [Conns -> SUBSET Ids]
    BY DEF Broadcast, TypeOK
  <1>6. silent' \subseteq Ids
    <2>1. Wiped(credit, lag) \subseteq Ids
      BY WipedMember DEF Broadcast, TypeOK
    <2> QED
      BY <2>1 DEF Broadcast, TypeOK
  <1>7. uninformed' \subseteq connections'
    BY DEF Broadcast
  <1> QED
    BY <1>1, <1>2, <1>3, <1>4, <1>5, <1>6, <1>7

\* A broadcast of every state that changes keeps what connections were told true.
LEMMA BroadcastSeen ==
    ASSUME TypeOK, ToldTrue, SeenByAll,
           NEW sts, NEW ks, NEW conns \in SUBSET connections, NEW credit, NEW lag,
           \A k \in Ids \ ks : sts[k] = states[k],
           Broadcast(sts, ks, conns, credit, lag)
    PROVE  Untold' /\ ToldTrue' /\ SeenByAll'
  <1>1. Untold'
    BY BroadcastEffect DEF Untold
  <1>2. ASSUME NEW c \in connections', NEW k \in Ids \ silent'
        PROVE  /\ c \in Conns /\ c \in connections /\ (c \notin uninformed' => c \notin uninformed)
               /\ k \in ks => told'[c][k] = states'[k]
               /\ k \notin ks => /\ k \notin silent
                                 /\ told'[c][k] = told[c][k] /\ states'[k] = states[k]
    <2>1. c \in Conns /\ c \in connections
      BY BroadcastEffect DEF TypeOK
    <2>2. c \notin uninformed' => c \notin uninformed
      BY BroadcastEffect
    <2>3. k \notin Wiped(credit, lag) /\ (k \notin ks => k \notin silent)
      BY BroadcastEffect
    <2>4. states'[k] = sts[k]
      BY <2>3, BroadcastEffect
    <2>5. told'[c][k] = IF k \in ks THEN sts[k] ELSE told[c][k]
      BY <2>1, BroadcastEffect
    <2> QED
      BY <2>1, <2>2, <2>3, <2>4, <2>5
  <1>3. ToldTrue'
    BY <1>2 DEF ToldTrue
  <1>4. SeenByAll'
    BY <1>2 DEF SeenByAll
  <1> QED
    BY <1>1, <1>3, <1>4

\* If every live state is answered for before the eviction, it is afterwards.
LEMMA BroadcastAnswered ==
    ASSUME NEW sts, NEW ks, NEW conns \in SUBSET Conns, NEW credit, NEW lag,
           \A k \in Ids : sts[k].live => k \in foreign' \/ \E c \in conns : k \in credit[c],
           Broadcast(sts, ks, conns, credit, lag)
    PROVE  NoGhost'
  <1> SUFFICES ASSUME NEW k \in Ids, states'[k].live, k \notin foreign'
               PROVE  \E c \in connections' : k \in client_ids'[c]
    BY DEF NoGhost
  <1>1. k \notin Wiped(credit, lag) /\ sts[k].live
    BY BroadcastEffect
  <1>2. PICK c \in conns : k \in credit[c]
    BY <1>1
  <1>3. c \in connections'
    BY <1>1, <1>2, WipedMember, BroadcastEffect
  <1> QED
    BY <1>2, <1>3, BroadcastEffect

-----------------------------------------------------------------------------
(* The steps of the actor. *)

\* What the actor keeps has its type, and so has the history.
ActorTypes ==
    /\ states \in [Ids -> States] /\ published \in [LocalIds -> States]
    /\ connections \subseteq Conns /\ IsFiniteSet(connections)
    /\ client_ids \in [Conns -> SUBSET Ids]
    /\ \A c \in Conns \ connections : client_ids[c] = {}
    /\ told \in [Conns -> [Ids -> States]] /\ unread \in [Conns -> SUBSET Ids]
    /\ foreign \subseteq Ids /\ silent \subseteq Ids
    /\ uninformed \subseteq connections

\* The properties of presence.
Presence == NoGhost /\ LivePublished /\ Untold /\ ToldTrue /\ SeenByAll

\* The rest of the type invariant, of the clients and of the bound.
ClientTypes ==
    /\ own \in [Ids -> States]
    /\ inbox \in [Conns -> Seq([id : Ids, state : States])]
    /\ link \in [Conns -> {"new", "on", "gone", "off"}]
    /\ events \in 0..MaxEvents

\* The parts make the invariant up.
LEMMA Parts ==
    /\ IInv <=> /\ ActorTypes /\ ClientTypes /\ Presence
                /\ \A c \in Conns : link[c] = "new" => c \notin connections
    /\ IInv' <=> /\ ActorTypes' /\ ClientTypes' /\ Presence'
                 /\ \A c \in Conns : link'[c] = "new" => c \notin connections'
  BY DEF IInv, TypeOK, Registrations, ActorTypes, ClientTypes, Presence

\* An update over a connection that is credited with its id, or from Redis.
LEMMA UpdateStep ==
    ASSUME IInv, NEW u \in [id : Ids, state : States], NEW origin,
           NEW credit \in [Conns -> SUBSET Ids], NEW lag,
           \A c \in Conns : client_ids[c] \subseteq credit[c],
           origin # "redis" => \E c \in connections : u.id \in credit[c],
           HandleAwareness(u, origin, credit, lag)
    PROVE  ActorTypes' /\ Presence' /\ connections' \subseteq connections
  <1> DEFINE sts == Applied(u.id, u.state)
  <1>1. TypeOK /\ Registrations /\ Presence
    BY DEF IInv, Presence
  <1>2. u.id \in Ids /\ u.state \in States
    OBVIOUS
  <1>3. sts \in [Ids -> States] /\ \A k \in Ids \ {u.id} : sts[k] = states[k]
    BY <1>1, <1>2, AppliedAt
  <1>4. /\ Broadcast(sts, {u.id}, connections, credit, lag)
        /\ OnAwarenessUpdate(origin, u.id, sts[u.id])
        /\ foreign' = IF sts = states THEN foreign
                      ELSE IF origin = "redis" THEN foreign \cup {u.id} ELSE foreign \ {u.id}
    BY DEF HandleAwareness
  <1> HIDE DEF sts
  <1>5. /\ states' \in [Ids -> States]
        /\ connections' \subseteq connections /\ IsFiniteSet(connections')
        /\ client_ids' \in [Conns -> SUBSET Ids]
        /\ \A c \in Conns \ connections' : client_ids'[c] = {}
        /\ told' \in [Conns -> [Ids -> States]] /\ unread' \in [Conns -> SUBSET Ids]
        /\ silent' \subseteq Ids /\ uninformed' \subseteq connections'
    BY <1>1, <1>2, <1>3, <1>4, BroadcastTypes
  <1>6. ActorTypes'
    <2>1. published' \in [LocalIds -> States]
      BY <1>1, <1>2, <1>3, <1>4 DEF OnAwarenessUpdate, TypeOK
    <2>2. foreign' \subseteq Ids
      BY <1>1, <1>2, <1>4 DEF TypeOK
    <2> QED
      BY <1>1, <1>5, <2>1, <2>2 DEF ActorTypes, TypeOK
  <1>7. Untold' /\ ToldTrue' /\ SeenByAll'
    BY <1>1, <1>3, <1>4, BroadcastSeen DEF Presence
  <1>8. NoGhost'
    <2>1. ASSUME NEW k \in Ids, sts[k].live
          PROVE  k \in foreign' \/ \E c \in connections : k \in credit[c]
      <3>1. CASE states[k].live
        <4>1. k \in foreign \/ \E c \in connections : k \in credit[c]
          BY <1>1, <3>1 DEF Presence, NoGhost, TypeOK
        <4>2. CASE k \in foreign /\ k # u.id
          BY <1>4, <4>2
        <4>3. CASE k = u.id /\ k \in foreign
          BY <1>4, <4>3
        <4> QED
          BY <4>1, <4>2, <4>3
      <3>2. CASE ~states[k].live
        <4>1. k = u.id /\ sts # states
          BY <1>3, <2>1, <3>2
        <4> QED
          BY <1>4, <4>1
      <3> QED
        BY <3>1, <3>2
    <2>2. connections \in SUBSET Conns
      BY <1>1 DEF TypeOK
    <2> QED
      BY <1>4, <2>1, <2>2, BroadcastAnswered
  <1>9. LivePublished'
    <2> SUFFICES ASSUME NEW k \in LocalIds, states'[k].live, k \notin foreign'
                 PROVE  published'[k] = states'[k]
      BY DEF LivePublished
    <2>1. k \in Ids
      BY AwarenessAssumption DEF LocalIds
    <2>2. states'[k] = sts[k]
      BY <1>4, <2>1, BroadcastEffect
    <2>3. CASE k = u.id /\ origin # "redis"
      BY <1>1, <1>4, <2>2, <2>3 DEF OnAwarenessUpdate, TypeOK
    <2>4. CASE k = u.id /\ origin = "redis"
      BY <1>1, <1>4, <2>2, <2>4 DEF OnAwarenessUpdate, Presence, LivePublished
    <2>5. CASE k # u.id
      <3>1. states[k] = states'[k] /\ k \notin foreign
        BY <1>3, <1>4, <2>1, <2>2, <2>5
      <3>2. published'[k] = published[k]
        BY <1>1, <1>4, <2>5 DEF OnAwarenessUpdate, TypeOK
      <3> QED
        BY <1>1, <3>1, <3>2 DEF Presence, LivePublished
    <2> QED
      BY <2>3, <2>4, <2>5
  <1> QED
    BY <1>5, <1>6, <1>7, <1>8, <1>9 DEF Presence

\* A connection leaves: nobody but the others that are credited answers any longer.
LEMMA LeftStep ==
    ASSUME IInv, NEW c \in Conns, NEW lag, Left(c, lag), UNCHANGED <<published, foreign>>
    PROVE  ActorTypes' /\ Presence' /\ connections' \subseteq connections \ {c}
  <1> DEFINE sts == Removed(states, client_ids[c])
  <1>1. TypeOK /\ Registrations /\ Presence
    BY DEF IInv, Presence
  <1>2. Broadcast(sts, client_ids[c], connections \ {c}, client_ids, lag)
    BY DEF Left
  <1>3. /\ sts \in [Ids -> States]
        /\ \A k \in Ids : /\ k \in client_ids[c] => ~sts[k].live
                          /\ k \notin client_ids[c] => sts[k] = states[k]
    <2>1. states \in [Ids -> States]
      BY <1>1 DEF TypeOK
    <2> QED
      BY <2>1, RemovedType, RemovedAt
  <1> HIDE DEF sts
  <1>4. /\ client_ids[c] \in SUBSET Ids /\ client_ids \in [Conns -> SUBSET Ids]
        /\ connections \ {c} \in SUBSET connections /\ connections \ {c} \in SUBSET Conns
    BY <1>1 DEF TypeOK
  <1>5. /\ states' \in [Ids -> States]
        /\ connections' \subseteq connections /\ IsFiniteSet(connections')
        /\ client_ids' \in [Conns -> SUBSET Ids]
        /\ \A d \in Conns \ connections' : client_ids'[d] = {}
        /\ told' \in [Conns -> [Ids -> States]] /\ unread' \in [Conns -> SUBSET Ids]
        /\ silent' \subseteq Ids /\ uninformed' \subseteq connections'
    BY <1>1, <1>2, <1>3, <1>4, BroadcastTypes
  <1>6. ActorTypes'
    BY <1>1, <1>5 DEF ActorTypes, TypeOK
  <1>7. Untold' /\ ToldTrue' /\ SeenByAll'
    <2>1. \A k \in Ids \ client_ids[c] : sts[k] = states[k]
      BY <1>3
    <2> QED
      BY <1>1, <1>2, <1>4, <2>1, BroadcastSeen DEF Presence
  <1>8. NoGhost'
    <2>1. \A k \in Ids : sts[k].live =>
              k \in foreign' \/ \E d \in connections \ {c} : k \in client_ids[d]
      BY <1>1, <1>3 DEF Presence, NoGhost
    <2> QED
      BY <1>2, <1>4, <2>1, BroadcastAnswered
  <1>9. LivePublished'
    <2> SUFFICES ASSUME NEW k \in LocalIds, states'[k].live, k \notin foreign'
                 PROVE  published'[k] = states'[k]
      BY DEF LivePublished
    <2>1. k \in Ids
      BY AwarenessAssumption DEF LocalIds
    <2>2. states'[k] = sts[k]
      BY <1>2, <2>1, BroadcastEffect
    <2>3. sts[k] = states[k]
      BY <1>3, <2>1, <2>2
    <2> QED
      BY <1>1, <2>2, <2>3 DEF Presence, LivePublished
  <1>10. connections' \subseteq connections \ {c}
    BY <1>2 DEF Broadcast
  <1> QED
    BY <1>6, <1>7, <1>8, <1>9, <1>10 DEF Presence

\* What a snapshot tells a connection.
LEMMA SnapshotAt ==
    ASSUME TypeOK, NEW c \in Conns, Snapshot(c)
    PROVE  /\ told' \in [Conns -> [Ids -> States]] /\ unread' \in [Conns -> SUBSET Ids]
           /\ \A d \in Conns \ {c} : told'[d] = told[d]
           /\ \A k \in Ids : told'[c][k] = IF states[k].live THEN states[k] ELSE told[c][k]
  <1>1. told' = [told EXCEPT ![c] =
                    [k \in Ids |-> IF states[k].live THEN states[k] ELSE told[c][k]]]
    BY DEF Snapshot, TypeOK
  <1>2. told' \in [Conns -> [Ids -> States]]
    BY <1>1 DEF TypeOK
  <1>3. unread' \in [Conns -> SUBSET Ids]
    BY DEF Snapshot, TypeOK
  <1> QED
    BY <1>1, <1>2, <1>3 DEF TypeOK

\* A connection is registered, and told who is there or, its queue being full, not.
LEMMA AddStep ==
    ASSUME IInv, NEW c \in Conns, AddConnection(c)
    PROVE  ActorTypes' /\ Presence'
  <1>1. TypeOK /\ Registrations /\ Presence
    BY DEF IInv, Presence
  <1>2. /\ c \notin connections /\ connections' = connections \cup {c}
        /\ UNCHANGED <<states, client_ids, published, foreign, silent>>
    BY <1>1 DEF AddConnection, Registrations, redis
  <1>3. IsFiniteSet(connections')
    BY <1>1, <1>2, FS_AddElement DEF Registrations
  <1>4. /\ told' \in [Conns -> [Ids -> States]] /\ unread' \in [Conns -> SUBSET Ids]
        /\ \A d \in Conns \ {c} : told'[d] = told[d]
        /\ \A k \in Ids : told'[c][k] \in {NoState, states[k]}
        /\ uninformed' \subseteq uninformed \cup {c} /\ uninformed \subseteq uninformed'
        /\ c \notin uninformed' => \A k \in Ids : states[k].live => told'[c][k] = states[k]
    <2>1. \A k \in Ids : told[c][k] = NoState
      BY <1>1, <1>2 DEF Presence, Untold
    <2>2. CASE Snapshot(c) /\ UNCHANGED uninformed
      BY <1>1, <2>1, <2>2, SnapshotAt
    <2>3. CASE uninformed' = uninformed \cup {c} /\ UNCHANGED <<told, unread>>
      BY <1>1, <2>1, <2>3 DEF TypeOK
    <2> QED
      BY <2>2, <2>3 DEF AddConnection
  <1>5. ActorTypes'
    BY <1>1, <1>2, <1>3, <1>4 DEF ActorTypes, TypeOK
  <1>6. NoGhost' /\ LivePublished' /\ Untold'
    BY <1>1, <1>2, <1>4 DEF Presence, NoGhost, LivePublished, Untold
  <1>7. ToldTrue' /\ SeenByAll'
    BY <1>1, <1>2, <1>4, NoStateFields DEF Presence, ToldTrue, SeenByAll, TypeOK
  <1> QED
    BY <1>5, <1>6, <1>7 DEF Presence

\* A connection that asks is told who is there, and was told nothing false before.
LEMMA QueryStep ==
    ASSUME IInv, NEW c \in Conns, QueryAwareness(c)
    PROVE  ActorTypes' /\ Presence'
  <1>1. TypeOK /\ Registrations /\ Presence
    BY DEF IInv, Presence
  <1>2. /\ c \in connections /\ uninformed' = uninformed \ {c}
        /\ UNCHANGED <<states, connections, client_ids, published, foreign, silent>>
    BY DEF QueryAwareness, redis
  <1>3. /\ told' \in [Conns -> [Ids -> States]] /\ unread' \in [Conns -> SUBSET Ids]
        /\ \A d \in Conns \ {c} : told'[d] = told[d]
        /\ \A k \in Ids : told'[c][k] = IF states[k].live THEN states[k] ELSE told[c][k]
    BY <1>1, SnapshotAt DEF QueryAwareness
  <1>4. ActorTypes'
    BY <1>1, <1>2, <1>3 DEF ActorTypes, TypeOK, Registrations
  <1>5. NoGhost' /\ LivePublished' /\ Untold'
    BY <1>1, <1>2, <1>3 DEF Presence, NoGhost, LivePublished, Untold
  <1>6. ASSUME NEW k \in Ids \ silent
        PROVE  /\ told'[c][k].live => told'[c][k] = states'[k]
               /\ told'[c][k] = states'[k] \/ (~told'[c][k].live /\ ~states'[k].live)
    <2>1. told[c][k].live => told[c][k] = states[k]
      BY <1>1, <1>2 DEF Presence, ToldTrue
    <2> QED
      BY <1>2, <1>3, <2>1
  <1>7. ToldTrue'
    BY <1>1, <1>2, <1>3, <1>6, SMTT(30) DEF Presence, ToldTrue, TypeOK
  <1>8. SeenByAll'
    BY <1>1, <1>2, <1>3, <1>6 DEF Presence, SeenByAll, TypeOK
  <1> QED
    BY <1>4, <1>5, <1>7, <1>8 DEF Presence

\* The actor goes and its presence states with it.
LEMMA UnloadedStep ==
    ASSUME IInv, Unloaded, UNCHANGED published
    PROVE  ActorTypes' /\ Presence' /\ connections' = {}
  <1>1. connections' = {} /\ IsFiniteSet(connections') /\ \A k \in Ids : ~states'[k].live
    BY NoStateFields, FS_EmptySet DEF Unloaded
  <1>2. ActorTypes'
    BY <1>1, NoStateFields DEF IInv, TypeOK, Unloaded, ActorTypes
  <1>3. \A k \in LocalIds : k \in Ids
    BY AwarenessAssumption DEF LocalIds
  <1>4. Untold'
    BY DEF Unloaded, Untold
  <1> QED
    BY <1>1, <1>2, <1>3, <1>4 DEF Presence, NoGhost, LivePublished, ToldTrue, SeenByAll

\* Steps of clients leave the actor's presence alone, but for what was read.
LEMMA ActorUntouched ==
    ASSUME IInv,
           UNCHANGED <<states, connections, client_ids, told, published, foreign, silent,
                       uninformed>>,
           unread' \in [Conns -> SUBSET Ids]
    PROVE  ActorTypes' /\ Presence'
  <1>1. ActorTypes'
    BY DEF IInv, TypeOK, Registrations, ActorTypes
  <1> QED
    BY <1>1 DEF IInv, Presence, NoGhost, LivePublished, Untold, ToldTrue, SeenByAll

-----------------------------------------------------------------------------
(* Every step keeps the invariant. *)

\* The bound on events.
LEMMA CountType ==
    ASSUME ClientTypes, NEW n \in Nat, Count(n)
    PROVE  events' \in 0..MaxEvents
  BY AwarenessAssumption DEF ClientTypes, Count

\* So many connections may lag.
LEMMA LagCount ==
    ASSUME ActorTypes, NEW lag \in SUBSET connections
    PROVE  Cardinality(lag) \in Nat /\ 1 + Cardinality(lag) \in Nat
  BY FS_Subset, FS_CardinalityType DEF ActorTypes

\* A client sends a state.
LEMMA SentType ==
    ASSUME ClientTypes, NEW c \in Conns, NEW k \in Ids, NEW s \in States, Sent(c, k, s)
    PROVE  inbox' \in [Conns -> Seq([id : Ids, state : States])]
  <1>1. [id |-> k, state |-> s] \in [id : Ids, state : States]
    OBVIOUS
  <1>2. \A d \in Conns : inbox[d] \in Seq([id : Ids, state : States])
    BY DEF ClientTypes
  <1>3. \A d \in Conns :
            Append(inbox[d], [id |-> k, state |-> s]) \in Seq([id : Ids, state : States])
    BY <1>1, <1>2, AppendProperties
  <1> QED
    BY <1>3 DEF Sent, ClientTypes

\* A client changes its own state.
LEMMA ChangeType ==
    ASSUME ClientTypes, NEW k \in Ids, NEW live \in BOOLEAN, Change(k, live)
    PROVE  own' \in [Ids -> States] /\ own'[k] \in States
  <1>1. State(own[k].clock + 1, live) \in States
    <2>1. own[k].clock + 1 \in Nat
      BY DEF ClientTypes, States
    <2> QED
      BY <2>1, StateFields
  <1> QED
    BY <1>1 DEF Change, ClientTypes

\* The first state.
LEMMA InitIInv == Init => IInv
  <1> SUFFICES ASSUME Init PROVE IInv
    OBVIOUS
  <1>1. State(1, TRUE) \in States /\ State(1, FALSE) \in States
    BY StateFields
  <1>2. own \in [Ids -> States]
    <2>1. \A k \in Ids : State(1, k \in Present) \in States
      BY DEF State, States
    <2> QED
      BY <2>1 DEF Init
  <1>3. ClientTypes
    BY <1>2, AwarenessAssumption DEF Init, ClientTypes
  <1>4. ActorTypes
    BY NoStateFields, FS_EmptySet DEF Init, ActorTypes
  <1>5. \A k \in LocalIds : k \in Ids
    BY AwarenessAssumption DEF LocalIds
  <1>6. Presence
    BY <1>5, NoStateFields
       DEF Init, Presence, NoGhost, LivePublished, Untold, ToldTrue, SeenByAll
  <1> QED
    BY <1>3, <1>4, <1>6, Parts DEF Init

\* Every step.
LEMMA NextIInv == IInv /\ [Next]_vars => IInv'
  <1> SUFFICES ASSUME IInv, [Next]_vars PROVE IInv'
    OBVIOUS
  <1>0. /\ ActorTypes /\ ClientTypes /\ Presence
        /\ \A c \in Conns : link[c] = "new" => c \notin connections
    BY Parts
  <1>1. ASSUME NEW c \in Conns, NEW lag \in SUBSET connections, ClientUpdate(c, lag) PROVE IInv'
    <2> DEFINE u == Head(inbox[c])
               credit == [client_ids EXCEPT ![c] = @ \cup {u.id}]
    <2>1. inbox[c] \in Seq([id : Ids, state : States]) /\ inbox[c] # << >> /\ c \in connections
      BY <1>0, <1>1 DEF ClientUpdate, ClientTypes
    <2>2. u \in [id : Ids, state : States] /\ Tail(inbox[c]) \in Seq([id : Ids, state : States])
      BY <2>1, HeadTailProperties
    <2>3. /\ credit \in [Conns -> SUBSET Ids]
          /\ \A d \in Conns : client_ids[d] \subseteq credit[d]
          /\ u.id \in credit[c]
      BY <1>0, <2>2 DEF ActorTypes
    <2>4. HandleAwareness(u, "connection", credit, lag)
      BY <1>1 DEF ClientUpdate
    <2>5. events' \in 0..MaxEvents
      BY <1>0, <1>1, LagCount, CountType DEF ClientUpdate
    <2>6. /\ inbox' = [inbox EXCEPT ![c] = Tail(@)] /\ UNCHANGED <<link, own>>
      BY <1>1 DEF ClientUpdate, client
    <2>7. ClientTypes'
      BY <1>0, <2>2, <2>5, <2>6 DEF ClientTypes
    <2> HIDE DEF u, credit
    <2>8. ActorTypes' /\ Presence' /\ connections' \subseteq connections
      BY <2>1, <2>2, <2>3, <2>4, UpdateStep
    <2> QED
      BY <1>0, <2>6, <2>7, <2>8, Parts
  <1>2. ASSUME NEW c \in Conns, IgnoreUpdate(c) PROVE IInv'
    <2>1. inbox[c] \in Seq([id : Ids, state : States]) /\ inbox[c] # << >>
      BY <1>0, <1>2 DEF IgnoreUpdate, ClientTypes
    <2>2. Tail(inbox[c]) \in Seq([id : Ids, state : States])
      BY <2>1, HeadTailProperties
    <2>3. ClientTypes'
      BY <1>0, <1>2, <2>2 DEF IgnoreUpdate, client, ClientTypes
    <2>4. ActorTypes' /\ Presence'
      BY <1>0, <1>2, ActorUntouched DEF IgnoreUpdate, actor, redis, history, ActorTypes
    <2> QED
      BY <1>0, <1>2, <2>3, <2>4, Parts DEF IgnoreUpdate, client, actor
  <1>3. ASSUME NEW k \in Ids, NEW s \in States, NEW lag \in SUBSET connections,
               HandleAwareness([id |-> k, state |-> s], "redis", client_ids, lag),
               ClientTypes', UNCHANGED link
        PROVE  IInv'
    <2>1. /\ client_ids \in [Conns -> SUBSET Ids]
          /\ [id |-> k, state |-> s] \in [id : Ids, state : States]
      BY <1>0 DEF ActorTypes
    <2>2. ActorTypes' /\ Presence' /\ connections' \subseteq connections
      BY <1>3, <2>1, UpdateStep
    <2> QED
      BY <1>0, <1>3, <2>2, Parts
  <1>4. ASSUME NEW k \in Ids, NEW lag \in SUBSET connections, PeerAnswer(k, lag) PROVE IInv'
    <2>1. /\ published[k] \in States
          /\ HandleAwareness([id |-> k, state |-> published[k]], "redis", client_ids, lag)
      BY <1>0, <1>4 DEF PeerAnswer, ActorTypes
    <2>2. events' \in 0..MaxEvents
      BY <1>0, <1>4, LagCount, CountType DEF PeerAnswer
    <2>3. ClientTypes' /\ UNCHANGED link
      BY <1>0, <1>4, <2>2 DEF PeerAnswer, client, ClientTypes
    <2> QED
      BY <1>3, <2>1, <2>3
  <1>5. ASSUME NEW k \in Ids, NEW lag \in SUBSET connections, NEW live \in BOOLEAN,
               PeerUpdate(k, live, lag)
        PROVE  IInv'
    <2>1. own' \in [Ids -> States] /\ own'[k] \in States
      BY <1>0, <1>5, ChangeType DEF PeerUpdate
    <2>2. HandleAwareness([id |-> k, state |-> own'[k]], "redis", client_ids, lag)
      BY <1>5 DEF PeerUpdate
    <2>3. events' \in 0..MaxEvents
      BY <1>0, <1>5, LagCount, CountType DEF PeerUpdate
    <2>4. ClientTypes' /\ UNCHANGED link
      BY <1>0, <1>5, <2>1, <2>3 DEF PeerUpdate, ClientTypes
    <2> QED
      BY <1>3, <2>1, <2>2, <2>4
  <1>6. ASSUME NEW c \in Conns, AddConnection(c) PROVE IInv'
    <2>1. Owner[c] \in Ids
      BY AwarenessAssumption
    <2>2. << [id |-> Owner[c], state |-> own[Owner[c]]] >> \in Seq([id : Ids, state : States])
      BY <1>0, <2>1 DEF ClientTypes
    <2>3. ClientTypes'
      BY <1>0, <1>6, <2>2 DEF AddConnection, ClientTypes
    <2>4. ActorTypes' /\ Presence'
      BY <1>6, AddStep
    <2>5. \A d \in Conns : link'[d] = "new" => d \notin connections'
      BY <1>0, <1>6 DEF AddConnection, ClientTypes
    <2> QED
      BY <2>3, <2>4, <2>5, Parts
  <1>7. ASSUME NEW c \in Conns, QueryAwareness(c) PROVE IInv'
    <2>1. ActorTypes' /\ Presence'
      BY <1>7, QueryStep
    <2>2. UNCHANGED <<inbox, link, own, events, connections>>
      BY <1>7 DEF QueryAwareness, client
    <2> QED
      BY <1>0, <2>1, <2>2, Parts DEF ClientTypes
  <1>8. ASSUME NEW c \in Conns, NEW lag \in SUBSET connections, RemoveConnection(c, lag) PROVE IInv'
    <2>1. events' \in 0..MaxEvents
      BY <1>0, <1>8, LagCount, CountType DEF RemoveConnection
    <2>2. /\ link' = [link EXCEPT ![c] = "off"] /\ link[c] = "gone"
          /\ UNCHANGED <<inbox, own, published>>
      BY <1>8 DEF RemoveConnection
    <2>3. ClientTypes' /\ \A d \in Conns : link'[d] = "new" => link[d] = "new"
      BY <1>0, <2>1, <2>2 DEF ClientTypes
    <2>4. ActorTypes' /\ Presence' /\ connections' \subseteq connections
      <3>1. CASE Unloaded
        BY <2>2, <3>1, UnloadedStep
      <3>2. CASE Left(c, lag) /\ UNCHANGED foreign
        BY <2>2, <3>2, LeftStep
      <3>3. CASE UNCHANGED <<actor, foreign, history>>
        <4>1. UNCHANGED <<states, connections, client_ids, told, unread, published, foreign, silent,
                          uninformed>>
          BY <2>2, <3>3 DEF actor, history
        <4> QED
          BY <1>0, <4>1, ActorUntouched DEF ActorTypes
      <3> QED
        BY <1>8, <3>1, <3>2, <3>3 DEF RemoveConnection
    <2> QED
      BY <1>0, <2>3, <2>4, Parts
  <1>9. ASSUME NEW c \in Conns, NEW lag \in SUBSET connections, CloseConnection(c, lag) PROVE IInv'
    <2>1. events' \in 0..MaxEvents
      BY <1>0, <1>9, LagCount, CountType DEF CloseConnection
    <2>2. /\ link' = [link EXCEPT ![c] = "gone"] /\ link[c] = "on"
          /\ Left(c, lag) /\ UNCHANGED <<inbox, own, published, foreign>>
      BY <1>9 DEF CloseConnection, redis
    <2>3. ClientTypes' /\ \A d \in Conns : link'[d] = "new" => link[d] = "new"
      BY <1>0, <2>1, <2>2 DEF ClientTypes
    <2>4. ActorTypes' /\ Presence' /\ connections' \subseteq connections
      BY <2>2, LeftStep
    <2> QED
      BY <1>0, <2>3, <2>4, Parts
  <1>10. ASSUME NEW c \in Conns, NEW live \in BOOLEAN, Announce(c, live) PROVE IInv'
    <2>1. Owner[c] \in Ids
      BY AwarenessAssumption
    <2>2. own' \in [Ids -> States] /\ own'[Owner[c]] \in States
      BY <1>0, <1>10, <2>1, ChangeType DEF Announce
    <2>3. inbox' \in [Conns -> Seq([id : Ids, state : States])]
      BY <1>0, <1>10, <2>1, <2>2, SentType DEF Announce
    <2>4. events' \in 0..MaxEvents
      BY <1>0, <1>10, CountType DEF Announce
    <2>5. ClientTypes' /\ UNCHANGED link
      BY <1>0, <1>10, <2>2, <2>3, <2>4 DEF Announce, ClientTypes
    <2>6. UNCHANGED <<states, connections, client_ids, told, unread, published, foreign, silent,
                      uninformed>>
      BY <1>10 DEF Announce, actor, redis, history
    <2>7. ActorTypes' /\ Presence'
      BY <1>0, <2>6, ActorUntouched DEF ActorTypes
    <2> QED
      BY <1>0, <2>5, <2>6, <2>7, Parts
  <1>11. ASSUME NEW c \in Conns, NEW k \in Ids, Receive(c, k) PROVE IInv'
    <2>1. /\ unread' \in [Conns -> SUBSET Ids]
          /\ UNCHANGED <<states, connections, client_ids, told, link, published, foreign, silent,
                         uninformed, events>>
      BY <1>0, <1>11 DEF Receive, redis, history, ActorTypes
    <2>2. ActorTypes' /\ Presence'
      BY <2>1, ActorUntouched
    <2>3. told[c][k] \in States /\ told[c][k].clock + 1 \in Nat
      BY <1>0 DEF ActorTypes, States
    <2>4. own' \in [Ids -> States] /\ inbox' \in [Conns -> Seq([id : Ids, state : States])]
      <3>1. CASE own' = [own EXCEPT ![k] = State(told[c][k].clock + 1, TRUE)] /\ Sent(c, k, own'[k])
        <4>1. own' \in [Ids -> States] /\ own'[k] \in States
          BY <1>0, <2>3, <3>1, StateFields DEF ClientTypes
        <4> QED
          BY <1>0, <3>1, <4>1, SentType
      <3>2. CASE UNCHANGED own /\ (Sent(c, k, told[c][k]) \/ UNCHANGED inbox)
        BY <1>0, <2>3, <3>2, SentType DEF ClientTypes
      <3> QED
        BY <1>11, <3>1, <3>2 DEF Receive
    <2>5. ClientTypes'
      BY <1>0, <2>1, <2>4 DEF ClientTypes
    <2> QED
      BY <1>0, <2>1, <2>2, <2>5, Parts
  <1>12. ASSUME NEW c \in Conns, Disconnect(c) PROVE IInv'
    <2>1. UNCHANGED <<states, connections, client_ids, told, unread, published, foreign, silent,
                      uninformed>>
      BY <1>12 DEF Disconnect, actor, redis, history
    <2>2. ActorTypes' /\ Presence'
      BY <1>0, <2>1, ActorUntouched DEF ActorTypes
    <2>3. ClientTypes' /\ \A d \in Conns : link'[d] = "new" => link[d] = "new"
      BY <1>0, <1>12 DEF Disconnect, ClientTypes
    <2> QED
      BY <1>0, <2>1, <2>2, <2>3, Parts
  <1>13. CASE UNCHANGED vars
    <2>1. UNCHANGED <<states, connections, client_ids, told, unread, published, foreign, silent,
                      uninformed, inbox, link, own, events>>
      BY <1>13 DEF vars, actor, client, redis, history
    <2>2. ActorTypes' /\ Presence'
      BY <1>0, <2>1, ActorUntouched DEF ActorTypes
    <2>3. ClientTypes'
      BY <1>0, <2>1 DEF ClientTypes
    <2> QED
      BY <1>0, <2>1, <2>2, <2>3, Parts
  <1> QED
    BY <1>1, <1>2, <1>4, <1>5, <1>6, <1>7, <1>8, <1>9, <1>10, <1>11, <1>12, <1>13
       DEF Next, Handle

-----------------------------------------------------------------------------
(* The theorems. *)

\* The inductive invariant holds in every reachable state.
THEOREM AwarenessInvariant == Spec => []IInv
  BY InitIInv, NextIInv, PTL DEF Spec

\* Every variable of the actor and of the clients keeps its type; connections that
\* are not registered are credited with nothing.
THEOREM AwarenessTypes == Spec => []TypeOK
  <1>1. IInv => TypeOK
    BY DEF IInv
  <1> QED
    BY <1>1, AwarenessInvariant, PTL

\* handle_awareness, remove_connection and evict_lagging: a live state that did not
\* come from Redis is credited to a registered connection.
THEOREM PresenceAnswered == Spec => []NoGhost
  <1>1. IInv => NoGhost
    BY DEF IInv
  <1> QED
    BY <1>1, AwarenessInvariant, PTL

\* broadcast_awareness and the snapshot of add_connection: every registered
\* connection has been told the actor's view of every id, but for silent removals and
\* lost snapshots.
THEOREM EveryoneTold == Spec => []SeenByAll
  <1>1. IInv => SeenByAll
    BY DEF IInv
  <1> QED
    BY <1>1, AwarenessInvariant, PTL

\* on_awareness_update: what is live here and did not come from Redis was published.
THEOREM PeersTold == Spec => []LivePublished
  <1>1. IInv => LivePublished
    BY DEF IInv
  <1> QED
    BY <1>1, AwarenessInvariant, PTL
=============================================================================
