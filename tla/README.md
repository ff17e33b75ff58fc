# TLA+ models of hocuspocus-rs

Models, model-checking runs and proofs for the collaboration server in
`src/crates/hocuspocus`. Source lines below are relative to
`src/crates/hocuspocus/src/`. `PROJECT.json` maps every definition to the lines
it models.

## 1. The system

A node serves many documents. A client opens a WebSocket, authenticates for one
or more documents, and exchanges Yjs sync frames. Each resident document is owned
by one Tokio task, its *actor*; everything else reaches the document through the
actor's mailbox.

| component | state | operations | talks to |
|---|---|---|---|
| Registry (`server.rs` 55-100) | `documents`, `creating` | `document`, `direct_apply` | sockets, actors, Redis subscriber |
| Document actor, persistence (`document.rs` 147-260, 750-880) | `dirty`, two debounce instants, `storing`, store results | load, mark dirty, timer, spawned and inline store, unload | extensions, storage, registry |
| Document actor, sync (`document.rs` 262-539, 594-623, 676-744) | the yrs document, `connections`, `broadcast_base` | join, leave, SyncStep1/2, Update, peer and direct updates, merged broadcast, eviction | sockets' outbound queues |
| Awareness (`document.rs` 540-623) | presence states, client ids per connection | update, query, removal | sockets, Redis |
| Client socket (`server.rs` 296-640) | `established`, the pre-authentication queue, deadline, writer task | authenticate, enqueue, register, route, terminate, cleanup | registry, actors |
| Redis scaling (`extensions/redis.rs`) | lock tokens, publisher, subscriber | publish changes, ask peers on load, store lock | actors of other nodes |
| Storage (`extensions/database.rs`, `sqlite.rs`) | one state per document | fetch, store | hooks of the actor |
| Throttle (`extensions/throttle.rs`) | attempts and bans per address | `should_block` | `on_connect` |
| Protocol, origin (`protocol.rs`, `origin.rs`) | none | parse, build, convert | all |
| Webhook, logger, configuration, builder | none that others read | | |

What is hard, and what correctness means:

- *Persistence.* Snapshots are stored off the actor while edits go on; stores
  fail; the last disconnect, the timer and a store's result all decide about
  unloading. Right means: no edit is forgotten, writes do not overlap, what is
  loaded is what was stored, edits are stored within the hard bound, and idle
  documents leave memory.
- *Registry.* Callers on several threads find, spawn and lose actors that unload
  at the same time. Right means: one actor per document, an acknowledged
  registration is served, every call returns, nothing leaks.
- *Sync.* Batches merge broadcasts, queues are bounded and frames are dropped,
  never waited for. Right means: a synced client misses nothing until it is told
  to reconnect, and what a client wrote is not stranded with it.
- *Sockets.* One read loop serves several documents, each authenticated on its
  own, with frames queued before that, limits, and a deadline that is fixed at
  first and slides later. Right means: frames arrive in order, once, and only
  where admitted; no registration outlives its socket; idle sockets end.
- *Awareness.* Client ids are credited to whichever connection sends them, a
  reconnecting client has two connections for a while, and an eviction removes
  states in the middle of a broadcast. Right means: nobody is shown who is not
  there, everybody is shown who is, and all connections see the same.
- *Redis.* Nodes exchange updates over a channel that loses and reorders, join
  while others edit, and share one storage under a lock that expires. Right means:
  nodes fall behind only by what was lost, what a store takes back of the storage
  is stored again or was unknown to its node, nothing unsaved is forgotten, and the
  channel falls silent.
- *Admission.* Handshakes overlap, and windows and bans meet at their edges. Right
  means: the cap and the rate hold, within what the order of check and count
  allows, and a served ban is over.

`PROJECT.json` lists the hazards one by one, with the line where each bites and the
properties that cover it.

## 2. Modules

| module | models |
|---|---|
| `DurableDocument` | what persistence promises: memory, storage, residences (abstract) |
| `DocumentStore` | load, debounce, stores, unload, crash of one document |
| `Registry` | lookup, creation, registration, `direct_apply`, the end of actors |
| `Fanout` | mailbox batches, sync replies, merged broadcast, queues, eviction |
| `ClientSocket` | one socket: authentication, queue and limits, deadline, writer, end |
| `RedisScaling` | several nodes, the Redis channel, the shared storage and the store lock |
| `Awareness` | presence states of one document, who answers for them, who is told |
| `Admission` | the cap on open sockets, the throttle of an address |
| `MC*` | the TLC instances |
| `DocumentStoreProofs`, `RegistryProofs`, `FanoutProofs`, `ClientSocketProofs`, `RedisScalingProofs`, `AwarenessProofs`, `AdmissionProofs` | the theorems about each component |
| `DataInduction` | induction and sums, for the proofs about `ClientSocket` and `Admission` |

Common abstraction: a document is the *set of its edits*, because Yjs updates
commute and are idempotent; a state vector is the set of the edits it covers.
yrs' `encode_update_v1` never yields an empty buffer, so an update that brings
nothing new is stored and broadcast like any other, and the models do the same.
What this view leaves out is that yrs keeps an update whose predecessors are
missing as pending: the models count its edits as in the document at once.

### DocumentStore

Variables carry the fields' names. `phase` is the await the actor is at:
`running` (the `select!` of `run`), `timer_store` (the inline store of the timer
branch), `unload_store` (the one of `maybe_unload`), `before_unload` (its hooks),
`unloaded`. Between two awaits nothing else can touch the actor, so each stretch
is one action: `Load`, `AddConnection`, `DropConnection` (eviction and
`close_connection`), `RemoveConnection` (with its `maybe_unload`), `ApplyUpdate`,
`TimerFires`, `FinishInlineStore`, `BeforeUnload`, `StoreResult`; `TaskWrite` and
`TaskReport` are the spawned store, `Tick` is time, `Crash` a process restart.
`MaybeUnload` is the decision of `maybe_unload` up to its next await.

A store hook chain answers ok, or fails before or after the database wrote. A
failed load leaves an empty document. `faults` records, for the abstract
specification only, what went wrong in a residence.

### Registry

Each caller (a socket registering, or a `direct_apply`) has a program counter and
every access to one of the two maps is a step of its own, since the runtime is
multi-threaded. The lock in `creating` is an object of its own: a caller that
fetched it keeps it when the entry is removed. An actor is `running`,
`before_unload`, `left` (out of the registry, still with a mailbox) or `dead`;
`Die` drops the mailbox and with it the acks. Of persistence the module has what
decides the end of an actor: the `dirty` and `storing` flags, spawned stores that
report later (`Timer`, `StoreResult`), and inline stores that succeed or fail
(`RunStore`), after which `maybe_unload` goes on either way. An inline store shares
the step that leads to the `before_unload` hooks, since the actor handles nothing
during either. The node runs with `unload_immediately`, the default. The update of
a `direct_apply` is applied, or it does not decode or apply (`rejected`): then the
document is not dirty, and the call is acknowledged like any other. `sent`, `failed`
and the other history variables say which actor got an update and how its last
inline store ended. Sockets register once. `document` failing (no `spawn` in the code returns an
error) and tasks cancelled in mid-registration are left out.

### Fanout

The mailbox is drained into a batch of at most `MaxBatch` commands; each command
is one action, then one `Flush` and the evictions. `Pushed` is `try_send` on the
bounded queue. The client is modelled from the protocol: SyncStep1 once joined,
SyncStep2 in answer to the server's SyncStep1, one Update per edit. A connection
id is never reused in the code; here a client rejoins only when the remains of
its previous connection are gone, so that its name can stand for the id. The
actor stays resident (unloading is the subject of `DocumentStore` and `Registry`).
Awareness has its module. Left out: stateless messages, which change no state, and
undecodable updates.

### ClientSocket

`reader` is where the read loop is: `reading` (its `select!`), `hooks` (the
`on_connect` and `on_authenticate` hooks of `authenticate`), `registering` and
`acked` (before and after the actor's answer to AddConnection), `closing` (the
loop is left, the writer not yet aborted), `done`. `Data` is `handle_frame` for a
frame of a document with its `enqueue`, `Establish` the rest of `authenticate`
with the drained queue, `Finish` is `cleanup` and `writer.abort`. The writer
(`Write`) and the actors (`AddConnection`, `Broadcast`, `Evict`,
`CloseConnection`, `RemoveConnection`) move at any time. Frames are numbered per
key so that order, loss and duplication show; a frame has a size, for the byte
limit. The connection cap is in `Admission`.

### RedisScaling

Per node the document is `absent`, `loading` (fetched, SyncStep1 published, not
yet in the registry: the stretch between `after_load_document` and `server.rs:73`),
`resident`, or `leaving` (inside the inline store of an unload, during which the
actor handles nothing). `Published` puts one copy per peer on the wire; copies are
delivered in any order (`ApplyFrame`, `AnswerFrame`), dropped by a subscriber that
finds no handle (`DropFrame`) or lost (`LoseFrame`). A frame in an actor's mailbox
still counts as on the wire. A store takes its snapshot, asks for the lock
(`Acquire`, `Refused`), writes, and gives the lock back if it is still its own
(`Release`); a failure in between leaves the lock to `Expire`. `Refused` includes
the answer that is lost after Redis has set the token. `Crash` may come at any
point. `answered`, `gap`, `saved` and `overrun` are history: who answered a node's
SyncStep1, what a node may have missed since its load, what storage held when the
node last fetched or wrote it, whose lock ran out. Loads
succeed here and no hook aborts an unload, both being `DocumentStore`'s subject;
each node has one actor, its multiplication being `Registry`'s.

### Awareness

A presence state is a clock and whether it is live, as in yrs and y-protocols.
`client_ids` is the field of `ConnHandle`. Queues are reduced to `told`, the
newest state per id that went into a connection's queue, and `unread`; any
broadcast may find any queue full (`lag`), since document updates share it.
Evictions happen inside awareness broadcasts only; those that a document or
stateless broadcast causes remove states in the same silent way (`silent`) and are
left out.
`HandleAwareness` is the whole of `handle_awareness`: apply, credit, broadcast
with its evictions, hooks. `RemoveConnection` unloads when no connection is left;
`CloseConnection`, which a client asks for, does not. Peers are an environment
that publishes states of its own clients and returns what it was sent of ours.
Clients follow y-protocols: they announce themselves on joining and contradict
the removal of their own live state; some repeat what they learn of others.

### Admission

A request is compared with the cap (`Request`), upgraded and counted
(`Upgrade`), and its guard gives the place back (`End`). `OnConnect` is the
throttle's hook. It runs at every authentication, so one socket makes as many
attempts as it opens documents, and a blocked attempt costs that document, not the
socket. Instants are ages, capped where no comparison tells them apart. Addresses
do not affect each other, so one is followed; a socket whose address is empty is
not throttled. `Record` reads the time under the mutex, while `should_block` reads it
just before (`throttle.rs:49`): two calls that race there may record their instants
in the other order, by less than the wait for the mutex.

## 3. Runs

| run | checks | distinct states | result |
|---|---|---|---|
| `store` | `TypeOK`, `UnsavedIsScheduled`, `StoreExclusive`, `WarmUnloadSaves`, `ImplementsDurable`, `SaveProgress`, `IdleReachesUnload` | 12 788 | hold |
| `registry` | `TypeOK`, `RegistryNeverStale`, `EstablishedIsServed`, `SpawnOnce`, `OkUnlessUnloaded`, `UnsavedEndHasCause`, `EveryCallReturns`, `Reclaimed` | 263 595 | hold |
| `fanout` | `TypeOK`, `NothingMissed`, `NothingStranded` | 842 494 | hold |
| `socket` | `TypeOK`, `QueueAccounted`, `DeliveredInOrder`, `NothingBeforeAdmission`, `RegistrationOwned`, `UnauthenticatedEnds`, `SilentEnds` | 272 883 | hold |
| `redis` | `TypeOK`, `Converges`, `StoreTakesBack`, `UnsavedIsRetried`, `ExclusiveUnlessOverrun`, `Quiet` | 810 570 | hold |
| `awareness` | `TypeOK`, `NoGhost`, `SeenByAll`, `LivePublished`, `Restored` | 351 286 | hold |
| `admission` | `TypeOK`, `CapOverrun`, `RateLimited`, `Forgiven` | 348 449 | hold |
| `eager_unload` | `UnloadKeepsEdits` | | violated |
| `split_brain` | `SingleActor` | | violated |
| `evicted_socket` | `EvictedEnds` | | violated |
| `late_joiner` | `InSyncWhenQuiet` | | violated |
| `ghost_presence` | `ChangesPublished` | | violated |

Every property of the runs that pass has a mutant: a plausible slip in one mapped
definition (it stands beside the definition in the module) under which TLC finds
the property violated.

**Persistence.** In both unload modes and with failing loads and stores, an edit
that storage lacks is always dirty, carried by a running store, or about to be
re-armed; two writes never overlap; edits reach storage, and idle documents get
as far as unloading. The abstract promise holds for every residence without a
fault. There are two ways to be faulty other than a crash: an eager unload after a
failed store (`eager_unload`: `maybe_unload` does not look at `dirty` again after
`run_store`) and a failed load, whose empty document the next store writes over
the persisted one (a fault of `DurableDocument`; `SqliteStorage::fetch` even turns
a read error into "no such document"). In the warm mode no store failure
loses an edit.

**Registry.** An acknowledged registration is served whatever interleaves, every
call returns, and every actor ends, also one whose last disconnect met a store under
way, unless nothing asks it to unload again (`Reclaimed`): a hook aborted its unload,
or all it ever got was a `direct_apply` that did not apply, after which it is clean
and no timer runs. As long as
nothing has been removed, the creating lock loads once. What does not hold:
there can be two actors at once (`split_brain`). Every way there goes through an
unload: two callers hold different creating locks and both look after the first
actor has left, or a registration that lost its actor removes the entry of the
next one and spawns another. The removal
"of a stale entry" never removes a stale one (`RegistryNeverStale`: the actor
removes itself first), only ever a live one, which can then lose its last handle
and end without storing. `UnsavedEndHasCause` says that an actor ends with unsaved
edits, or with a store under way, for one of two reasons: the store of its unload
failed (the case of `eager_unload`), or it lost its entry to another task. A
`direct_apply` queued behind the unload returns `Ok` without having been applied,
because its error is ignored (`server.rs:97`), and one whose update does not decode
returns `Ok` too. `OkUnlessUnloaded` says that these are the only cases: the actor
the update was sent to has applied it, has rejected it, or has itself ended with the
update in its mailbox, whatever happened to other actors.

**Fan-out.** A connection whose SyncStep2 was queued misses no edit until a
broadcast finds it lagging, through merged batches, joins in the middle of one
and full queues; and a writer that answered the server's SyncStep1 strands
nothing. A SyncStep2 that meets a full queue is dropped without eviction, however:
the result of `send_frame` is ignored (`document.rs:402`), and such a connection,
not being in `answered`, is outside what `NothingMissed` promises.

**Socket.** A document gets exactly the frames that were sent for it and not
refused, in order, whenever they came relative to its authentication; the
counters of the limits stay exact; no frame reaches a document that did not
admit the client; no registration is left behind; a socket that never
authenticates ends even under a flood, and a silent one ends. But the Close of an
evicted connection is dropped by the same full queue, and a client that goes on
pinging is then never closed (`evicted_socket`).

**Redis.** A node that loads gets from each peer that answers it all that the peer
has, and from then on everything the peer learns, except what was lost on the way,
was under way when the load began, or came before the registration (`Converges`),
although no node passes on what it received. A store replaces the storage as a
whole, by a snapshot taken before the lock was asked for. `StoreTakesBack` says what
that can undo. An edit that is stored and not in the snapshot may have reached the
storing node since: say n takes its snapshot, a peer stores e and unloads, n applies
e and then writes the snapshot without it. Then n runs on and is dirty, and its next
store brings e back; until then e is in the memory of n only, and a crash of n loses
it. Otherwise the node does not have the edit: it is still on the wire to it, was
missed by it, or is with a peer that did not answer it. `UnsavedIsRetried` is what
makes the next store happen: a node that is not dirty has no edit that was not in
storage when it last fetched or wrote it, or that its store under way does not carry,
through refused locks, lost answers, failing hooks and frames that arrive in
mid-store. The
header's "two nodes never write the same document concurrently" holds except
when the lock expires under its holder (`ExclusiveUnlessOverrun`); the late holder
does not take the next one's lock away. The channel falls silent by itself
(`Quiet`). What does not hold is that nodes agree once the channel is quiet, even
if it loses nothing: the SyncStep1 of a joining node goes out before the document
is registered, so the answer and edits made meanwhile can find no handle
(`late_joiner`).

**Awareness.** Every live state that did not come from Redis is answered for by a
registered connection (`NoGhost`), registered connections have been told exactly
what the actor knows except for what an eviction removed in silence and except for
a snapshot that met a full queue (`SeenByAll`), and a client whose state is removed
with another connection gets it back (`Restored`). Live states are published to
the peers, but removals are not: a client that leaves goes on being shown by
other nodes (`ghost_presence`).

**Admission.** The cap can be exceeded, by at most the number of handshakes that
were under way together less one (`CapOverrun`); no window lets more attempts
through than configured, whatever bans start and expire inside it
(`RateLimited`); and a ban at least as long as the window is over when it is over
(`Forgiven`).

## 4. Bounds

- `store`: two edits (one in the snapshot, one arriving while it is stored), two
  connections (the last and one that joins or leaves in between), debounce 1 and
  max_debounce 2 ticks, so that either deadline can come first. Ages stop at the
  larger of the two (`Horizon`): no comparison tells greater ages apart. The
  theorems remove all of these bounds.
- `registry`: two sockets with two attempts each and one `direct_apply` make at
  most five calls of `document`. No behaviour spawns more than three actors: with
  `MaxActors = 5` TLC finds the same 263 595 states, so `MaxActors = 3` cuts nothing
  off and makes the temporal properties cheaper. A caller that has returned stays
  returned, so `EveryCallReturns` can ask for one moment at which all have. Every caller
  runs once, hence no deadlock check.
- `fanout`: one writer, one read-only client, one edit of the writer and one of a
  peer; queues and batches of two, so that a queue fills with the two replies to
  one SyncStep1, batches merge and batches are cut.
- `socket`: two documents with two frames each, of size 1 or 2, against limits of
  two messages, three bytes and one or two documents, so that each limit can be the
  one exceeded; an outbound queue of two, which one denial fills; a timeout of two
  ticks. Pings are not counted, so a client can send for ever. A socket ends,
  hence no deadlock check.

- `redis`: two nodes, one edit, three loads in all (each node once, and one of them
  again after an unload or a crash), with losses and failures. One edit is enough,
  since every operation on documents is a union or a difference per edit; another
  one could only make a node dirty again, which an empty SyncStep2 does as well.
  `late_joiner` needs neither losses nor failures, and two loads.
- `awareness`: a client with an old and a new connection, a viewer that repeats
  states, a client of another node; one event (an eviction or a change of
  presence) on top of joining, leaving and closing. Connections are used once.
- `admission`: four requests, one of them without an address, against no cap and
  caps of one and two; a window of three ticks, at most zero, one or two attempts,
  bans of one, three and four ticks. Attempts are not bounded: the window forgets.

Sets are of distinguishable strings and no symmetry is used: the runs with
liveness do not allow it and the others are small.

## 5. Fairness

`store`: time passes; a `select!` branch that stays ready is taken (`select!`
picks at random among the ready ones); a hook that was called returns; storage
does not reject a document for ever (strong fairness of a successful write).
Nothing is assumed about clients: they may edit, join and leave for ever.

`registry`: the runtime schedules every task, tokio's `Mutex` is fair, and a
socket ends some day (the client leaves or the idle deadline passes); a spawned store
reports. `Handle` is strongly fair: `select!` picks at random among the branches that
are ready, so a timer that is due again after every failing store does not keep the
actor from its mailbox for ever. Nothing is assumed of `Abort` and `Drop`, nor of
how stores end.

`socket`: time passes, hooks and registrations return, the client reads what the
writer sends and answers a Close it received; the deadline branch, once ready, is
taken some day although frames keep coming (strong fairness: `select!` picks at
random among ready branches). Nothing is assumed of what else the client sends.

`redis`: Redis and the subscriber deliver some frame again and again; a load that
was begun goes on to register, and a store that was begun ends. Nothing is assumed
about edits, loads, timers and the lock's expiry.

`awareness`: the actor handles the frames it was sent, and some connected client
that has news of itself reads it. Nothing is assumed of leaving, evictions or
queries.

`fanout` and `admission` are checked for safety only.

## 6. Proofs

Every safety property that a passing run checks is also a theorem, for every value
of the constants: any number of clients, nodes, callers, edits, any limits. Each
proof module has an inductive invariant `IInv`, checked by TLC on the run's
instance before it was proved, and the theorem `Spec => []IInv` from `InitIInv`
and `NextIInv`, which goes through the actions one by one; the others follow from
it. The only assumptions are those named in the modules and evaluated by TLC on
every run: numbers are natural numbers, switches are Booleans, `None` is none of
the values it stands beside, and the requests and routing keys in use are finitely
many (a cardinality or a sum is taken over them).

| module | theorems (property) |
|---|---|
| `DocumentStoreProofs` | `TypeCorrect` (`TypeOK`), `StoresExclusive` (`StoreExclusive`), `NothingForgotten` (`UnsavedIsScheduled`), `WarmUnloadsAreSafe` (`WarmUnloadSaves`), `DurabilityRefinement` (`ImplementsDurable`) |
| `RegistryProofs` | `RegistryTypes` (`TypeOK`), `NeverStale` (`RegistryNeverStale`), `RegisteredIsServed` (`EstablishedIsServed`), `LoadedOnce` (`SpawnOnce`), `AppliedUnlessUnloaded` (`OkUnlessUnloaded`), `UnsavedEndExplained` (`UnsavedEndHasCause`) |
| `FanoutProofs` | `FanoutTypes` (`TypeOK`), `ClientsInformed` (`NothingMissed`), `EditsForwarded` (`NothingStranded`) |
| `ClientSocketProofs` | `SocketTypes` (`TypeOK`), `CountersExact` (`QueueAccounted`), `FramesInOrder` (`DeliveredInOrder`), `AdmittedFirst` (`NothingBeforeAdmission`), `NoneLeftBehind` (`RegistrationOwned`) |
| `RedisScalingProofs` | `ScalingTypes` (`TypeOK`), `PeersConverge` (`Converges`), `StoresTakeBack` (`StoreTakesBack`), `UnsavedRetried` (`UnsavedIsRetried`), `WritesExclusive` (`ExclusiveUnlessOverrun`) |
| `AwarenessProofs` | `AwarenessTypes` (`TypeOK`), `PresenceAnswered` (`NoGhost`), `EveryoneTold` (`SeenByAll`), `PeersTold` (`LivePublished`) |
| `AdmissionProofs` | `AdmissionTypes` (`TypeOK`), `OverrunBounded` (`CapOverrun`), `WindowLimited` (`RateLimited`), `BansForgiven` (`Forgiven`) |

None of the invariants is inductive alone. What each needs:

**Persistence.** That nothing is forgotten when a store reports success needs to
know what the store carried: `SnapshotsCurrent` says that a snapshot is the
current document unless an edit has dirtied it since, and that a finished write is
still what storage holds, which in turn needs `StoreExclusive`. `StoreExclusive`
rests on `UnloadingAlone`: inline stores and unloads happen only without
connections and only after `maybe_unload` or the timer saw `storing` clear. The
refinement needs `StorageBehind` (without a fault storage never holds more than
the pending snapshot, so a write never takes an edit back), and the warm-mode
theorem needs `DirtyUnloadIsEager`. `DurableStep` maps each action to a step of
`DurableDocument` or a stutter, with residence as `phase # "unloaded"`.

**Registry.** A caller about to insert is the only one to know its actor, which is
running, clean and without mail (`FreshActor`). A command in a mailbox is that of
a caller awaiting it there, one per caller, or the removal of a closed socket
(`Pending`, `PendingOnce`): so an acknowledged registration cannot be undone by a
command of somebody else. A live actor has its entry, lost it to another task, or
is about to be entered (`Entered`). An unloading one has no store under way and is
clean unless its last inline store failed (`Saved`), which is what `MayUnload`, the
one description of every way into the unload, hands on. The answer a
`direct_apply` gets is that of the actor it has sent its update to, which has handled
the update or has ended (`Answers`).
`SpawnOnce` needs that until something is removed all callers hold the same lock
(`LocksExclusive`, `FirstCreation`).

**Fan-out.** The argument is about `Waiting`, the batch and then the mailbox, as
one sequence: the registration of a client comes before anything else it sends
(`Registering`), a SyncStep1 that waits names only edits its client still has
(`Asking`), queues hold only edits of the document (`FramesKnown`), and a broadcast
is pending exactly for what the batch has added (`Broadcasting`).

**Socket.** Nothing waits for an established document (`Drained`), so a frame
routed directly comes after all that were queued. `Authenticating` ties the
pending key to what was granted. The counters are sums over the queues of all
keys; that a queue's share never exceeds the total, and that it changes by the size
of one frame, comes from `DataInduction`.

**Redis.** `WireKnown` is the heart: what is on its way to one node is known to
every other node that has the document, is on the wire to it too, or is in its
gap; so no answer, publication or load can make one node know what another neither
has nor will get. `StorageKnown` carries this over to storage: what is stored is
within what each node with the document has or can still get. That is about the
document, and a store writes a snapshot; `SnapshotsOfDoc` closes the difference: a
snapshot not yet written is the document unless the actor runs on and is dirty.
`HolderOrOverrun` says who may write.

**Awareness.** Even a connection that missed its snapshot takes nobody for present
who is not (`ToldTrue`), and one that is not registered has been told nothing
(`Untold`).

**Admission.** Open sockets and handshakes together stay within the cap and the
peak less one (`CapReserved`): the request let through last saw a free place. For
every age there are at least as many recorded attempts as attempts let through of
at most that age (`Recorded`), which survives the passing of time where a mere
comparison of lengths would not. While banned, no attempt gets younger than the
ban (`Silent`).

The library's induction theorems take an operator as parameter, which the
installed provers cannot instantiate. `DataInduction` does without: a set of
natural numbers has a least element (from the well-foundedness of `<`), hence
induction for a *set* of numbers, hence existence and values of the recursive
functions that `MapThenSumSet` and `FoldLeft` are defined by. `Bytes` and `Recent`
are folds for this reason.

Only model-checked: liveness (`SaveProgress`, `IdleReachesUnload`,
`EveryCallReturns`, `Reclaimed`, `UnauthenticatedEnds`, `SilentEnds`, `Quiet`,
`Restored`), which is beyond the prover. The runs that expect a violation show
what the proofs cannot: that the stronger claims fail.

## 7. Plan

1. *Done:* the seven components, with their runs; every safety property proved.
2. What the liveness properties rest on, as safety: that the step they wait for
   is enabled in every state where they are pending is out of reach (`ENABLED`),
   but the measures that decrease can be stated and proved as action properties.
3. Bounds that hold by the invariants and that no run states yet, such as that the
   history variables of `RedisScaling` only grow within a residence.

## 8. Not modelled

Webhook and logger (output only), builder, HTTP front and query parsing
(sequential, no protocol state), SQL text and thread hand-over of the backends,
metrics, tests, examples and benches. The wire protocol (`protocol.rs`) is
stateless encoding over yrs' own encoders, and the byte form of an origin
(`origin.rs`) is read back nowhere; both are represented by what they carry.
Stateless messages are passed on and leave no state behind.

Also left out, each with a hazard in `PROJECT.json`: a store hook that panics or
never returns, after which `storing` would stay set (`document.rs:779`); the pace
of retries in warm mode (`document.rs:805`); client updates that do not decode
(`document.rs:424`); a node identifier longer than its length byte
(`redis.rs:64`).

The components are checked separately. Their assumptions about each other are
named in section 2; a composition of `Registry` with `DocumentStore`, in which the
contents of the storage are followed through several actors, is not built: its state space is beyond
what the runs can cover, and what it would add, two actors of a document storing
over each other, has its cause in `split_brain`.
