---------------------------- MODULE RedisScaling ----------------------------
(***************************************************************************)
(* One document on several nodes joined by a Redis channel                 *)
(* (extensions/redis.rs, handle_external_frame and handle_external_sync of *)
(* document.rs) over one shared storage.                                   *)
(*                                                                         *)
(* A node publishes its own changes once, without waiting, and never what  *)
(* a peer sent it.  A node that loads the document asks its peers with a   *)
(* SyncStep1; a peer answers on the channel, and what arrives for a        *)
(* document that is not registered is dropped.  A store is guarded by a    *)
(* lock that expires.                                                      *)
(*                                                                         *)
(* A document is the set of its edits, a state vector the set of edits it  *)
(* covers.  A frame published is one copy per peer, delivered in any order *)
(* (a copy in an actor's mailbox still counts as on the wire).  The node   *)
(* runs with unload_immediately, the default; loads succeed and no hook    *)
(* aborts an unload, both being DocumentStore's subject.                   *)
(***************************************************************************)
EXTENDS Naturals, FiniteSets

CONSTANTS
    Nodes,          \* the nodes, each with its identifier
    Edits,          \* the edits that clients of any node can make
    MaxLoads,       \* bound on the loads, of all nodes together
    Unreliable,     \* may frames, and Redis' answers about the lock, get lost?
    StoreMayFail,   \* may the database hook fail?
    None

ASSUME ScalingAssumption ==
    /\ MaxLoads \in Nat
    /\ Unreliable \in BOOLEAN /\ StoreMayFail \in BOOLEAN
    /\ None \notin Nodes

VARIABLES
    phase,          \* the document on each node
    doc,            \* its edits there
    dirty,          \* has the node edits to store?
    store,          \* where the node's store is
    snapshot,       \* the edits that store carries
    stored,         \* the edits in the storage that all nodes share
    lock,           \* the node whose token the Redis lock holds, or None
    channel,        \* the frames on the wire, one copy per receiver
    loads,          \* how often a node has loaded the document
    made,           \* history: the edits that were made
    answered,       \* history: the peers that answered the SyncStep1 of a node's load
    gap,            \* history: the edits a node may have missed since its load began
    saved,          \* history: what storage held when a node last fetched or wrote it
    overrun         \* history: nodes whose lock expired while they were storing

storage == <<store, snapshot, stored, lock, overrun>>
since == <<answered, gap, saved>>
vars == <<phase, doc, dirty, storage, channel, loads, made, since>>

Phases == {"absent", "loading", "resident", "leaving"}
StoreSteps == {"idle", "locking", "writing", "written"}
FrameKinds == {"update", "step1", "step2"}
Frames == [from : Nodes, to : Nodes, kind : FrameKinds, edits : SUBSET Edits]

Here(n) == phase[n] # "absent"

\* The edits on their way to n.
OnWire(n) == UNION {f.edits : f \in {g \in channel : g.to = n /\ g.kind # "step1"}}

-----------------------------------------------------------------------------
(* The channel. *)

\* publish: a copy for every subscriber but the node itself, which knows its
\* identifier in the prefix of the message.
Published(n, kind, es) ==
    {[from |-> n, to |-> p, kind |-> kind, edits |-> es] : p \in Nodes \ {n}}

\* Mutants of OnChange: what came from Redis is published again; only that is.
OnChangeEchoes(n, origin, es) == Published(n, "update", es)
OnChangeInverted(n, origin, es) ==
    IF origin = "redis" THEN Published(n, "update", es) ELSE {}

\* on_change: a change that came from Redis is not published again.
OnChange(n, origin, es) == IF origin = "redis" THEN {} ELSE Published(n, "update", es)

\* Mutant of Apply: the store under way is taken to carry the update too.
ApplyTrustsStore(n, origin, es, wire) ==
    /\ doc' = [doc EXCEPT ![n] = @ \cup es]
    /\ dirty' = [dirty EXCEPT ![n] = store[n] = "idle"]
    /\ channel' = wire \cup OnChange(n, origin, es)

\* An update is applied, the document is dirty and the on_change hooks run.
Apply(n, origin, es, wire) ==
    /\ doc' = [doc EXCEPT ![n] = @ \cup es]
    /\ dirty' = [dirty EXCEPT ![n] = TRUE]
    /\ channel' = wire \cup OnChange(n, origin, es)

\* An edit of a client of n, or of direct_apply there.
Edit(n, e) ==
    /\ phase[n] = "resident" /\ e \notin made
    /\ made' = made \cup {e}
    /\ Apply(n, "local", {e}, channel)
    /\ UNCHANGED <<phase, storage, loads, since>>

\* A peer's Update or SyncStep2 reaches the actor.
ApplyFrame(f) ==
    /\ f \in channel /\ f.kind # "step1"
    /\ phase[f.to] = "resident"
    /\ Apply(f.to, "redis", f.edits, channel \ {f})
    /\ UNCHANGED <<phase, storage, loads, made, since>>

\* A peer's SyncStep1 reaches the actor: the SyncStep2 goes to the whole channel,
\* and the actor does not ask back.
AnswerFrame(f) ==
    /\ f \in channel /\ f.kind = "step1"
    /\ phase[f.to] = "resident"
    /\ channel' = (channel \ {f}) \cup Published(f.to, "step2", doc[f.to] \ f.edits)
    /\ answered' = IF Here(f.from) /\ f.edits \subseteq doc[f.from]
                   THEN [answered EXCEPT ![f.from] = @ \cup {f.to}] ELSE answered
    /\ UNCHANGED <<phase, doc, dirty, storage, loads, made, gap, saved>>

\* The copy of a frame that f.to will not get.
Missed(f) ==
    /\ channel' = channel \ {f}
    /\ gap' = IF Here(f.to) /\ f.kind # "step1" THEN [gap EXCEPT ![f.to] = @ \cup f.edits]
              ELSE gap
    /\ UNCHANGED <<phase, doc, dirty, storage, loads, made, answered, saved>>

\* The subscriber finds no registered document.
DropFrame(f) ==
    /\ f \in channel
    /\ phase[f.to] \in {"absent", "loading"}
    /\ Missed(f)

\* The publication fails, or the subscriber's connection was down.
LoseFrame(f) == Unreliable /\ f \in channel /\ Missed(f)

-----------------------------------------------------------------------------
(* Loading and unloading. *)

\* spawn: the document is fetched, then after_load_document asks the peers.  The
\* document is not registered yet.  (gap: a frame sent before this load may still
\* reach the others.)
Load(n) ==
    /\ phase[n] = "absent" /\ loads < MaxLoads
    /\ phase' = [phase EXCEPT ![n] = "loading"]
    /\ doc' = [doc EXCEPT ![n] = stored]
    /\ saved' = [saved EXCEPT ![n] = stored]
    /\ loads' = loads + 1
    /\ gap' = [gap EXCEPT ![n] = UNION {OnWire(p) : p \in Nodes}]
    /\ channel' = channel \cup Published(n, "step1", stored)
    /\ UNCHANGED <<dirty, storage, made, answered>>

\* documents.insert.
Register(n) ==
    /\ phase[n] = "loading"
    /\ phase' = [phase EXCEPT ![n] = "resident"]
    /\ UNCHANGED <<doc, dirty, storage, channel, loads, made, since>>

\* The document leaves the memory of n, with whatever it has not stored.  A peer
\* it has not answered will not learn from it what it had.
Gone(n) ==
    /\ phase' = [phase EXCEPT ![n] = "absent"]
    /\ doc' = [doc EXCEPT ![n] = {}]
    /\ dirty' = [dirty EXCEPT ![n] = FALSE]
    /\ saved' = [saved EXCEPT ![n] = {}]
    /\ answered' = [p \in Nodes |-> IF p = n THEN {} ELSE answered[p] \ {n}]
    /\ gap' = [p \in Nodes |-> IF p # n /\ Here(p) /\ n \notin answered[p]
                                 THEN gap[p] \cup doc[n] ELSE IF p = n THEN {} ELSE gap[p]]

\* Mutant of Unload: a store under way is not waited for.
UnloadWhileStoring(n) ==
    /\ phase[n] = "resident" /\ ~dirty[n]
    /\ Gone(n)
    /\ UNCHANGED <<storage, channel, loads, made>>

\* maybe_unload with nothing to store and no store under way.
Unload(n) ==
    /\ phase[n] = "resident" /\ store[n] = "idle" /\ ~dirty[n]
    /\ Gone(n)
    /\ UNCHANGED <<storage, channel, loads, made>>

\* maybe_unload with something to store: the actor stores inline, handling no
\* frame until that has ended.
UnloadStore(n) ==
    /\ phase[n] = "resident" /\ store[n] = "idle" /\ dirty[n]
    /\ phase' = [phase EXCEPT ![n] = "leaving"]
    /\ store' = [store EXCEPT ![n] = "locking"]
    /\ snapshot' = [snapshot EXCEPT ![n] = doc[n]]
    /\ UNCHANGED <<doc, dirty, stored, lock, overrun, channel, loads, made, since>>

\* The process dies and restarts; the lock, if it had one, stays in Redis.
Crash(n) ==
    /\ Here(n)
    /\ Gone(n)
    /\ store' = [store EXCEPT ![n] = "idle"]
    /\ snapshot' = [snapshot EXCEPT ![n] = {}]
    /\ overrun' = overrun \ {n}
    /\ UNCHANGED <<stored, lock, channel, loads, made>>

-----------------------------------------------------------------------------
(* Storing. *)

\* spawn_store: the snapshot is taken before the lock is asked for.
SpawnStore(n) ==
    /\ phase[n] = "resident" /\ store[n] = "idle" /\ dirty[n]
    /\ store' = [store EXCEPT ![n] = "locking"]
    /\ snapshot' = [snapshot EXCEPT ![n] = doc[n]]
    /\ dirty' = [dirty EXCEPT ![n] = FALSE]
    /\ UNCHANGED <<phase, doc, stored, lock, overrun, channel, loads, made, since>>

\* on_store_document: SET NX PX.
Acquire(n) ==
    /\ store[n] = "locking" /\ lock = None
    /\ lock' = n
    /\ store' = [store EXCEPT ![n] = "writing"]
    /\ UNCHANGED <<phase, doc, dirty, snapshot, stored, overrun, channel, loads, made, since>>

\* Database::on_store_document.
Write(n) ==
    /\ store[n] = "writing"
    /\ stored' = snapshot[n]
    /\ saved' = [saved EXCEPT ![n] = snapshot[n]]
    /\ store' = [store EXCEPT ![n] = "written"]
    /\ UNCHANGED <<phase, doc, dirty, snapshot, lock, overrun, channel, loads, made,
                   answered, gap>>

\* Mutant of StoreOver: a store that failed or was refused is taken for one that
\* went well.
StoreOverAsIfOk(n, ok) ==
    /\ store' = [store EXCEPT ![n] = "idle"]
    /\ snapshot' = [snapshot EXCEPT ![n] = {}]
    /\ overrun' = overrun \ {n}
    /\ IF phase[n] = "leaving" THEN Gone(n) ELSE UNCHANGED <<phase, doc, dirty, since>>
    /\ UNCHANGED <<stored, channel, loads, made>>

\* The store is over: an actor that was unloading goes, whatever the outcome;
\* one that runs is dirty again if the store failed.
StoreOver(n, ok) ==
    /\ store' = [store EXCEPT ![n] = "idle"]
    /\ snapshot' = [snapshot EXCEPT ![n] = {}]
    /\ overrun' = overrun \ {n}
    /\ IF phase[n] = "leaving" THEN Gone(n)
       ELSE /\ dirty' = [dirty EXCEPT ![n] = @ \/ ~ok]
            /\ UNCHANGED <<phase, doc, since>>
    /\ UNCHANGED <<stored, channel, loads, made>>

\* Another token is there, or Redis' answer is lost, perhaps after it has set ours.
Refused(n) ==
    /\ store[n] = "locking"
    /\ \/ lock # None /\ lock' = lock
       \/ Unreliable /\ lock = None /\ lock' \in {None, n}
    /\ StoreOver(n, FALSE)

\* The database hook fails, having written or not: after_store_document is not
\* called and the lock stays until it expires.
StoreFails(n) ==
    /\ StoreMayFail /\ store[n] \in {"writing", "written"}
    /\ StoreOver(n, FALSE)
    /\ UNCHANGED lock

\* Mutant of Release: the lock is deleted whoever holds it.
ReleaseAny(n) == lock' = None

\* after_store_document: compare and delete.
Release(n) == lock' = IF lock = n THEN None ELSE lock

\* The store ends well; an error of the release is ignored.
FinishStore(n) ==
    /\ store[n] = "written"
    /\ Release(n) \/ (Unreliable /\ UNCHANGED lock)
    /\ StoreOver(n, TRUE)

\* The lock's time to live is over.
Expire ==
    /\ lock # None
    /\ lock' = None
    /\ overrun' = IF store[lock] \in {"writing", "written"} THEN overrun \cup {lock}
                  ELSE overrun
    /\ UNCHANGED <<phase, doc, dirty, store, snapshot, stored, channel, loads, made, since>>

-----------------------------------------------------------------------------

Init ==
    /\ phase = [n \in Nodes |-> "absent"]
    /\ doc = [n \in Nodes |-> {}]
    /\ dirty = [n \in Nodes |-> FALSE]
    /\ store = [n \in Nodes |-> "idle"]
    /\ snapshot = [n \in Nodes |-> {}]
    /\ stored = {} /\ lock = None /\ overrun = {}
    /\ channel = {} /\ made = {}
    /\ loads = 0
    /\ answered = [n \in Nodes |-> {}]
    /\ gap = [n \in Nodes |-> {}]
    /\ saved = [n \in Nodes |-> {}]

FrameStep(f) == ApplyFrame(f) \/ AnswerFrame(f) \/ DropFrame(f)

StoreStep(n) ==
    Acquire(n) \/ Refused(n) \/ Write(n) \/ StoreFails(n) \/ FinishStore(n)

Next ==
    \/ \E f \in channel : FrameStep(f) \/ LoseFrame(f)
    \/ \E n \in Nodes, e \in Edits : Edit(n, e)
    \/ \E n \in Nodes :
          \/ Load(n) \/ Register(n) \/ Unload(n) \/ UnloadStore(n) \/ Crash(n)
          \/ SpawnStore(n) \/ StoreStep(n)
    \/ Expire

Spec == Init /\ [][Next]_vars

\* Redis and the subscriber deliver; a load that was begun and a store that was
\* begun go on.
FairSpec ==
    /\ Spec
    /\ WF_vars(\E f \in channel : FrameStep(f))
    /\ \A n \in Nodes : WF_vars(Register(n)) /\ WF_vars(StoreStep(n))

-----------------------------------------------------------------------------
(* Properties. *)

\* Every variable keeps its type; a node that is absent stores nothing.
TypeOK ==
    /\ phase \in [Nodes -> Phases]
    /\ doc \in [Nodes -> SUBSET Edits]
    /\ dirty \in [Nodes -> BOOLEAN]
    /\ store \in [Nodes -> StoreSteps]
    /\ snapshot \in [Nodes -> SUBSET Edits]
    /\ stored \subseteq Edits /\ made \subseteq Edits
    /\ lock \in Nodes \cup {None}
    /\ channel \subseteq Frames
    /\ loads \in 0..MaxLoads
    /\ answered \in [Nodes -> SUBSET Nodes]
    /\ gap \in [Nodes -> SUBSET Edits] /\ saved \in [Nodes -> SUBSET Edits]
    /\ overrun \subseteq Nodes
    /\ \A n \in Nodes : phase[n] \in {"absent", "loading"} => store[n] = "idle"

\* Once a peer has answered the SyncStep1 of a node's load, the node has all the
\* peer has, or has it on the wire, although a node never passes on what it got
\* from Redis.  The exceptions are the edits that were on the wire when the load
\* began, came before the document was registered, or were lost.
Converges ==
    \A n, p \in Nodes :
        Here(n) /\ Here(p) /\ p \in answered[n] =>
            doc[p] \subseteq doc[n] \cup OnWire(n) \cup gap[n]

\* What node n may still learn from peers that have not answered it.
Unanswered(n) ==
    UNION {doc[p] : p \in {q \in Nodes \ {n} : Here(q) /\ q \notin answered[n]}}

\* What a store can take back.  It writes a snapshot that was taken before the lock
\* was asked for, over whatever the peers have stored meanwhile.  An edit in storage
\* that the snapshot lacks is one that its node has learnt since, and then the actor
\* runs on and is dirty: the next store brings the edit back, which until then is in
\* memory only.  Or the node lacks it still: the edit is on the wire to it, was
\* missed by it, or is with a peer that has not answered it.
StoreTakesBack ==
    \A n \in Nodes : store[n] \in {"locking", "writing"} =>
        stored \subseteq snapshot[n] \cup OnWire(n) \cup gap[n] \cup Unanswered(n)
                       \cup (IF phase[n] = "resident" /\ dirty[n] THEN doc[n] ELSE {})

\* "The document stays dirty and is retried", and "edits that land mid-store re-dirty
\* for the next tick": while a node is not dirty, every edit it has was in storage
\* when the node last fetched or wrote it, or is in the store under way.  A refused
\* lock, a failing hook and a frame that arrives during a store are never forgotten.
UnsavedIsRetried ==
    \A n \in Nodes : Here(n) /\ ~dirty[n] =>
        doc[n] \subseteq saved[n]
                   \cup (IF store[n] \in {"locking", "writing"} THEN snapshot[n] ELSE {})

\* "Persistence is guarded by a Redis lock so two nodes never write the same
\* document concurrently": two nodes are between taking the lock and giving it
\* back only when the lock of one of them expired under it.  A node that was late
\* does not take the lock from the next one.
ExclusiveUnlessOverrun ==
    \A n, p \in Nodes :
        n # p /\ {store[n], store[p]} \subseteq {"writing", "written"} =>
            {n, p} \cap overrun # {}

\* "Already replicated by the originating node": frames do not beget frames for
\* ever.  When edits and loads stop the channel falls silent.
Quiet == <>[](channel = {})

\* "An edit made on node A must propagate to a client connected to node B": when
\* nothing is on the wire and no node is loading, the nodes that have the document
\* have the same edits.
InSyncWhenQuiet ==
    channel = {} /\ (\A n \in Nodes : phase[n] # "loading") =>
        \A n, p \in Nodes : Here(n) /\ Here(p) => doc[n] = doc[p]
=============================================================================
