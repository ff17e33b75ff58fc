---------------------------- MODULE DocumentStore ----------------------------
(***************************************************************************)
(* The life of one document on one node: it is loaded from storage into an *)
(* actor, edited, stored after a debounce, and unloaded when nobody is     *)
(* connected (document.rs: Document::spawn, run, store_deadline,           *)
(* apply_and_broadcast, mark_dirty, spawn_store, run_store, maybe_unload). *)
(*                                                                         *)
(* The actor is one task: a handler runs alone up to its next await on     *)
(* storage or on a hook, and only there can the rest of the system move.   *)
(* Each such stretch is one action, and "phase" says which await the actor *)
(* is at.  A document is the set of the edits it contains: Yjs updates     *)
(* commute and are idempotent.  Instants are kept as ages, which Tick      *)
(* increments up to Horizon, the largest age a deadline can tell apart.    *)
(*                                                                         *)
(* Which actor the registry names is Registry's subject.  Here a document  *)
(* has one actor at a time, and the registry holds its handle until        *)
(* maybe_unload removes the entry: the mailbox never closes under it.      *)
(***************************************************************************)
EXTENDS Naturals

CONSTANTS
    Edits,          \* the updates that can reach the document
    Conns,          \* the connections that can join it
    Debounce,       \* config.debounce, in ticks
    MaxDebounce,    \* config.max_debounce, in ticks
    UnloadModes,    \* the values of config.unload_immediately to consider
    StoreMayFail,   \* may a store hook return an error?
    LoadMayFail,    \* may a load hook return an error?
    None            \* Option::None

ASSUME StoreAssumption ==
    /\ Debounce \in Nat
    /\ MaxDebounce \in Nat
    /\ UnloadModes \subseteq BOOLEAN
    /\ StoreMayFail \in BOOLEAN
    /\ LoadMayFail \in BOOLEAN
    /\ None \notin Nat

VARIABLES
    phase,          \* where the actor's task is, "unloaded" when there is none
    doc,            \* the edits of the yrs document the actor owns
    stored,         \* the edits of the state the storage backend holds
    established,    \* the sockets that hold a handle of this actor
    connections,    \* the connections registered with the actor
    dirty,
    first_dirty_at, \* age of the first change since the last store, or None
    last_change_at, \* age of the last change since the last store, or None
    storing,        \* is an off-actor store under way?
    tasks,          \* the spawned store tasks, each with its snapshot
    results,        \* what store tasks reported and the actor has not yet read
    unload_immediately,  \* the configuration, fixed at start
    faults          \* history: what went wrong in the current or last residence

actor == <<phase, doc, established, connections>>
timing == <<dirty, first_dirty_at, last_change_at>>
offActor == <<storing, tasks, results>>
vars == <<phase, doc, stored, established, connections, dirty, first_dirty_at,
          last_change_at, storing, tasks, results, unload_immediately, faults>>

Phases == {"unloaded", "running", "timer_store", "unload_store", "before_unload"}
InlineStore == {"timer_store", "unload_store"}

Horizon == IF Debounce > MaxDebounce THEN Debounce ELSE MaxDebounce
Ages == (0..Horizon) \cup {None}

-----------------------------------------------------------------------------
(* The debounce timer. *)

\* mark_dirty at the current instant.
MarkDirty ==
    /\ dirty' = TRUE
    /\ first_dirty_at' = IF first_dirty_at = None THEN 0 ELSE first_dirty_at
    /\ last_change_at' = 0

\* Mutant of ClearDirty: the instant of the first change survives the store.
ClearDirtyKeepsFirst ==
    /\ dirty' = FALSE
    /\ last_change_at' = None
    /\ UNCHANGED first_dirty_at

ClearDirty ==
    /\ dirty' = FALSE
    /\ first_dirty_at' = None
    /\ last_change_at' = None

\* Mutants of StoreDue: no hard bound; no gate on a store under way.
StoreDueSoftOnly ==
    dirty /\ ~storing /\ last_change_at # None /\ last_change_at >= Debounce

StoreDueOverlapping ==
    /\ dirty
    /\ last_change_at # None /\ first_dirty_at # None
    /\ last_change_at >= Debounce \/ first_dirty_at >= MaxDebounce

\* store_deadline is Some(d) and d has passed: the earlier of the soft bound
\* (debounce after the last change) and the hard bound (max_debounce after the first).
StoreDue ==
    /\ dirty
    /\ ~storing
    /\ last_change_at # None /\ first_dirty_at # None
    /\ last_change_at >= Debounce \/ first_dirty_at >= MaxDebounce

Older(age) == IF age = None \/ age = Horizon THEN age ELSE age + 1

\* Time passes, whatever the actor is doing.
Tick ==
    /\ first_dirty_at' = Older(first_dirty_at)
    /\ last_change_at' = Older(last_change_at)
    /\ <<first_dirty_at, last_change_at>>' # <<first_dirty_at, last_change_at>>
    /\ UNCHANGED <<actor, stored, dirty, offActor, unload_immediately, faults>>

-----------------------------------------------------------------------------
(* Loading and the commands of the mailbox. *)

\* The first lookup of an absent document spawns its actor.  A load hook that
\* fails is logged and the actor starts with what it has: an empty document.
Load(ok) ==
    /\ phase = "unloaded"
    /\ ok \/ LoadMayFail
    /\ phase' = "running"
    /\ doc' = IF ok THEN stored ELSE {}
    /\ faults' = IF ok THEN {} ELSE {"load"}
    /\ UNCHANGED <<stored, established, connections, timing, offActor, unload_immediately>>

AddConnection(c) ==
    /\ phase = "running"
    /\ c \notin established
    /\ established' = established \cup {c}
    /\ connections' = connections \cup {c}
    /\ UNCHANGED <<phase, doc, stored, timing, offActor, unload_immediately, faults>>

\* An update of a client, of a peer node or of direct_apply.  encode_update_v1
\* never yields an empty buffer, so an update that brings nothing new also
\* makes the document dirty.
ApplyUpdate(e) ==
    /\ phase = "running"
    /\ doc' = doc \cup {e}
    /\ MarkDirty
    /\ UNCHANGED <<phase, stored, established, connections, offActor, unload_immediately, faults>>

\* evict_lagging and close_connection: the connection is gone from the actor,
\* its socket still holds a handle, and unloading is not considered.
DropConnection(c) ==
    /\ phase = "running"
    /\ c \in connections
    /\ connections' = connections \ {c}
    /\ UNCHANGED <<phase, doc, stored, established, timing, offActor, unload_immediately, faults>>

-----------------------------------------------------------------------------
(* Unloading. *)

\* Mutants of MaybeUnload: a store under way is ignored; a dirty document is not kept warm.
MaybeUnloadWhileStoring(cs, isDirty, isStoring) ==
    IF cs # {} \/ (isDirty /\ ~unload_immediately) THEN "running"
    ELSE IF isDirty THEN "unload_store"
    ELSE "before_unload"

MaybeUnloadNeverWarm(cs, isDirty, isStoring) ==
    IF cs # {} \/ isStoring THEN "running"
    ELSE IF isDirty THEN "unload_store"
    ELSE "before_unload"

\* What maybe_unload awaits next, given the connections, the dirty flag and the
\* storing flag it finds; "running" when it returns without unloading.
MaybeUnload(cs, isDirty, isStoring) ==
    IF cs # {} \/ isStoring \/ (isDirty /\ ~unload_immediately) THEN "running"
    ELSE IF isDirty THEN "unload_store"
    ELSE "before_unload"

\* The socket of c is gone: remove_connection, then maybe_unload.
RemoveConnection(c) ==
    /\ phase = "running"
    /\ c \in established
    /\ established' = established \ {c}
    /\ connections' = connections \ {c}
    /\ phase' = MaybeUnload(connections', dirty, storing)
    /\ UNCHANGED <<doc, stored, timing, offActor, unload_immediately, faults>>

\* The before_unload_document hooks return.  An error keeps the actor running;
\* otherwise it leaves the registry and its task ends, dirty or not.
BeforeUnload(ok) ==
    /\ phase = "before_unload"
    /\ \/ /\ ok
          /\ phase' = "unloaded"
          /\ doc' = {}
          /\ established' = {}
          /\ ClearDirty
          /\ faults' = faults \cup IF dirty THEN {"store"} ELSE {}
       \/ /\ ~ok
          /\ phase' = "running"
          /\ UNCHANGED <<doc, established, timing, faults>>
    /\ UNCHANGED <<stored, connections, offActor, unload_immediately>>

-----------------------------------------------------------------------------
(* Storing. *)

\* spawn_store: snapshot the document, clear the dirty flag, store off-actor.
SpawnStore ==
    /\ storing' = TRUE
    /\ tasks' = tasks \cup {[state |-> doc, written |-> FALSE]}
    /\ ClearDirty
    /\ UNCHANGED <<phase, results>>

\* The timer branch of the select.
TimerFires ==
    /\ phase = "running"
    /\ StoreDue
    /\ \/ /\ connections = {}
          /\ phase' = "timer_store"
          /\ UNCHANGED <<timing, offActor>>
       \/ /\ connections # {}
          /\ SpawnStore
    /\ UNCHANGED <<doc, stored, established, connections, unload_immediately, faults>>

\* run_store returns to the branch that awaited it: all hooks were content, or one
\* failed and the write either happened before that or did not.  The timer branch
\* goes on with maybe_unload, and maybe_unload goes on to unload either way.
FinishInlineStore(ok) ==
    /\ phase \in InlineStore
    /\ \/ /\ ok
          /\ stored' = doc
          /\ ClearDirty
       \/ /\ ~ok /\ StoreMayFail
          /\ stored' \in {stored, doc}
          /\ UNCHANGED timing
    /\ phase' = IF phase = "timer_store" THEN MaybeUnload(connections, dirty', storing)
                ELSE "before_unload"
    /\ UNCHANGED <<doc, established, connections, offActor, unload_immediately, faults>>

\* A spawned store reaches the database.
TaskWrite(t) ==
    /\ t \in tasks /\ ~t.written
    /\ stored' = t.state
    /\ tasks' = (tasks \ {t}) \cup {[t EXCEPT !.written = TRUE]}
    /\ UNCHANGED <<actor, timing, storing, results, unload_immediately, faults>>

\* A spawned store is over and tells the actor.
TaskReport(t, ok) ==
    /\ t \in tasks
    /\ IF ok THEN t.written ELSE StoreMayFail
    /\ tasks' = tasks \ {t}
    /\ results' = results \cup {ok}
    /\ UNCHANGED <<actor, stored, timing, storing, unload_immediately, faults>>

\* Mutants of StoreResult: a failure does not re-arm the timer; unloading is not reconsidered.
StoreResultForgetsFailure(ok) ==
    /\ phase = "running"
    /\ ok \in results
    /\ results' = results \ {ok}
    /\ storing' = FALSE
    /\ phase' = MaybeUnload(connections, dirty, FALSE)
    /\ UNCHANGED <<doc, stored, established, connections, timing, tasks, unload_immediately, faults>>

StoreResultStaysResident(ok) ==
    /\ phase = "running"
    /\ ok \in results
    /\ results' = results \ {ok}
    /\ storing' = FALSE
    /\ IF ok THEN UNCHANGED timing ELSE MarkDirty
    /\ UNCHANGED <<actor, stored, tasks, unload_immediately, faults>>

\* The store_result branch of the select.
StoreResult(ok) ==
    /\ phase = "running"
    /\ ok \in results
    /\ results' = results \ {ok}
    /\ storing' = FALSE
    /\ IF ok THEN UNCHANGED timing ELSE MarkDirty
    /\ phase' = MaybeUnload(connections, dirty', FALSE)
    /\ UNCHANGED <<doc, stored, established, connections, tasks, unload_immediately, faults>>

\* The process dies and is started again: only storage survives.
Crash ==
    /\ phase # "unloaded"
    /\ phase' = "unloaded"
    /\ doc' = {}
    /\ established' = {} /\ connections' = {}
    /\ ClearDirty
    /\ storing' = FALSE /\ tasks' = {} /\ results' = {}
    /\ faults' = faults \cup {"crash"}
    /\ UNCHANGED <<stored, unload_immediately>>

-----------------------------------------------------------------------------

Init ==
    /\ phase = "unloaded"
    /\ doc = {} /\ stored = {}
    /\ established = {} /\ connections = {}
    /\ dirty = FALSE /\ first_dirty_at = None /\ last_change_at = None
    /\ storing = FALSE /\ tasks = {} /\ results = {}
    /\ unload_immediately \in UnloadModes
    /\ faults = {}

Next ==
    \/ \E ok \in BOOLEAN : Load(ok)
    \/ \E c \in Conns : AddConnection(c)
    \/ \E c \in Conns : DropConnection(c)
    \/ \E c \in Conns : RemoveConnection(c)
    \/ \E e \in Edits : ApplyUpdate(e)
    \/ TimerFires
    \/ \E ok \in BOOLEAN : FinishInlineStore(ok)
    \/ \E ok \in BOOLEAN : BeforeUnload(ok)
    \/ \E t \in tasks : TaskWrite(t)
    \/ \E t \in tasks, ok \in BOOLEAN : TaskReport(t, ok)
    \/ \E ok \in BOOLEAN : StoreResult(ok)
    \/ Tick
    \/ Crash

Spec == Init /\ [][Next]_vars

\* What the scheduler and the environment owe: time passes, a select branch that
\* stays ready is taken, a hook that was called returns, and storage does not
\* reject the state forever.
Fairness ==
    /\ WF_vars(Tick)
    /\ WF_vars(TimerFires)
    /\ WF_vars(\E ok \in BOOLEAN : FinishInlineStore(ok))
    /\ WF_vars(\E ok \in BOOLEAN : BeforeUnload(ok))
    /\ WF_vars(\E t \in tasks, ok \in BOOLEAN : TaskReport(t, ok))
    /\ WF_vars(\E ok \in BOOLEAN : StoreResult(ok))
    /\ SF_vars(\E t \in tasks : TaskWrite(t))
    /\ SF_vars(FinishInlineStore(TRUE))

FairSpec == Spec /\ Fairness

-----------------------------------------------------------------------------
(* Properties. *)

\* Every variable keeps its type; the two debounce instants of the actor are
\* Some only while it is dirty (mark_dirty and the three places that clear them).
TypeOK ==
    /\ phase \in Phases
    /\ doc \subseteq Edits /\ stored \subseteq Edits
    /\ connections \subseteq established /\ established \subseteq Conns
    /\ dirty \in BOOLEAN
    /\ first_dirty_at \in Ages /\ last_change_at \in Ages
    /\ dirty <=> first_dirty_at # None
    /\ dirty <=> last_change_at # None
    /\ storing \in BOOLEAN
    /\ tasks \subseteq [state : SUBSET Edits, written : BOOLEAN]
    /\ results \subseteq BOOLEAN
    /\ unload_immediately \in BOOLEAN
    /\ faults \subseteq {"load", "store", "crash"}

\* An edit that storage lacks is never forgotten while the document is resident:
\* the document is dirty, or a spawned store carries the edit, or a failure that
\* will make it dirty again is waiting for the actor ("edits that land mid-store
\* re-dirty for the next tick").
UnsavedIsScheduled ==
    phase # "unloaded" =>
        \/ doc \subseteq stored
        \/ dirty
        \/ \E t \in tasks : doc \subseteq t.state
        \/ FALSE \in results

\* The storing flag is set exactly while one spawned store is running or has an
\* unread result, and then the actor is neither storing inline, nor unloading,
\* nor gone: two writes of this document never overlap ("gates against
\* overlapping stores").
StoreExclusive ==
    /\ storing => phase = "running"
    /\ storing <=> tasks # {} \/ results # {}
    /\ \A t, u \in tasks : t = u
    /\ \A r, q \in results : r = q
    /\ tasks = {} \/ results = {}

\* In the warm mode (unload_immediately off) a document that leaves memory other
\* than by a crash has every edit in storage, whatever store hooks answered.
WarmUnloadSaves ==
    [][ /\ ~unload_immediately
        /\ phase # "unloaded" /\ phase' = "unloaded"
        /\ "crash" \notin faults'
        => doc \subseteq stored ]_vars

\* The document keeps the promise of DurableDocument: in a residence without a
\* fault storage only grows, and the residence ends with every edit in storage.
Durable == INSTANCE DurableDocument WITH
    resident <- phase # "unloaded", memory <- doc, durable <- stored, faulty <- faults # {}
ImplementsDurable == Durable!Spec

\* Every edit of a resident document reaches storage or the document leaves
\* memory: neither a stream of edits that keeps moving last_change_at nor
\* connections that come and go can postpone the store forever (max_debounce).
SaveProgress ==
    \A e \in Edits :
        (phase # "unloaded" /\ e \in doc) ~> (e \in stored \/ phase = "unloaded")

\* A document nobody is connected to and that still has something to store gets
\* as far as asking the hooks to unload it, unless somebody joins: whichever of
\* the timer, a store's result and a disconnect comes last re-runs maybe_unload.
IdleReachesUnload ==
    (phase = "running" /\ connections = {} /\ (dirty \/ storing))
        ~> (phase \in {"before_unload", "unloaded"} \/ connections # {})

\* "Errors leave the document dirty so the next tick retries": a document never
\* leaves memory, other than by a crash, with edits that storage lacks.
UnloadKeepsEdits ==
    [][ phase # "unloaded" /\ phase' = "unloaded" /\ "crash" \notin faults'
        => doc \subseteq stored ]_vars
=============================================================================
