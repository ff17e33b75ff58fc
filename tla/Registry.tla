------------------------------- MODULE Registry -------------------------------
(***************************************************************************)
(* How the tasks of a node find, create and lose the actor of one          *)
(* document: ServerShared::document with its creating lock, direct_apply,  *)
(* register_connection with its retry, cleanup, and the end of an actor    *)
(* (maybe_unload, and the mailbox that run drops when it returns).         *)
(*                                                                         *)
(* Callers run on a multi-threaded runtime: every access to one of the two *)
(* maps is a step of its own.  A socket registers once and closes; its     *)
(* task is not cancelled while it registers.  Of the actor's persistence,  *)
(* DocumentStore's subject, the outcome of stores is here and the storing  *)
(* flag; an inline store is part of the step after which the actor awaits  *)
(* its before_unload hooks, since it handles nothing during either.  The   *)
(* node runs with unload_immediately, the default.                         *)
(***************************************************************************)
EXTENDS Naturals, Sequences, FiniteSets

CONSTANTS
    Sockets,        \* the sockets that authenticate for the document
    Appliers,       \* the calls of direct_apply
    MaxActors,      \* bound on the actors spawned for the document
    None

Callers == Sockets \cup Appliers
Actors == 1..MaxActors
Attempts == 1..2    \* for _ in 0..2

\* A lock is named after the caller that created it and its attempt.
Locks == Callers \X Attempts

ASSUME RegistryAssumption ==
    /\ MaxActors \in Nat
    /\ Sockets \cap Appliers = {}
    /\ None \notin Actors \cup Locks

VARIABLES
    documents,      \* the registry entry of the document: an actor or None
    creating,       \* the creating entry of the document: a lock or None
    pc,             \* where each caller is
    attempt,        \* the loop counter of register_connection
    lock,           \* the creating lock a caller waits for or holds, or None
    handle,         \* the actor whose handle a caller holds, or None
    spawned,        \* the number of actors spawned so far
    state,          \* the life of each actor
    mailbox,        \* the commands an actor has not handled yet
    connections,    \* the connections registered with an actor
    dirty,          \* has the actor edits to store?
    storing,        \* is an off-actor store of the actor under way?
    dropped,        \* history: sockets that an actor evicted or closed
    sent,           \* history: the actor a direct_apply has sent its update to
    applied,        \* history: direct_apply calls whose update an actor applied
    rejected,       \* history: direct_apply calls whose update did not decode or apply
    removed,        \* history: has the registry entry ever been removed?
    displaced,      \* history: live actors that lost their entry to another task
    aborted,        \* history: actors whose unload a hook has aborted
    failed          \* history: actors whose latest inline store has failed

caller == <<pc, attempt, lock, handle>>
actor == <<spawned, state, mailbox, connections, dirty, storing>>
updates == <<sent, applied, rejected>>
entry == <<removed, displaced>>
unloads == <<aborted, failed>>
history == <<dropped, updates, entry, unloads>>
vars == <<documents, creating, caller, actor, history>>

\* The guard of a lock lives until document returns.
Critical == {"spawn", "insert", "uncreate"}
Held(l) == \E c \in Callers : lock[c] = l /\ pc[c] \in Critical

Finished == {"established", "closed", "failed", "returned_ok", "returned_err"}
PCs == {"lookup", "entry", "lock", "spawn", "insert", "uncreate", "send", "await",
        "acked", "nacked"} \cup Finished

Live == {"running", "before_unload"}
States == {"free", "running", "before_unload", "left", "dead"}
Commands == [kind : {"add", "apply", "remove"}, from : Callers]

-----------------------------------------------------------------------------
(* ServerShared::document. *)

Lookup(c) ==
    /\ pc[c] = "lookup"
    /\ IF documents # None
       THEN /\ handle' = [handle EXCEPT ![c] = documents]
            /\ pc' = [pc EXCEPT ![c] = "send"]
       ELSE /\ pc' = [pc EXCEPT ![c] = "entry"]
            /\ UNCHANGED handle
    /\ UNCHANGED <<documents, creating, attempt, lock, actor, history>>

Entry(c) ==
    /\ pc[c] = "entry"
    /\ creating' = IF creating = None THEN <<c, attempt[c]>> ELSE creating
    /\ lock' = [lock EXCEPT ![c] = creating']
    /\ pc' = [pc EXCEPT ![c] = "lock"]
    /\ UNCHANGED <<documents, attempt, handle, actor, history>>

\* Mutant of Acquire: the registry is not consulted again under the lock.
AcquireUnchecked(c) ==
    /\ pc[c] = "lock"
    /\ ~Held(lock[c])
    /\ pc' = [pc EXCEPT ![c] = "spawn"]
    /\ UNCHANGED <<documents, creating, attempt, lock, handle, actor, history>>

\* lock().await, then the second look at the registry.
Acquire(c) ==
    /\ pc[c] = "lock"
    /\ ~Held(lock[c])
    /\ IF documents # None
       THEN /\ handle' = [handle EXCEPT ![c] = documents]
            /\ lock' = [lock EXCEPT ![c] = None]
            /\ pc' = [pc EXCEPT ![c] = "send"]
       ELSE /\ pc' = [pc EXCEPT ![c] = "spawn"]
            /\ UNCHANGED <<handle, lock>>
    /\ UNCHANGED <<documents, creating, attempt, actor, history>>

\* Document::spawn has loaded the document and started its actor.
Spawn(c) ==
    /\ pc[c] = "spawn"
    /\ spawned < MaxActors
    /\ spawned' = spawned + 1
    /\ state' = [state EXCEPT ![spawned'] = "running"]
    /\ handle' = [handle EXCEPT ![c] = spawned']
    /\ pc' = [pc EXCEPT ![c] = "insert"]
    /\ UNCHANGED <<documents, creating, attempt, lock, mailbox, connections, dirty, storing,
                   history>>

Insert(c) ==
    /\ pc[c] = "insert"
    /\ documents' = handle[c]
    /\ displaced' = displaced \cup ({documents} \ {None})
    /\ pc' = [pc EXCEPT ![c] = "uncreate"]
    /\ UNCHANGED <<creating, attempt, lock, handle, actor, dropped, updates, removed, unloads>>

\* creating.remove, and the guard is dropped.
Uncreate(c) ==
    /\ pc[c] = "uncreate"
    /\ creating' = None
    /\ lock' = [lock EXCEPT ![c] = None]
    /\ pc' = [pc EXCEPT ![c] = "send"]
    /\ UNCHANGED <<documents, attempt, handle, actor, history>>

-----------------------------------------------------------------------------
(* register_connection, direct_apply and cleanup. *)

\* documents.remove by actor a, or by a registration (None), whichever actor the
\* entry names.
RemoveEntry(a) ==
    /\ documents' = None
    /\ removed' = TRUE
    /\ displaced' = displaced \cup ({documents} \ {a, None})

\* Mutant of NextAttempt: the retry is not bounded.
NextAttemptUnbounded(c) ==
    /\ attempt' = [attempt EXCEPT ![c] = @ + 1]
    /\ pc' = [pc EXCEPT ![c] = "lookup"]

NextAttempt(c) ==
    IF attempt[c] = 1
    THEN /\ attempt' = [attempt EXCEPT ![c] = 2]
         /\ pc' = [pc EXCEPT ![c] = "lookup"]
    ELSE /\ pc' = [pc EXCEPT ![c] = "failed"]
         /\ UNCHANGED attempt

\* The send fails exactly when the actor's receiver is gone.
Send(c) ==
    /\ pc[c] = "send"
    /\ \/ /\ state[handle[c]] # "dead"
          /\ mailbox' = [mailbox EXCEPT ![handle[c]] = Append(@,
                [kind |-> IF c \in Sockets THEN "add" ELSE "apply", from |-> c])]
          /\ sent' = IF c \in Appliers THEN [sent EXCEPT ![c] = handle[c]] ELSE sent
          /\ pc' = [pc EXCEPT ![c] = "await"]
          /\ UNCHANGED <<documents, attempt, handle, entry>>
       \/ /\ state[handle[c]] = "dead" /\ c \in Sockets
          /\ RemoveEntry(None)
          /\ NextAttempt(c)
          /\ handle' = [handle EXCEPT ![c] = None]
          /\ UNCHANGED <<mailbox, sent>>
       \/ /\ state[handle[c]] = "dead" /\ c \in Appliers
          /\ pc' = [pc EXCEPT ![c] = "returned_err"]
          /\ handle' = [handle EXCEPT ![c] = None]
          /\ UNCHANGED <<documents, attempt, mailbox, sent, entry>>
    /\ UNCHANGED <<creating, lock, spawned, state, connections, dirty, storing, dropped,
                   applied, rejected, unloads>>

\* A socket's rx.await returns.
Registered(s) ==
    /\ s \in Sockets
    /\ \/ /\ pc[s] = "acked"
          /\ pc' = [pc EXCEPT ![s] = "established"]
          /\ UNCHANGED <<documents, attempt, handle, entry>>
       \/ /\ pc[s] = "nacked"
          /\ RemoveEntry(None)
          /\ NextAttempt(s)
          /\ handle' = [handle EXCEPT ![s] = None]
    /\ UNCHANGED <<creating, lock, actor, dropped, updates, unloads>>

\* Mutant of ApplyReturns: the ack is not waited for.
ApplyReturnsAtOnce(d) ==
    /\ d \in Appliers
    /\ pc[d] \in {"await", "acked", "nacked"}
    /\ pc' = [pc EXCEPT ![d] = "returned_ok"]
    /\ handle' = [handle EXCEPT ![d] = None]
    /\ UNCHANGED <<documents, creating, attempt, lock, actor, history>>

\* direct_apply's rx.await returns: "let _ = rx.await; Ok(())".
ApplyReturns(d) ==
    /\ d \in Appliers
    /\ pc[d] \in {"acked", "nacked"}
    /\ pc' = [pc EXCEPT ![d] = "returned_ok"]
    /\ handle' = [handle EXCEPT ![d] = None]
    /\ UNCHANGED <<documents, creating, attempt, lock, actor, history>>

\* The socket ends: cleanup sends RemoveConnection, if anybody is there to read it.
Close(s) ==
    /\ pc[s] = "established"
    /\ pc' = [pc EXCEPT ![s] = "closed"]
    /\ handle' = [handle EXCEPT ![s] = None]
    /\ mailbox' = IF state[handle[s]] = "dead" THEN mailbox
                  ELSE [mailbox EXCEPT ![handle[s]] = Append(@, [kind |-> "remove", from |-> s])]
    /\ UNCHANGED <<documents, creating, attempt, lock, spawned, state, connections, dirty, storing,
                   history>>

-----------------------------------------------------------------------------
(* The actor. *)

\* An inline store of the actor ends.
RunStore(a, ok) ==
    /\ dirty' = [dirty EXCEPT ![a] = ~ok]
    /\ failed' = IF ok THEN failed \ {a} ELSE failed \cup {a}

\* Mutants of MaybeUnload: registered connections are ignored; so is a store under
\* way.
MaybeUnloadRegardless(a, conns, isDirty, isStoring) ==
    /\ state' = [state EXCEPT ![a] = "before_unload"]
    /\ \E ok \in BOOLEAN : (isDirty \/ ok) /\ RunStore(a, ok)

MaybeUnloadWhileStoring(a, conns, isDirty, isStoring) ==
    \/ /\ conns = {}
       /\ state' = [state EXCEPT ![a] = "before_unload"]
       /\ \E ok \in BOOLEAN : (isDirty \/ ok) /\ RunStore(a, ok)
    \/ /\ conns # {}
       /\ dirty' = [dirty EXCEPT ![a] = isDirty]
       /\ UNCHANGED <<state, failed>>

\* maybe_unload up to the before_unload hooks, with the connections and flags it
\* finds: with no connection left and no store under way the document is stored
\* if it has to be, and then the hooks are asked, whether or not that succeeded.
MaybeUnload(a, conns, isDirty, isStoring) ==
    \/ /\ conns = {} /\ ~isStoring
       /\ state' = [state EXCEPT ![a] = "before_unload"]
       /\ \E ok \in BOOLEAN : (isDirty \/ ok) /\ RunStore(a, ok)
    \/ /\ conns # {} \/ isStoring
       /\ dirty' = [dirty EXCEPT ![a] = isDirty]
       /\ UNCHANGED <<state, failed>>

\* handle_command on the next command of the mailbox.  An update that does not
\* decode, or that yrs does not apply, is acknowledged like any other.
Handle(a) ==
    /\ state[a] = "running"
    /\ mailbox[a] # << >>
    /\ mailbox' = [mailbox EXCEPT ![a] = Tail(@)]
    /\ LET m == Head(mailbox[a])  c == m.from IN
       \/ /\ m.kind = "add"
          /\ connections' = [connections EXCEPT ![a] = @ \cup {c}]
          /\ pc' = [pc EXCEPT ![c] = "acked"]
          /\ UNCHANGED <<state, dirty, failed, applied, rejected>>
       \/ /\ m.kind = "apply"
          /\ \/ /\ dirty' = [dirty EXCEPT ![a] = TRUE]
                /\ applied' = applied \cup {c}
                /\ UNCHANGED rejected
             \/ /\ rejected' = rejected \cup {c}
                /\ UNCHANGED <<dirty, applied>>
          /\ pc' = [pc EXCEPT ![c] = "acked"]
          /\ UNCHANGED <<state, connections, failed>>
       \/ /\ m.kind = "remove"
          /\ connections' = [connections EXCEPT ![a] = @ \ {c}]
          /\ MaybeUnload(a, connections[a] \ {c}, dirty[a], storing[a])
          /\ UNCHANGED <<pc, applied, rejected>>
    /\ UNCHANGED <<documents, creating, attempt, lock, handle, spawned, storing, dropped, sent,
                   entry, aborted>>

\* The debounce timer.  With no connection left the actor stores inline and goes on
\* to unload, which tries again if that failed; otherwise it spawns a store.
Timer(a) ==
    /\ state[a] = "running" /\ dirty[a] /\ ~storing[a]
    /\ \/ /\ connections[a] = {}
          /\ \E ok \in BOOLEAN : MaybeUnload(a, {}, ~ok, FALSE)
          /\ UNCHANGED storing
       \/ /\ connections[a] # {}
          /\ storing' = [storing EXCEPT ![a] = TRUE]
          /\ dirty' = [dirty EXCEPT ![a] = FALSE]
          /\ UNCHANGED <<state, failed>>
    /\ UNCHANGED <<documents, creating, caller, spawned, mailbox, connections, dropped, updates,
                   entry, aborted>>

\* Mutant of StoreResult: unloading is not reconsidered.
StoreResultStaysResident(a, ok) ==
    /\ state[a] = "running" /\ storing[a]
    /\ storing' = [storing EXCEPT ![a] = FALSE]
    /\ dirty' = [dirty EXCEPT ![a] = @ \/ ~ok]
    /\ UNCHANGED <<documents, creating, caller, spawned, state, mailbox, connections, history>>

\* A spawned store reports: a failure makes the document dirty again, and the actor
\* reconsiders unloading.
StoreResult(a, ok) ==
    /\ state[a] = "running" /\ storing[a]
    /\ storing' = [storing EXCEPT ![a] = FALSE]
    /\ MaybeUnload(a, connections[a], dirty[a] \/ ~ok, FALSE)
    /\ UNCHANGED <<documents, creating, caller, spawned, mailbox, connections, dropped, updates,
                   entry, aborted>>

\* evict_lagging or close_connection.
Drop(a, s) ==
    /\ state[a] = "running"
    /\ s \in connections[a]
    /\ connections' = [connections EXCEPT ![a] = @ \ {s}]
    /\ dropped' = dropped \cup {s}
    /\ UNCHANGED <<documents, creating, caller, spawned, state, mailbox, dirty, storing, updates,
                   entry, unloads>>

\* Mutant of Leave: the registry entry stays.
LeaveRegistered(a) ==
    /\ state[a] = "before_unload"
    /\ state' = [state EXCEPT ![a] = "left"]
    /\ UNCHANGED <<documents, creating, caller, spawned, mailbox, connections, dirty, storing,
                   history>>

\* No before_unload hook objects: documents.remove, then the after_unload hooks.
Leave(a) ==
    /\ state[a] = "before_unload"
    /\ state' = [state EXCEPT ![a] = "left"]
    /\ RemoveEntry(a)
    /\ UNCHANGED <<creating, caller, spawned, mailbox, connections, dirty, storing, dropped,
                   updates, unloads>>

\* A before_unload hook objects.
Abort(a) ==
    /\ state[a] = "before_unload"
    /\ state' = [state EXCEPT ![a] = "running"]
    /\ aborted' = aborted \cup {a}
    /\ UNCHANGED <<documents, creating, caller, spawned, mailbox, connections, dirty, storing,
                   dropped, updates, entry, failed>>

\* Mutant of Die: the commands that were not handled are never answered.
DieSilently(a) ==
    /\ state' = [state EXCEPT ![a] = "dead"]
    /\ mailbox' = [mailbox EXCEPT ![a] = << >>]
    /\ UNCHANGED <<documents, creating, caller, spawned, connections, dirty, storing, history>>

\* run returns: what is left of the batch and of the mailbox is dropped, and with
\* every command its ack.
Die(a) ==
    /\ state' = [state EXCEPT ![a] = "dead"]
    /\ mailbox' = [mailbox EXCEPT ![a] = << >>]
    /\ pc' = [c \in Callers |-> IF pc[c] = "await" /\ handle[c] = a THEN "nacked" ELSE pc[c]]
    /\ UNCHANGED <<documents, creating, attempt, lock, handle, spawned, connections, dirty, storing,
                   history>>

\* maybe_unload returned true.
Exit(a) == state[a] = "left" /\ Die(a)

\* recv returns None, every handle of the actor being gone; a store that was spawned
\* goes on without it.
ChannelClosed(a) ==
    /\ state[a] = "running"
    /\ mailbox[a] = << >>
    /\ documents # a
    /\ \A c \in Callers : handle[c] # a
    /\ Die(a)

-----------------------------------------------------------------------------

Init ==
    /\ documents = None /\ creating = None
    /\ pc = [c \in Callers |-> "lookup"]
    /\ attempt = [c \in Callers |-> 1]
    /\ lock = [c \in Callers |-> None]
    /\ handle = [c \in Callers |-> None]
    /\ spawned = 0
    /\ state = [a \in Actors |-> "free"]
    /\ mailbox = [a \in Actors |-> << >>]
    /\ connections = [a \in Actors |-> {}]
    /\ dirty = [a \in Actors |-> FALSE]
    /\ storing = [a \in Actors |-> FALSE]
    /\ dropped = {} /\ applied = {} /\ rejected = {} /\ aborted = {} /\ failed = {}
    /\ sent = [d \in Appliers |-> None]
    /\ removed = FALSE /\ displaced = {}

CallerStep(c) ==
    \/ Lookup(c) \/ Entry(c) \/ Acquire(c) \/ Spawn(c) \/ Insert(c) \/ Uncreate(c)
    \/ Send(c) \/ Registered(c) \/ ApplyReturns(c)

ActorStep(a) ==
    \/ Handle(a) \/ Timer(a) \/ Leave(a) \/ Exit(a) \/ ChannelClosed(a)
    \/ \E ok \in BOOLEAN : StoreResult(a, ok)

Next ==
    \/ \E c \in Callers : CallerStep(c)
    \/ \E s \in Sockets : Close(s)
    \/ \E a \in Actors : ActorStep(a)
    \/ \E a \in Actors : Abort(a)
    \/ \E a \in Actors, s \in Sockets : Drop(a, s)

Spec == Init /\ [][Next]_vars

\* The runtime schedules every task, the tokio Mutex is fair, sockets end (a client
\* leaves or the idle deadline passes), and a store that was spawned reports.  The
\* select of run picks at random among the branches that are ready, so that a timer
\* that is due again and again does not keep it from its mailbox for ever.
Fairness ==
    /\ \A c \in Callers : WF_vars(CallerStep(c))
    /\ \A s \in Sockets : WF_vars(Close(s))
    /\ \A a \in Actors : WF_vars(ActorStep(a)) /\ SF_vars(Handle(a))

FairSpec == Spec /\ Fairness

-----------------------------------------------------------------------------
(* Properties. *)

\* Every variable keeps its type; a registration makes at most two attempts.
TypeOK ==
    /\ documents \in Actors \cup {None}
    /\ creating \in Locks \cup {None}
    /\ pc \in [Callers -> PCs]
    /\ attempt \in [Callers -> Attempts]
    /\ lock \in [Callers -> Locks \cup {None}]
    /\ handle \in [Callers -> Actors \cup {None}]
    /\ spawned \in 0..MaxActors
    /\ state \in [Actors -> States]
    /\ mailbox \in [Actors -> Seq(Commands)]
    /\ connections \in [Actors -> SUBSET Sockets]
    /\ dirty \in [Actors -> BOOLEAN] /\ storing \in [Actors -> BOOLEAN]
    /\ dropped \subseteq Sockets
    /\ sent \in [Appliers -> Actors \cup {None}]
    /\ applied \subseteq Appliers /\ rejected \subseteq Appliers
    /\ removed \in BOOLEAN /\ displaced \subseteq Actors
    /\ aborted \subseteq Actors /\ failed \subseteq Actors

\* The registry never names an actor that has ended or is past the point of no
\* return, so the entry that register_connection removes as "stale" is never the
\* stale one.
RegistryNeverStale == documents # None => state[documents] \in Live

\* A registration that was acknowledged is served: until the actor drops the
\* connection or its socket closes, that actor runs with the connection in it,
\* however unloading, retries and other sockets interleave.
EstablishedIsServed ==
    \A s \in Sockets :
        pc[s] \in {"acked", "established"} /\ s \notin dropped =>
            state[handle[s]] = "running" /\ s \in connections[handle[s]]

\* The double-checked creating lock loads a document once: as long as no entry
\* was removed, at most one caller has spawned or is spawning the actor.
SpawnOnce ==
    ~removed => Cardinality({c \in Callers : pc[c] = "spawn"}) + spawned <= 1

\* Every lookup, registration and direct_apply returns: no lock is waited for
\* forever and no ack is lost.
EveryCallReturns == <>(\A c \in Callers : pc[c] \in Finished)

\* An actor nothing asks to unload any more: a hook aborted its unload, or all it
\* ever got was an update that did not apply, which starts no timer.
Forgotten(a) ==
    \/ a \in aborted
    \/ /\ \E d \in rejected : sent[d] = a
       /\ connections[a] = {} /\ mailbox[a] = << >> /\ ~dirty[a] /\ ~storing[a]

\* "Documents unload and memory is reclaimed once the last client disconnects":
\* in the end the registry is empty and no actor runs, not even one that lost its
\* registry entry to another or whose last disconnect met a store under way.  The
\* exception is an actor that nothing asks again.
Reclaimed ==
    <>[](\A a \in Actors :
            documents = a \/ state[a] \notin {"free", "dead"} => Forgotten(a))

\* "All mutations for a document are funnelled through this single task": a
\* document never has two actors that accept commands.
SingleActor == Cardinality({a \in Actors : state[a] \in Live}) <= 1

\* "Apply a programmatic edit (direct connection) and report completion": the Ok of
\* direct_apply comes after the actor has applied the update, or has found that it
\* does not apply.  The exception is an update that was still in the mailbox when
\* its actor ended: nothing was applied, and the answer is Ok all the same.
OkUnlessUnloaded ==
    \A d \in Appliers : pc[d] = "returned_ok" =>
        d \in applied \cup rejected \/ state[sent[d]] = "dead"

\* "If there are no connections, persist (if needed) and unload": an actor ends with
\* edits it has not stored, or with a store still under way, for one of two reasons.
\* The store of its unload has failed; or it lost its registry entry, and with it its
\* last handle, to another task: a registration that removed the entry by name, or
\* an actor that was spawned or left beside it.
UnsavedEndHasCause ==
    \A a \in Actors :
        state[a] = "dead" /\ (dirty[a] \/ storing[a]) => a \in failed \cup displaced
=============================================================================
