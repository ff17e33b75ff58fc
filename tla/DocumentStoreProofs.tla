------------------------- MODULE DocumentStoreProofs -------------------------
(***************************************************************************)
(* What DocumentStore guarantees for every set of edits and connections,   *)
(* every debounce, both unload modes, and failing storage.                 *)
(***************************************************************************)
EXTENDS DocumentStore, TLAPS

\* What a spawned store carries is a version of the document, the latest one
\* unless an edit has made the document dirty since; when the store has written,
\* storage still holds exactly that version.
SnapshotsCurrent ==
    \A t \in tasks :
        /\ t.state \subseteq doc
        /\ dirty \/ doc \subseteq t.state
        /\ t.written => stored = t.state

\* As long as nothing went wrong, storage holds a version of the document that
\* the pending snapshot contains.
StorageBehind ==
    phase # "unloaded" /\ faults = {} =>
        stored \subseteq doc /\ \A t \in tasks : stored \subseteq t.state

\* Only the eager mode stores from within maybe_unload, and only there can a
\* document be about to unload while dirty.
DirtyUnloadIsEager ==
    /\ phase = "unload_store" => unload_immediately
    /\ phase = "before_unload" /\ dirty => unload_immediately

\* The actor stores inline and unloads only with no connection registered.
UnloadingAlone == phase \notin {"unloaded", "running"} => connections = {}

\* The inductive invariant.
IInv ==
    /\ TypeOK
    /\ StoreExclusive
    /\ UnsavedIsScheduled
    /\ SnapshotsCurrent
    /\ StorageBehind
    /\ DirtyUnloadIsEager
    /\ UnloadingAlone

-----------------------------------------------------------------------------

\* maybe_unload decides one of three ways, and never to unload during a store.
LEMMA MaybeUnloadCases ==
    ASSUME NEW cs, NEW d \in BOOLEAN, NEW s \in BOOLEAN
    PROVE  /\ MaybeUnload(cs, d, s) \in {"running", "unload_store", "before_unload"}
           /\ MaybeUnload(cs, d, s) # "running" => cs = {} /\ ~s
           /\ MaybeUnload(cs, d, s) = "unload_store" => unload_immediately
           /\ MaybeUnload(cs, d, s) = "before_unload" => ~d
  BY DEF MaybeUnload

\* Ageing an instant keeps its type, and None stays None.
LEMMA OlderAge ==
    ASSUME NEW age \in Ages
    PROVE  Older(age) \in Ages /\ (Older(age) = None <=> age = None)
  BY StoreAssumption DEF Older, Ages, Horizon

\* The bookkeeping of mark_dirty keeps the flag and the two instants in step.
LEMMA MarkDirtyType ==
    ASSUME TypeOK, MarkDirty
    PROVE  /\ dirty' = TRUE
           /\ first_dirty_at' \in Ages /\ first_dirty_at' # None
           /\ last_change_at' \in Ages /\ last_change_at' # None
  BY StoreAssumption DEF TypeOK, MarkDirty, Ages, Horizon

\* The initial state satisfies the inductive invariant.
LEMMA InitIInv == Init => IInv
  BY StoreAssumption DEF Init, IInv, TypeOK, StoreExclusive, UnsavedIsScheduled,
     SnapshotsCurrent, StorageBehind, DirtyUnloadIsEager, UnloadingAlone, Phases, Ages

\* Every step preserves the inductive invariant.
LEMMA NextIInv == IInv /\ [Next]_vars => IInv'
  <1> SUFFICES ASSUME IInv, [Next]_vars PROVE IInv'
    OBVIOUS
  <1> USE DEF IInv
  <1>1. ASSUME NEW ok \in BOOLEAN, Load(ok) PROVE IInv'
    BY <1>1 DEF Load, TypeOK, StoreExclusive, UnsavedIsScheduled, SnapshotsCurrent,
       StorageBehind, DirtyUnloadIsEager, UnloadingAlone, Phases, timing, offActor
  <1>2. ASSUME NEW c \in Conns, AddConnection(c) PROVE IInv'
    BY <1>2 DEF AddConnection, TypeOK, StoreExclusive, UnsavedIsScheduled, SnapshotsCurrent,
       StorageBehind, DirtyUnloadIsEager, UnloadingAlone, Phases, timing, offActor
  <1>3. ASSUME NEW c \in Conns, DropConnection(c) PROVE IInv'
    BY <1>3 DEF DropConnection, TypeOK, StoreExclusive, UnsavedIsScheduled, SnapshotsCurrent,
       StorageBehind, DirtyUnloadIsEager, UnloadingAlone, Phases, timing, offActor
  <1>4. ASSUME NEW c \in Conns, RemoveConnection(c) PROVE IInv'
    <2> DEFINE next == MaybeUnload(connections', dirty, storing)
    <2>1. /\ next \in {"running", "unload_store", "before_unload"}
          /\ next # "running" => connections' = {} /\ ~storing
          /\ next = "unload_store" => unload_immediately
          /\ next = "before_unload" => ~dirty
      BY MaybeUnloadCases DEF TypeOK
    <2>2. phase = "running" /\ phase' = next
      BY <1>4 DEF RemoveConnection
    <2> HIDE DEF next
    <2> QED
      BY <1>4, <2>1, <2>2 DEF RemoveConnection, TypeOK, StoreExclusive, UnsavedIsScheduled,
         SnapshotsCurrent, StorageBehind, DirtyUnloadIsEager, UnloadingAlone, Phases, timing, offActor
  <1>5. ASSUME NEW e \in Edits, ApplyUpdate(e) PROVE IInv'
    <2>1. MarkDirty
      BY <1>5 DEF ApplyUpdate
    <2> QED
      BY <1>5, <2>1, MarkDirtyType DEF ApplyUpdate, TypeOK, StoreExclusive, UnsavedIsScheduled,
         SnapshotsCurrent, StorageBehind, DirtyUnloadIsEager, UnloadingAlone, Phases, offActor
  <1>6. CASE TimerFires
    <2>1. CASE connections = {}
      BY <1>6, <2>1 DEF TimerFires, StoreDue, TypeOK, StoreExclusive, UnsavedIsScheduled,
         SnapshotsCurrent, StorageBehind, DirtyUnloadIsEager, UnloadingAlone, Phases, timing, offActor
    <2>2. CASE connections # {}
      <3>1. tasks' = {[state |-> doc, written |-> FALSE]} /\ results' = {} /\ storing'
        BY <1>6, <2>2 DEF TimerFires, StoreDue, SpawnStore, StoreExclusive, TypeOK
      <3>2. /\ phase = "running" /\ phase' = "running" /\ dirty' = FALSE
            /\ first_dirty_at' = None /\ last_change_at' = None /\ storing' = TRUE
            /\ UNCHANGED <<doc, stored, established, connections, unload_immediately, faults>>
        BY <1>6, <2>2 DEF TimerFires, SpawnStore, ClearDirty
      <3>3. /\ [state |-> doc, written |-> FALSE] \in [state : SUBSET Edits, written : BOOLEAN]
            /\ [state |-> doc, written |-> FALSE].state = doc
            /\ [state |-> doc, written |-> FALSE].written = FALSE
        BY DEF TypeOK
      <3>4. TypeOK'
        BY <3>1, <3>2, <3>3 DEF TypeOK, Ages, Phases
      <3>5. StoreExclusive' /\ DirtyUnloadIsEager' /\ UnloadingAlone'
        BY <3>1, <3>2 DEF StoreExclusive, DirtyUnloadIsEager, UnloadingAlone
      <3>6. UnsavedIsScheduled' /\ SnapshotsCurrent' /\ StorageBehind'
        BY <3>1, <3>2, <3>3 DEF UnsavedIsScheduled, SnapshotsCurrent, StorageBehind
      <3> QED
        BY <3>4, <3>5, <3>6
    <2> QED
      BY <2>1, <2>2
  <1>7. ASSUME NEW ok \in BOOLEAN, FinishInlineStore(ok) PROVE IInv'
    <2>1. ~storing /\ tasks = {} /\ results = {} /\ UNCHANGED <<storing, tasks, results>>
      BY <1>7 DEF FinishInlineStore, InlineStore, StoreExclusive, offActor
    <2>2. /\ dirty' \in BOOLEAN
          /\ first_dirty_at' \in Ages /\ last_change_at' \in Ages
          /\ dirty' <=> first_dirty_at' # None
          /\ dirty' <=> last_change_at' # None
      <3>1. CASE ok
        BY <1>7, <3>1 DEF FinishInlineStore, ClearDirty, Ages
      <3>2. CASE ~ok
        BY <1>7, <3>2 DEF FinishInlineStore, TypeOK, timing
      <3> QED
        BY <3>1, <3>2
    <2>3. /\ stored' \in {stored, doc}
          /\ stored' = doc \/ (dirty' = dirty)
      BY <1>7 DEF FinishInlineStore, timing
    <2>4. /\ phase' \in {"running", "unload_store", "before_unload"}
          /\ phase' # "running" => connections = {}
          /\ phase' = "unload_store" => unload_immediately
          /\ phase' = "before_unload" /\ dirty' => unload_immediately
      BY <1>7, <2>2, MaybeUnloadCases DEF FinishInlineStore, InlineStore, DirtyUnloadIsEager,
         UnloadingAlone, TypeOK
    <2>5. UNCHANGED <<doc, established, connections, unload_immediately, faults>>
      BY <1>7 DEF FinishInlineStore
    <2>6. phase # "unloaded"
      BY <1>7 DEF FinishInlineStore, InlineStore
    <2> QED
      BY <2>1, <2>2, <2>3, <2>4, <2>5, <2>6 DEF TypeOK, StoreExclusive, UnsavedIsScheduled,
         SnapshotsCurrent, StorageBehind, DirtyUnloadIsEager, UnloadingAlone, Phases
  <1>8. ASSUME NEW ok \in BOOLEAN, BeforeUnload(ok) PROVE IInv'
    <2>1. ~storing /\ tasks = {} /\ results = {}
      BY <1>8 DEF BeforeUnload, StoreExclusive
    <2>2. UNCHANGED <<stored, connections, storing, tasks, results, unload_immediately>>
      BY <1>8 DEF BeforeUnload, offActor
    <2>3. CASE ok
      <3>1. /\ phase' = "unloaded" /\ doc' = {} /\ established' = {} /\ dirty' = FALSE
            /\ first_dirty_at' = None /\ last_change_at' = None
            /\ faults' \subseteq faults \cup {"store"}
        BY <1>8, <2>3 DEF BeforeUnload, ClearDirty
      <3>2. connections = {}
        BY <1>8 DEF BeforeUnload, UnloadingAlone
      <3> QED
        BY <2>1, <2>2, <3>1, <3>2 DEF TypeOK, StoreExclusive, UnsavedIsScheduled, UnloadingAlone,
           SnapshotsCurrent, StorageBehind, DirtyUnloadIsEager, UnloadingAlone, Phases, Ages
    <2>4. CASE ~ok
      <3>1. /\ phase = "before_unload" /\ phase' = "running"
            /\ UNCHANGED <<doc, established, dirty, first_dirty_at, last_change_at, faults>>
        BY <1>8, <2>4 DEF BeforeUnload, timing
      <3> QED
        BY <2>1, <2>2, <3>1 DEF TypeOK, StoreExclusive, UnsavedIsScheduled, UnloadingAlone,
           SnapshotsCurrent, StorageBehind, DirtyUnloadIsEager, UnloadingAlone, Phases
    <2> QED
      BY <2>3, <2>4
  <1>9. ASSUME NEW t \in tasks, TaskWrite(t) PROVE IInv'
    <2> DEFINE t2 == [t EXCEPT !.written = TRUE]
    <2>1. /\ t.state \subseteq Edits
          /\ t2 \in [state : SUBSET Edits, written : BOOLEAN]
          /\ t2.state = t.state /\ t2.written
      BY DEF TypeOK
    <2>2. tasks = {t} /\ tasks' = {t2}
      BY <1>9 DEF TaskWrite, StoreExclusive
    <2> HIDE DEF t2
    <2>3. /\ stored' = t.state /\ storing
          /\ UNCHANGED <<phase, doc, established, connections, dirty, first_dirty_at,
                         last_change_at, storing, results, unload_immediately, faults>>
      BY <1>9 DEF TaskWrite, StoreExclusive, actor, timing
    <2>4. TypeOK'
      BY <2>1, <2>2, <2>3 DEF TypeOK
    <2>5. StoreExclusive' /\ DirtyUnloadIsEager' /\ UnloadingAlone'
      BY <2>2, <2>3 DEF StoreExclusive, DirtyUnloadIsEager, UnloadingAlone
    <2>6. UnsavedIsScheduled'
      BY <2>1, <2>2, <2>3 DEF UnsavedIsScheduled, SnapshotsCurrent
    <2>7. SnapshotsCurrent' /\ StorageBehind'
      BY <2>1, <2>2, <2>3 DEF SnapshotsCurrent, StorageBehind
    <2> QED
      BY <2>4, <2>5, <2>6, <2>7
  <1>10. ASSUME NEW t \in tasks, NEW ok \in BOOLEAN, TaskReport(t, ok) PROVE IInv'
    <2>1. tasks = {t} /\ tasks' = {} /\ results' = {ok} /\ storing
      BY <1>10 DEF TaskReport, StoreExclusive
    <2>2. ok => t.written
      BY <1>10 DEF TaskReport
    <2>3. UNCHANGED <<phase, doc, established, connections, dirty, first_dirty_at, stored,
                      last_change_at, storing, unload_immediately, faults>>
      BY <1>10 DEF TaskReport, actor, timing
    <2>4. TypeOK'
      BY <2>1, <2>3 DEF TypeOK
    <2>5. StoreExclusive' /\ DirtyUnloadIsEager' /\ UnloadingAlone'
      BY <2>1, <2>3 DEF StoreExclusive, DirtyUnloadIsEager, UnloadingAlone
    <2>6. UnsavedIsScheduled'
      <3>1. CASE ok
        BY <2>1, <2>2, <2>3, <3>1 DEF UnsavedIsScheduled, SnapshotsCurrent, StoreExclusive
      <3>2. CASE ~ok
        BY <2>1, <3>2 DEF UnsavedIsScheduled
      <3> QED
        BY <3>1, <3>2
    <2>7. SnapshotsCurrent' /\ StorageBehind'
      BY <2>1, <2>3 DEF SnapshotsCurrent, StorageBehind
    <2> QED
      BY <2>4, <2>5, <2>6, <2>7
  <1>11. ASSUME NEW ok \in BOOLEAN, StoreResult(ok) PROVE IInv'
    <2>1. results = {ok} /\ results' = {} /\ tasks = {} /\ tasks' = {} /\ ~storing'
      BY <1>11 DEF StoreResult, StoreExclusive
    <2>2. /\ dirty' \in BOOLEAN
          /\ first_dirty_at' \in Ages /\ last_change_at' \in Ages
          /\ dirty' <=> first_dirty_at' # None
          /\ dirty' <=> last_change_at' # None
          /\ dirty' = (dirty \/ ~ok)
      <3>1. CASE ok
        BY <1>11, <3>1 DEF StoreResult, TypeOK, timing
      <3>2. CASE ~ok
        BY <1>11, <3>2, MarkDirtyType DEF StoreResult
      <3> QED
        BY <3>1, <3>2
    <2>3. /\ phase' \in {"running", "unload_store", "before_unload"}
          /\ phase' # "running" => connections = {}
          /\ phase' = "unload_store" => unload_immediately
          /\ phase' = "before_unload" => ~dirty'
      BY <1>11, <2>2, MaybeUnloadCases DEF StoreResult
    <2>4. /\ phase = "running" /\ storing' = FALSE
          /\ UNCHANGED <<doc, stored, established, connections, unload_immediately, faults>>
      BY <1>11 DEF StoreResult
    <2> QED
      BY <2>1, <2>2, <2>3, <2>4 DEF TypeOK, StoreExclusive, UnsavedIsScheduled,
         SnapshotsCurrent, StorageBehind, DirtyUnloadIsEager, UnloadingAlone, Phases
  <1>12. CASE Tick
    BY <1>12, OlderAge DEF Tick, TypeOK, StoreExclusive, UnsavedIsScheduled,
       SnapshotsCurrent, StorageBehind, DirtyUnloadIsEager, UnloadingAlone, Phases, actor, offActor
  <1>13. CASE Crash
    BY <1>13 DEF Crash, ClearDirty, TypeOK, StoreExclusive, UnsavedIsScheduled,
       SnapshotsCurrent, StorageBehind, DirtyUnloadIsEager, UnloadingAlone, Phases, Ages
  <1>14. CASE UNCHANGED vars
    BY <1>14 DEF vars, TypeOK, StoreExclusive, UnsavedIsScheduled,
       SnapshotsCurrent, StorageBehind, DirtyUnloadIsEager, UnloadingAlone
  <1> QED
    BY <1>1, <1>2, <1>3, <1>4, <1>5, <1>6, <1>7, <1>8, <1>9, <1>10, <1>11, <1>12, <1>13,
       <1>14 DEF Next

\* The inductive invariant holds in every reachable state.
THEOREM StoreInvariant == Spec => []IInv
  BY InitIInv, NextIInv, PTL DEF Spec

\* Type correctness of the actor's state: in particular the debounce instants of
\* document.rs are Some exactly while the document is dirty.
THEOREM TypeCorrect == Spec => []TypeOK
  <1>1. IInv => TypeOK
    BY DEF IInv
  <1> QED
    BY <1>1, StoreInvariant, PTL

\* The storing flag of spawn_store and maybe_unload keeps the writes of one
\* document apart.
THEOREM StoresExclusive == Spec => []StoreExclusive
  <1>1. IInv => StoreExclusive
    BY DEF IInv
  <1> QED
    BY <1>1, StoreInvariant, PTL

\* No failure of storage and no interleaving of edits with a spawned store makes
\* a resident document forget an edit that storage lacks.
THEOREM NothingForgotten == Spec => []UnsavedIsScheduled
  <1>1. IInv => UnsavedIsScheduled
    BY DEF IInv
  <1> QED
    BY <1>1, StoreInvariant, PTL

\* A document about to unload without being dirty has every edit in storage.
LEMMA CleanUnloadIsSaved ==
    ASSUME IInv, phase = "before_unload", ~dirty
    PROVE  doc \subseteq stored
  BY DEF IInv, StoreExclusive, UnsavedIsScheduled

\* Only the end of maybe_unload and a crash take a document out of memory.
LEMMA OnlyUnloadLeaves ==
    ASSUME IInv, Next, phase # "unloaded", phase' = "unloaded"
    PROVE  Crash \/ \E ok \in BOOLEAN : BeforeUnload(ok)
  <1>1. \A ok \in BOOLEAN : ~Load(ok)
    BY DEF Load
  <1>2. \A c \in Conns : ~AddConnection(c) /\ ~DropConnection(c)
    BY DEF AddConnection, DropConnection
  <1>3. \A c \in Conns : ~RemoveConnection(c)
    <2> SUFFICES ASSUME NEW c \in Conns, RemoveConnection(c) PROVE FALSE
      OBVIOUS
    <2>1. phase' = MaybeUnload(connections', dirty, storing)
      BY DEF RemoveConnection
    <2> QED
      BY <2>1, MaybeUnloadCases DEF IInv, TypeOK
  <1>4. \A e \in Edits : ~ApplyUpdate(e)
    BY DEF ApplyUpdate
  <1>5. ~TimerFires
    BY DEF TimerFires, SpawnStore
  <1>6. \A ok \in BOOLEAN : ~FinishInlineStore(ok)
    <2> SUFFICES ASSUME NEW ok \in BOOLEAN, FinishInlineStore(ok) PROVE FALSE
      OBVIOUS
    <2>1. dirty' \in BOOLEAN
      BY DEF FinishInlineStore, ClearDirty, timing, IInv, TypeOK
    <2> QED
      BY <2>1, MaybeUnloadCases DEF FinishInlineStore, IInv, TypeOK
  <1>7. \A t \in tasks : ~TaskWrite(t)
    BY DEF TaskWrite, actor
  <1>8. \A t \in tasks, ok \in BOOLEAN : ~TaskReport(t, ok)
    BY DEF TaskReport, actor
  <1>9. \A ok \in BOOLEAN : ~StoreResult(ok)
    <2> SUFFICES ASSUME NEW ok \in BOOLEAN, StoreResult(ok) PROVE FALSE
      OBVIOUS
    <2>1. dirty' \in BOOLEAN
      BY DEF StoreResult, MarkDirty, timing, IInv, TypeOK
    <2> QED
      BY <2>1, MaybeUnloadCases, ZenonT(30) DEF StoreResult
  <1>10. ~Tick
    BY DEF Tick, actor
  <1> QED
    BY <1>1, <1>2, <1>3, <1>4, <1>5, <1>6, <1>7, <1>8, <1>9, <1>10 DEF Next

\* In the warm mode every unload finds all edits in storage.
THEOREM WarmUnloadsAreSafe == Spec => WarmUnloadSaves
  <1> DEFINE Safe == ~unload_immediately /\ phase # "unloaded" /\ phase' = "unloaded"
                     /\ "crash" \notin faults' => doc \subseteq stored
  <1>1. IInv /\ [Next]_vars => [Safe]_vars
    <2> SUFFICES ASSUME IInv, Next, ~unload_immediately, phase # "unloaded",
                        phase' = "unloaded", "crash" \notin faults'
                 PROVE  doc \subseteq stored
      OBVIOUS
    <2>1. ~Crash
      BY DEF Crash
    <2>2. \E ok \in BOOLEAN : BeforeUnload(ok)
      BY <2>1, OnlyUnloadLeaves
    <2>3. phase = "before_unload" /\ ~dirty
      BY <2>2 DEF BeforeUnload, IInv, DirtyUnloadIsEager
    <2> QED
      BY <2>3, CleanUnloadIsSaved
  <1> QED
    BY <1>1, StoreInvariant, PTL DEF Spec, WarmUnloadSaves

-----------------------------------------------------------------------------
(* Refinement of DurableDocument. *)

\* The initial state maps to an initial state of the abstract specification.
LEMMA DurableInit == Init => Durable!Init
  BY DEF Init, Durable!Init

\* A write of a version of the document that contains what storage holds, unless
\* something went wrong, is the abstract Persist.
LEMMA WriteIsPersist ==
    ASSUME NEW s, phase # "unloaded", phase' # "unloaded", stored' = s, s \subseteq doc,
           UNCHANGED <<doc, faults>>, faults # {} \/ stored \subseteq s
    PROVE  Durable!Persist
  BY DEF Durable!Persist

\* Every step is a step of the abstract specification or leaves its state alone.
LEMMA DurableStep == IInv /\ [Next]_vars => [Durable!Next]_Durable!vars
  <1> SUFFICES ASSUME IInv, [Next]_vars PROVE [Durable!Next]_Durable!vars
    OBVIOUS
  <1> DEFINE Same == UNCHANGED <<doc, stored, faults>>
                     /\ (phase # "unloaded") = (phase' # "unloaded")
  <1>0. ASSUME Same PROVE UNCHANGED Durable!vars
    BY <1>0 DEF Durable!vars
  <1>1. ASSUME NEW ok \in BOOLEAN, Load(ok) PROVE Durable!Next
    <2>1. Durable!Load
      BY <1>1 DEF Load, Durable!Load
    <2> QED
      BY <2>1 DEF Durable!Next
  <1>2. ASSUME NEW c \in Conns, AddConnection(c) \/ DropConnection(c) PROVE Same
    BY <1>2 DEF AddConnection, DropConnection
  <1>3. ASSUME NEW c \in Conns, RemoveConnection(c) PROVE Same
    <2>1. phase' # "unloaded"
      BY <1>3, MaybeUnloadCases DEF RemoveConnection, IInv, TypeOK
    <2> QED
      BY <1>3, <2>1 DEF RemoveConnection
  <1>4. ASSUME NEW e \in Edits, ApplyUpdate(e) PROVE Durable!Next
    <2>1. Durable!Edit(e)
      BY <1>4 DEF ApplyUpdate, Durable!Edit
    <2> QED
      BY <2>1 DEF Durable!Next
  <1>5. CASE TimerFires
    BY <1>5, <1>0 DEF TimerFires, SpawnStore
  <1>6. ASSUME NEW ok \in BOOLEAN, FinishInlineStore(ok) PROVE [Durable!Next]_Durable!vars
    <2>1. dirty' \in BOOLEAN
      BY <1>6 DEF FinishInlineStore, ClearDirty, timing, IInv, TypeOK
    <2>2. phase # "unloaded" /\ phase' # "unloaded"
      BY <1>6, <2>1, MaybeUnloadCases DEF FinishInlineStore, InlineStore, IInv, TypeOK
    <2>3. stored' \in {stored, doc} /\ UNCHANGED <<doc, faults>>
      BY <1>6 DEF FinishInlineStore
    <2>4. faults # {} \/ stored \subseteq doc
      BY <2>2 DEF IInv, StorageBehind
    <2>5. CASE stored' = doc
      BY <2>2, <2>3, <2>4, <2>5, WriteIsPersist DEF Durable!Next
    <2>6. CASE stored' = stored
      BY <2>2, <2>3, <2>6 DEF Durable!vars
    <2> QED
      BY <2>3, <2>5, <2>6
  <1>7. ASSUME NEW ok \in BOOLEAN, BeforeUnload(ok) PROVE [Durable!Next]_Durable!vars
    <2>1. CASE ~ok
      BY <1>7, <2>1, <1>0 DEF BeforeUnload
    <2>2. CASE ok
      <3>1. dirty \/ doc \subseteq stored
        BY <1>7, CleanUnloadIsSaved DEF BeforeUnload
      <3>2. Durable!Unload
        BY <1>7, <2>2, <3>1 DEF BeforeUnload, Durable!Unload
      <3> QED
        BY <3>2 DEF Durable!Next
    <2> QED
      BY <2>1, <2>2
  <1>8. ASSUME NEW t \in tasks, TaskWrite(t) PROVE Durable!Next
    <2>1. /\ phase # "unloaded" /\ phase' = phase /\ UNCHANGED <<doc, faults>>
          /\ stored' = t.state /\ t.state \subseteq doc
      BY <1>8 DEF TaskWrite, actor, IInv, StoreExclusive, SnapshotsCurrent
    <2>2. faults # {} \/ stored \subseteq t.state
      BY <2>1 DEF IInv, StorageBehind
    <2> QED
      BY <2>1, <2>2, WriteIsPersist DEF Durable!Next
  <1>9. ASSUME NEW t \in tasks, NEW ok \in BOOLEAN, TaskReport(t, ok) PROVE Same
    BY <1>9 DEF TaskReport, actor
  <1>10. ASSUME NEW ok \in BOOLEAN, StoreResult(ok) PROVE Same
    <2>1. dirty' \in BOOLEAN
      BY <1>10 DEF StoreResult, MarkDirty, timing, IInv, TypeOK
    <2>2. phase' # "unloaded"
      BY <1>10, <2>1, MaybeUnloadCases DEF StoreResult
    <2> QED
      BY <1>10, <2>2 DEF StoreResult
  <1>11. CASE Tick
    BY <1>11, <1>0 DEF Tick, actor
  <1>12. CASE Crash
    <2>1. Durable!Unload
      BY <1>12 DEF Crash, Durable!Unload
    <2> QED
      BY <2>1 DEF Durable!Next
  <1>13. CASE UNCHANGED vars
    BY <1>13, <1>0 DEF vars
  <1> QED
    BY <1>0, <1>1, <1>2, <1>3, <1>4, <1>5, <1>6, <1>7, <1>8, <1>9, <1>10, <1>11, <1>12, <1>13
    DEF Next

\* The actor's persistence implements the abstract promise: in a residence without
\* a fault storage never loses an edit and the residence ends fully saved.
THEOREM DurabilityRefinement == Spec => ImplementsDurable
  BY DurableInit, DurableStep, StoreInvariant, PTL DEF Spec, ImplementsDurable, Durable!Spec
=============================================================================
