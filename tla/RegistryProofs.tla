--------------------------- MODULE RegistryProofs ---------------------------
(***************************************************************************)
(* What Registry guarantees for any number of sockets, of calls of         *)
(* direct_apply and of actors.                                             *)
(***************************************************************************)
EXTENDS Registry, FiniteSetTheorems, SequenceTheorems, TLAPS

\* A caller has a handle from the moment it got one to the end of its call.
Holding == {"insert", "uncreate", "send", "await", "acked", "nacked", "established"}

HandlesHeld == \A c \in Callers : pc[c] \in Holding <=> handle[c] # None

\* Nothing refers to an actor that has not been spawned.
Unspawned ==
    \A a \in Actors : a > spawned =>
        /\ state[a] = "free" /\ mailbox[a] = << >> /\ connections[a] = {}
        /\ ~dirty[a] /\ ~storing[a] /\ documents # a
        /\ \A c \in Callers : handle[c] # a

\* A caller that is about to insert its actor is the only one to know of it.
FreshActor ==
    \A c \in Callers : pc[c] = "insert" =>
        /\ state[handle[c]] = "running" /\ mailbox[handle[c]] = << >>
        /\ ~dirty[handle[c]] /\ ~storing[handle[c]] /\ documents # handle[c]
        /\ \A d \in Callers \ {c} : handle[d] # handle[c]

\* A command in a mailbox is that of a caller that awaits its answer from this
\* actor, or of a socket that has closed.
Pending ==
    \A a \in Actors : \A i \in 1..Len(mailbox[a]) :
        LET m == mailbox[a][i] IN
        IF m.kind = "remove" THEN pc[m.from] = "closed"
        ELSE /\ pc[m.from] = "await" /\ handle[m.from] = a
             /\ m.kind = "add" <=> m.from \in Sockets

\* A caller awaits the answer to one command.
PendingOnce ==
    \A a \in Actors : \A i, j \in 1..Len(mailbox[a]) :
        /\ mailbox[a][i].from = mailbox[a][j].from
        /\ mailbox[a][i].kind # "remove" /\ mailbox[a][j].kind # "remove"
        => i = j

\* An actor that unloads has no store under way, and has stored its edits unless
\* that store has failed.
Saved ==
    \A a \in Actors : state[a] \in {"before_unload", "left"} =>
        ~storing[a] /\ (dirty[a] => a \in failed)

\* A live actor has its registry entry, lost it to another task, or gets it next.
Entered ==
    \A a \in Actors : state[a] \in Live =>
        \/ documents = a \/ a \in displaced
        \/ \E c \in Callers : pc[c] = "insert" /\ handle[c] = a

\* The answer that a direct_apply waits for is that of the actor it has sent its
\* update to: the actor has handled the update, or it has ended.
Answers ==
    \A d \in Appliers :
        /\ pc[d] \in {"await", "acked", "nacked"} => sent[d] = handle[d]
        /\ pc[d] \in {"await", "acked", "nacked", "returned_ok"} => sent[d] \in Actors
        /\ pc[d] = "acked" => d \in applied \cup rejected
        /\ pc[d] = "nacked" => state[sent[d]] = "dead"

\* The guard of a lock has one holder.
LocksExclusive ==
    \A c, d \in Callers :
        pc[c] \in Critical /\ pc[d] \in Critical /\ lock[c] = lock[d] => c = d

\* Until an entry is removed there is one lock as long as there is no entry, and
\* one actor, which its creator inserts.
FirstCreation ==
    ~removed =>
        /\ documents = None =>
               /\ \A c \in Callers : /\ pc[c] \in {"lock", "spawn", "insert"} =>
                                          creating # None /\ lock[c] = creating
                                     /\ pc[c] # "uncreate"
               /\ spawned = 0 \/ (spawned = 1 /\ \E c \in Callers : pc[c] = "insert")
        /\ documents # None =>
               /\ spawned = 1
               /\ \A c \in Callers : pc[c] \notin {"spawn", "insert"}

\* The inductive invariant.
IInv ==
    /\ TypeOK
    /\ HandlesHeld /\ Unspawned /\ FreshActor /\ RegistryNeverStale
    /\ Pending /\ PendingOnce /\ EstablishedIsServed
    /\ Saved /\ Entered /\ UnsavedEndHasCause
    /\ Answers /\ OkUnlessUnloaded
    /\ LocksExclusive /\ FirstCreation

-----------------------------------------------------------------------------
(* Types. *)

\* A command is appended to a mailbox.
LEMMA AppendType ==
    ASSUME TypeOK, NEW a, NEW m \in Commands
    PROVE  [mailbox EXCEPT ![a] = Append(@, m)] \in [Actors -> Seq(Commands)]
  <1>1. \A b \in Actors : mailbox[b] \in Seq(Commands)
    BY DEF TypeOK
  <1>2. \A b \in Actors : Append(mailbox[b], m) \in Seq(Commands)
    BY <1>1
  <1> QED
    BY <1>1, <1>2 DEF TypeOK

\* A registration removes the entry and tries again, or gives up.
LEMMA RetryType ==
    ASSUME TypeOK, NEW c \in Callers, RemoveEntry(None), NextAttempt(c)
    PROVE  /\ documents' = None /\ removed' = TRUE /\ displaced' \subseteq Actors
           /\ attempt' \in [Callers -> Attempts] /\ pc' \in [Callers -> PCs]
  <1>1. documents' = None /\ removed' = TRUE /\ displaced' \subseteq Actors
    BY DEF TypeOK, RemoveEntry
  <1>2. CASE attempt[c] = 1
    <2>1. attempt' = [attempt EXCEPT ![c] = 2] /\ pc' = [pc EXCEPT ![c] = "lookup"]
      BY <1>2 DEF NextAttempt
    <2>2. 2 \in Attempts /\ "lookup" \in PCs
      BY DEF Attempts, PCs
    <2> QED
      BY <1>1, <2>1, <2>2 DEF TypeOK
  <1>3. CASE attempt[c] # 1
    BY <1>1, <1>3 DEF TypeOK, NextAttempt, PCs, Finished
  <1> QED
    BY <1>2, <1>3

\* The command that an actor handles next.
LEMMA HeadPending ==
    ASSUME TypeOK, Pending, NEW a \in Actors, Handle(a)
    PROVE  LET m == Head(mailbox[a]) IN
           /\ m = mailbox[a][1] /\ 1 \in 1..Len(mailbox[a])
           /\ m.from \in Callers
           /\ \/ m.kind = "remove" /\ pc[m.from] = "closed"
              \/ /\ \/ m.kind = "add" /\ m.from \in Sockets
                    \/ m.kind = "apply" /\ m.from \in Appliers
                 /\ pc[m.from] = "await" /\ handle[m.from] = a
  <1> DEFINE m == Head(mailbox[a])
  <1>1. m = mailbox[a][1] /\ m \in Commands /\ 1 \in 1..Len(mailbox[a])
    BY DEF TypeOK, Handle
  <1>2. m.from \in Callers /\ m.kind \in {"add", "apply", "remove"}
    BY <1>1 DEF Commands
  <1> QED
    BY <1>1, <1>2 DEF Pending, Callers

\* The number of the actor that is spawned next.
LEMMA SpawnNumber ==
    ASSUME TypeOK, spawned < MaxActors
    PROVE  spawned + 1 \in Actors /\ spawned + 1 > spawned /\ spawned + 1 # None
  BY RegistryAssumption DEF TypeOK, Actors

\* What a step of actor a that calls maybe_unload does to the actors: it goes on to
\* the hooks only without connections and without a store under way, and then what
\* is still dirty is what failed to store.
MayUnload(a) ==
    /\ state[a] = "running"
    /\ \A b \in Actors :
           \/ state'[b] = state[b]
           \/ /\ b = a /\ state'[b] = "before_unload"
              /\ connections'[b] = {} /\ ~storing'[b] /\ (dirty'[b] => b \in failed')
    /\ \A b \in Actors \ {a} :
           /\ mailbox'[b] = mailbox[b] /\ connections'[b] = connections[b]
           /\ dirty'[b] = dirty[b] /\ storing'[b] = storing[b]
           /\ b \in failed' <=> b \in failed

\* The store of maybe_unload.
LEMMA UnloadMoves ==
    ASSUME TypeOK, NEW a \in Actors,
           state' = [state EXCEPT ![a] = "before_unload"],
           \E ok \in BOOLEAN : RunStore(a, ok)
    PROVE  /\ state' \in [Actors -> States] /\ dirty' \in [Actors -> BOOLEAN]
           /\ failed' \subseteq Actors
           /\ state'[a] = "before_unload" /\ (dirty'[a] => a \in failed')
           /\ \A b \in Actors \ {a} : /\ state'[b] = state[b] /\ dirty'[b] = dirty[b]
                                      /\ b \in failed' <=> b \in failed
  <1>1. PICK ok \in BOOLEAN : RunStore(a, ok)
    OBVIOUS
  <1> QED
    BY <1>1 DEF TypeOK, RunStore, States

\* The debounce timer.
LEMMA TimerMoves ==
    ASSUME TypeOK, NEW a \in Actors, Timer(a)
    PROVE  /\ dirty[a] /\ MayUnload(a)
           /\ state' \in [Actors -> States] /\ dirty' \in [Actors -> BOOLEAN]
           /\ storing' \in [Actors -> BOOLEAN] /\ failed' \subseteq Actors
           /\ UNCHANGED <<documents, creating, pc, attempt, lock, handle, spawned, mailbox,
                          connections, dropped, sent, applied, rejected, removed, displaced,
                          aborted>>
  <1>1. /\ state[a] = "running" /\ dirty[a] /\ ~storing[a]
        /\ UNCHANGED <<documents, creating, pc, attempt, lock, handle, spawned, mailbox,
                       connections, dropped, sent, applied, rejected, removed, displaced,
                       aborted>>
    BY DEF Timer, caller, updates, entry
  <1>2. CASE /\ connections[a] = {} /\ UNCHANGED storing
             /\ state' = [state EXCEPT ![a] = "before_unload"]
             /\ \E ok \in BOOLEAN : RunStore(a, ok)
    <2>1. /\ state' \in [Actors -> States] /\ dirty' \in [Actors -> BOOLEAN]
          /\ failed' \subseteq Actors
          /\ state'[a] = "before_unload" /\ (dirty'[a] => a \in failed')
          /\ \A b \in Actors \ {a} : /\ state'[b] = state[b] /\ dirty'[b] = dirty[b]
                                     /\ b \in failed' <=> b \in failed
      BY <1>2, UnloadMoves
    <2> QED
      BY <1>1, <1>2, <2>1 DEF TypeOK, MayUnload
  <1>3. CASE /\ storing' = [storing EXCEPT ![a] = TRUE] /\ dirty' = [dirty EXCEPT ![a] = FALSE]
             /\ UNCHANGED <<state, failed>>
    BY <1>1, <1>3 DEF TypeOK, MayUnload
  <1> QED
    BY <1>2, <1>3 DEF Timer, MaybeUnload

\* The result of a spawned store.
LEMMA ResultMoves ==
    ASSUME TypeOK, NEW a \in Actors, NEW ok \in BOOLEAN, StoreResult(a, ok)
    PROVE  /\ storing[a] /\ MayUnload(a)
           /\ state' \in [Actors -> States] /\ dirty' \in [Actors -> BOOLEAN]
           /\ storing' \in [Actors -> BOOLEAN] /\ failed' \subseteq Actors
           /\ UNCHANGED <<documents, creating, pc, attempt, lock, handle, spawned, mailbox,
                          connections, dropped, sent, applied, rejected, removed, displaced,
                          aborted>>
  <1>1. /\ state[a] = "running" /\ storing[a] /\ storing' = [storing EXCEPT ![a] = FALSE]
        /\ UNCHANGED <<documents, creating, pc, attempt, lock, handle, spawned, mailbox,
                       connections, dropped, sent, applied, rejected, removed, displaced,
                       aborted>>
    BY DEF StoreResult, caller, updates, entry
  <1>2. CASE /\ connections[a] = {}
             /\ state' = [state EXCEPT ![a] = "before_unload"]
             /\ \E oks \in BOOLEAN : RunStore(a, oks)
    <2>1. /\ state' \in [Actors -> States] /\ dirty' \in [Actors -> BOOLEAN]
          /\ failed' \subseteq Actors
          /\ state'[a] = "before_unload" /\ (dirty'[a] => a \in failed')
          /\ \A b \in Actors \ {a} : /\ state'[b] = state[b] /\ dirty'[b] = dirty[b]
                                     /\ b \in failed' <=> b \in failed
      BY <1>2, UnloadMoves
    <2> QED
      BY <1>1, <1>2, <2>1 DEF TypeOK, MayUnload
  <1>3. CASE /\ dirty' = [dirty EXCEPT ![a] = dirty[a] \/ ~ok]
             /\ UNCHANGED <<state, failed>>
    BY <1>1, <1>3 DEF TypeOK, MayUnload
  <1> QED
    BY <1>2, <1>3 DEF StoreResult, MaybeUnload

\* What an actor that handles a command does to the callers and to itself.
LEMMA HandleMoves ==
    ASSUME TypeOK, Pending, NEW a \in Actors, Handle(a)
    PROVE  /\ \A d \in Callers : pc'[d] = pc[d] \/ (pc[d] = "await" /\ pc'[d] = "acked")
           /\ \A d \in Appliers : pc'[d] = "acked" =>
                  pc[d] = "acked" \/ d \in applied' \cup rejected'
           /\ applied \subseteq applied' /\ rejected \subseteq rejected'
           /\ MayUnload(a)
           /\ state' \in [Actors -> States] /\ dirty' \in [Actors -> BOOLEAN]
           /\ failed' \subseteq Actors
           /\ mailbox[a] # << >>
           /\ UNCHANGED <<documents, creating, attempt, lock, handle, spawned, storing, dropped,
                          sent, removed, displaced, aborted>>
  <1> DEFINE m == Head(mailbox[a])
  <1>1. m.from \in Callers /\ (m.kind # "remove" => pc[m.from] = "await")
    BY HeadPending
  <1>2. /\ state[a] = "running" /\ mailbox[a] # << >>
        /\ UNCHANGED <<documents, creating, attempt, lock, handle, spawned, storing, dropped,
                       sent, removed, displaced, aborted>>
        /\ \A b \in Actors \ {a} :
               mailbox'[b] = mailbox[b] /\ connections'[b] = connections[b]
    BY DEF TypeOK, Handle, entry
  <1> HIDE DEF m
  <1>3. CASE m.kind = "add"
    <2>1. /\ pc' = [pc EXCEPT ![m.from] = "acked"]
          /\ UNCHANGED <<state, dirty, failed, applied, rejected>>
          /\ m.from \in Sockets
      BY <1>3, HeadPending DEF Handle, m
    <2> QED
      BY <1>1, <1>2, <1>3, <2>1, RegistryAssumption DEF TypeOK, Callers, MayUnload, States
  <1>4. CASE m.kind = "apply"
    <2>1. /\ pc' = [pc EXCEPT ![m.from] = "acked"]
          /\ \/ /\ dirty' = [dirty EXCEPT ![a] = TRUE] /\ applied' = applied \cup {m.from}
                /\ rejected' = rejected
             \/ dirty' = dirty /\ applied' = applied /\ rejected' = rejected \cup {m.from}
          /\ UNCHANGED <<state, failed>>
      BY <1>4 DEF Handle, m
    <2> QED
      BY <1>1, <1>2, <1>4, <2>1 DEF TypeOK, Callers, MayUnload
  <1>5. CASE m.kind = "remove"
    <2>1. /\ UNCHANGED <<pc, applied, rejected>>
          /\ connections' = [connections EXCEPT ![a] = @ \ {m.from}]
      BY <1>5 DEF Handle, m
    <2>2. CASE /\ connections[a] \ {m.from} = {} /\ ~storing[a]
               /\ state' = [state EXCEPT ![a] = "before_unload"]
               /\ \E ok \in BOOLEAN : RunStore(a, ok)
      <3>1. /\ state' \in [Actors -> States] /\ dirty' \in [Actors -> BOOLEAN]
            /\ failed' \subseteq Actors
            /\ state'[a] = "before_unload" /\ (dirty'[a] => a \in failed')
            /\ \A b \in Actors \ {a} : /\ state'[b] = state[b] /\ dirty'[b] = dirty[b]
                                       /\ b \in failed' <=> b \in failed
        BY <2>2, UnloadMoves
      <3> QED
        BY <1>2, <2>1, <2>2, <3>1 DEF TypeOK, MayUnload
    <2>3. CASE dirty' = [dirty EXCEPT ![a] = dirty[a]] /\ UNCHANGED <<state, failed>>
      BY <1>2, <2>1, <2>3 DEF TypeOK, MayUnload
    <2> QED
      BY <1>5, <2>2, <2>3 DEF Handle, MaybeUnload, m
  <1> QED
    BY <1>3, <1>4, <1>5, HeadPending DEF m

\* Types are kept: what an actor handles is a command of a socket or of a direct_apply.
LEMMA TypesStep ==
    ASSUME TypeOK, Pending, [Next]_vars
    PROVE  TypeOK'
  <1> USE DEF TypeOK, PCs, Finished, States
  <1>1. ASSUME NEW c \in Callers, Lookup(c) PROVE TypeOK'
    BY <1>1 DEF Lookup, actor, history, entry, updates, unloads
  <1>2. ASSUME NEW c \in Callers, Entry(c) PROVE TypeOK'
    BY <1>2 DEF Entry, Locks, actor, history, entry, updates, unloads
  <1>3. ASSUME NEW c \in Callers, Acquire(c) PROVE TypeOK'
    BY <1>3 DEF Acquire, actor, history, entry, updates, unloads
  <1>4. ASSUME NEW c \in Callers, Spawn(c) PROVE TypeOK'
    BY <1>4, RegistryAssumption DEF Actors, Spawn, history, entry, updates, unloads
  <1>5. ASSUME NEW c \in Callers, Insert(c) PROVE TypeOK'
    BY <1>5 DEF Insert, actor, updates, unloads
  <1>6. ASSUME NEW c \in Callers, Uncreate(c) PROVE TypeOK'
    BY <1>6 DEF Uncreate, actor, history, entry, updates, unloads
  <1>7. ASSUME NEW c \in Callers, Send(c) PROVE TypeOK'
    <2> DEFINE m == [kind |-> IF c \in Sockets THEN "add" ELSE "apply", from |-> c]
    <2>1. /\ UNCHANGED <<creating, lock, spawned, state, connections, dirty, storing, dropped,
                         applied, rejected, aborted, failed>>
          /\ sent' \in [Appliers -> Actors \cup {None}]
      BY <1>7 DEF TypeOK, Send, unloads
    <2>2. CASE /\ mailbox' = [mailbox EXCEPT ![handle[c]] = Append(@, m)]
               /\ pc' = [pc EXCEPT ![c] = "await"]
               /\ UNCHANGED <<documents, attempt, handle, entry>>
      <3>1. m \in Commands
        BY DEF Commands
      <3>2. mailbox' \in [Actors -> Seq(Commands)]
        BY <2>2, <3>1, AppendType
      <3> QED
        BY <2>1, <2>2, <3>2 DEF TypeOK, PCs, Finished, States, entry, updates, unloads
    <2>3. CASE /\ RemoveEntry(None) /\ NextAttempt(c)
               /\ handle' = [handle EXCEPT ![c] = None] /\ UNCHANGED mailbox
      BY <2>1, <2>3, RetryType DEF TypeOK
    <2>4. CASE /\ pc' = [pc EXCEPT ![c] = "returned_err"]
               /\ handle' = [handle EXCEPT ![c] = None]
               /\ UNCHANGED <<documents, attempt, mailbox, entry>>
      BY <2>1, <2>4 DEF TypeOK, PCs, Finished, States, entry, updates, unloads
    <2> QED
      BY <1>7, <2>2, <2>3, <2>4 DEF Send
  <1>8. ASSUME NEW c \in Callers, Registered(c) PROVE TypeOK'
    <2>1. UNCHANGED <<creating, lock, spawned, state, mailbox, connections, dirty, storing,
                      dropped, sent, applied, rejected, aborted, failed>>
      BY <1>8 DEF Registered, actor, updates, unloads
    <2>2. CASE /\ pc' = [pc EXCEPT ![c] = "established"]
               /\ UNCHANGED <<documents, attempt, handle, entry>>
      BY <2>1, <2>2 DEF TypeOK, PCs, Finished, States, entry, updates, unloads
    <2>3. CASE RemoveEntry(None) /\ NextAttempt(c) /\ handle' = [handle EXCEPT ![c] = None]
      BY <2>1, <2>3, RetryType DEF TypeOK
    <2> QED
      BY <1>8, <2>2, <2>3 DEF Registered
  <1>9. ASSUME NEW c \in Callers, ApplyReturns(c) PROVE TypeOK'
    BY <1>9 DEF ApplyReturns, actor, history, entry, updates, unloads
  <1>10. ASSUME NEW s \in Sockets, Close(s) PROVE TypeOK'
    <2> DEFINE m == [kind |-> "remove", from |-> s]
    <2>1. m \in Commands
      BY DEF Commands, Callers
    <2>2. mailbox' \in [Actors -> Seq(Commands)]
      <3>1. mailbox' = mailbox \/ mailbox' = [mailbox EXCEPT ![handle[s]] = Append(@, m)]
        BY <1>10 DEF Close
      <3> QED
        <4>1. CASE mailbox' = mailbox
          BY <4>1 DEF TypeOK
        <4>2. CASE mailbox' = [mailbox EXCEPT ![handle[s]] = Append(@, m)]
          BY <2>1, <4>2, AppendType
        <4> QED
          BY <3>1, <4>1, <4>2
    <2> QED
      BY <1>10, <2>2 DEF TypeOK, PCs, Finished, States, Close, history, entry, updates, unloads
  <1>11. ASSUME NEW a \in Actors, Handle(a) PROVE TypeOK'
    <2> DEFINE m == Head(mailbox[a])
    <2>2. /\ m.from \in Callers
          /\ m.kind = "add" => m.from \in Sockets
          /\ m.kind = "apply" => m.from \in Appliers
          /\ m.kind \in {"add", "apply", "remove"}
      BY <1>11, HeadPending
    <2>3. mailbox' \in [Actors -> Seq(Commands)]
      BY <1>11 DEF TypeOK, Handle
    <2>4. UNCHANGED <<documents, creating, attempt, lock, handle, spawned, storing, dropped,
                      sent, removed, displaced, aborted>>
      BY <1>11 DEF Handle, entry, updates, unloads
    <2>5. pc' \in [Callers -> PCs]
      BY <1>11 DEF TypeOK, PCs, Finished, States, Handle
    <2>6. CASE m.kind = "add"
      <3>1. /\ connections' = [connections EXCEPT ![a] = @ \cup {m.from}]
            /\ UNCHANGED <<state, dirty, failed, applied, rejected>>
        BY <1>11, <2>6 DEF Handle
      <3> QED
        BY <2>2, <2>3, <2>4, <2>5, <2>6, <3>1 DEF TypeOK
    <2>7. CASE m.kind = "apply"
      <3>1. /\ dirty' = [dirty EXCEPT ![a] = TRUE] \/ UNCHANGED dirty
            /\ applied' \in {applied, applied \cup {m.from}}
            /\ rejected' \in {rejected, rejected \cup {m.from}}
            /\ UNCHANGED <<state, connections, failed>>
        BY <1>11, <2>7 DEF Handle
      <3> QED
        BY <2>2, <2>3, <2>4, <2>5, <2>7, <3>1 DEF TypeOK
    <2>8. CASE m.kind = "remove"
      <3>1. /\ connections' = [connections EXCEPT ![a] = @ \ {m.from}]
            /\ UNCHANGED <<applied, rejected>>
        BY <1>11, <2>8 DEF Handle
      <3>2. /\ state' \in [Actors -> States] /\ dirty' \in [Actors -> BOOLEAN]
            /\ failed' \subseteq Actors
        BY <1>11, HandleMoves
      <3> QED
        BY <2>3, <2>4, <2>5, <3>1, <3>2 DEF TypeOK
    <2> QED
      BY <2>2, <2>6, <2>7, <2>8
  <1>12. ASSUME NEW a \in Actors, Timer(a) PROVE TypeOK'
    BY <1>12, TimerMoves DEF MayUnload
  <1>13. ASSUME NEW a \in Actors, Leave(a) PROVE TypeOK'
    BY <1>13 DEF Leave, RemoveEntry, caller, updates, unloads
  <1>14. ASSUME NEW a \in Actors, Exit(a) PROVE TypeOK'
    BY <1>14 DEF Exit, Die, history, entry, updates, unloads
  <1>15. ASSUME NEW a \in Actors, ChannelClosed(a) PROVE TypeOK'
    BY <1>15 DEF ChannelClosed, Die, history, entry, updates, unloads
  <1>16. ASSUME NEW a \in Actors, Abort(a) PROVE TypeOK'
    BY <1>16 DEF Abort, caller, entry, updates, unloads
  <1>17. ASSUME NEW a \in Actors, NEW s \in Sockets, Drop(a, s) PROVE TypeOK'
    BY <1>17 DEF Drop, caller, entry, updates, unloads
  <1>18. CASE UNCHANGED vars
    BY <1>18 DEF vars, caller, actor, history, entry, updates, unloads
  <1>19. ASSUME NEW a \in Actors, NEW ok \in BOOLEAN, StoreResult(a, ok)
         PROVE  TypeOK'
    BY <1>19, ResultMoves DEF MayUnload
  <1> QED
    BY <1>1, <1>2, <1>3, <1>4, <1>5, <1>6, <1>7, <1>8, <1>9, <1>10,
       <1>11, <1>12, <1>13, <1>14, <1>15, <1>16, <1>17, <1>18, <1>19
       DEF Next, CallerStep, ActorStep

\* Handles are got and given back with the steps of a call.
LEMMA HandlesStep ==
    ASSUME TypeOK, HandlesHeld, Pending, [Next]_vars
    PROVE  HandlesHeld'
  <1> USE DEF TypeOK, HandlesHeld, Holding, Finished
  <1>1. ASSUME NEW c \in Callers, Lookup(c) PROVE HandlesHeld'
    BY <1>1 DEF Lookup, actor, history, entry, updates, unloads
  <1>2. ASSUME NEW c \in Callers, Entry(c) PROVE HandlesHeld'
    BY <1>2 DEF Entry, actor, history, entry, updates, unloads
  <1>3. ASSUME NEW c \in Callers, Acquire(c) PROVE HandlesHeld'
    BY <1>3 DEF Acquire, actor, history, entry, updates, unloads
  <1>4. ASSUME NEW c \in Callers, Spawn(c) PROVE HandlesHeld'
    BY <1>4, SpawnNumber DEF TypeOK, HandlesHeld, Holding, Spawn
  <1>5. ASSUME NEW c \in Callers, Insert(c) PROVE HandlesHeld'
    BY <1>5 DEF Insert, actor, updates, unloads
  <1>6. ASSUME NEW c \in Callers, Uncreate(c) PROVE HandlesHeld'
    BY <1>6 DEF Uncreate, actor, history, entry, updates, unloads
  <1>7. ASSUME NEW c \in Callers, Send(c) PROVE HandlesHeld'
    BY <1>7 DEF Send, RemoveEntry, NextAttempt, entry, updates, unloads
  <1>8. ASSUME NEW c \in Callers, Registered(c) PROVE HandlesHeld'
    BY <1>8 DEF Registered, RemoveEntry, NextAttempt, actor, entry, updates, unloads
  <1>9. ASSUME NEW c \in Callers, ApplyReturns(c) PROVE HandlesHeld'
    BY <1>9 DEF ApplyReturns, actor, history, entry, updates, unloads
  <1>10. ASSUME NEW s \in Sockets, Close(s) PROVE HandlesHeld'
    BY <1>10 DEF Close, history, entry, updates, unloads, Callers
  <1>11. ASSUME NEW a \in Actors, Handle(a) PROVE HandlesHeld'
    <2>1. handle' = handle /\ Head(mailbox[a]).from \in Callers
      BY <1>11, HeadPending DEF Handle
    <2>2. CASE UNCHANGED pc
      BY <2>1, <2>2 DEF HandlesHeld
    <2>3. CASE /\ pc[Head(mailbox[a]).from] = "await"
               /\ pc' = [pc EXCEPT ![Head(mailbox[a]).from] = "acked"]
      BY <2>1, <2>3 DEF TypeOK, HandlesHeld, Holding
    <2> QED
      BY <1>11, <2>2, <2>3, HeadPending DEF Handle
  <1>12. ASSUME NEW a \in Actors, Timer(a) PROVE HandlesHeld'
    BY <1>12, TimerMoves DEF MayUnload
  <1>13. ASSUME NEW a \in Actors, Leave(a) PROVE HandlesHeld'
    BY <1>13 DEF Leave, RemoveEntry, caller, updates, unloads
  <1>14. ASSUME NEW a \in Actors, Exit(a) PROVE HandlesHeld'
    BY <1>14 DEF Exit, Die, history, entry, updates, unloads
  <1>15. ASSUME NEW a \in Actors, ChannelClosed(a) PROVE HandlesHeld'
    BY <1>15 DEF ChannelClosed, Die, history, entry, updates, unloads
  <1>16. ASSUME NEW a \in Actors, Abort(a) PROVE HandlesHeld'
    BY <1>16 DEF Abort, caller, entry, updates, unloads
  <1>17. ASSUME NEW a \in Actors, NEW s \in Sockets, Drop(a, s) PROVE HandlesHeld'
    BY <1>17 DEF Drop, caller, entry, updates, unloads
  <1>18. CASE UNCHANGED vars
    BY <1>18 DEF vars, caller, actor, history, entry, updates, unloads
  <1>19. ASSUME NEW a \in Actors, NEW ok \in BOOLEAN, StoreResult(a, ok)
         PROVE  HandlesHeld'
    BY <1>19, ResultMoves DEF MayUnload
  <1> QED
    BY <1>1, <1>2, <1>3, <1>4, <1>5, <1>6, <1>7, <1>8, <1>9, <1>10,
       <1>11, <1>12, <1>13, <1>14, <1>15, <1>16, <1>17, <1>18, <1>19
       DEF Next, CallerStep, ActorStep

\* Nobody gets hold of an actor before it is spawned.
LEMMA UnspawnedStep ==
    ASSUME TypeOK, HandlesHeld, Unspawned, Pending, [Next]_vars
    PROVE  Unspawned'
  <1> USE DEF TypeOK, Unspawned, HandlesHeld, Holding
  <1>1. ASSUME NEW c \in Callers, Lookup(c) PROVE Unspawned'
    BY <1>1 DEF Lookup, actor, history, entry, updates, unloads
  <1>2. ASSUME NEW c \in Callers, Entry(c) PROVE Unspawned'
    BY <1>2 DEF Entry, actor, history, entry, updates, unloads
  <1>3. ASSUME NEW c \in Callers, Acquire(c) PROVE Unspawned'
    BY <1>3 DEF Acquire, actor, history, entry, updates, unloads
  <1>4. ASSUME NEW c \in Callers, Spawn(c) PROVE Unspawned'
    <2>1. \A b \in Actors : b > spawned' => b > spawned /\ b # spawned'
      BY <1>4, SpawnNumber DEF TypeOK, Spawn, Actors
    <2> QED
      BY <1>4, <2>1, SpawnNumber DEF TypeOK, Unspawned, Spawn
  <1>5. ASSUME NEW c \in Callers, Insert(c) PROVE Unspawned'
    BY <1>5 DEF Insert, actor, updates, unloads
  <1>6. ASSUME NEW c \in Callers, Uncreate(c) PROVE Unspawned'
    BY <1>6 DEF Uncreate, actor, history, entry, updates, unloads
  <1>7. ASSUME NEW c \in Callers, Send(c) PROVE Unspawned'
    BY <1>7, RegistryAssumption DEF Send, RemoveEntry, NextAttempt, entry, updates, unloads
  <1>8. ASSUME NEW c \in Callers, Registered(c) PROVE Unspawned'
    BY <1>8, RegistryAssumption
       DEF Registered, RemoveEntry, NextAttempt, actor, entry, updates, unloads
  <1>9. ASSUME NEW c \in Callers, ApplyReturns(c) PROVE Unspawned'
    BY <1>9, RegistryAssumption DEF ApplyReturns, actor, history, entry, updates, unloads
  <1>10. ASSUME NEW s \in Sockets, Close(s) PROVE Unspawned'
    BY <1>10, RegistryAssumption DEF Close, history, entry, updates, unloads, Callers
  <1>11. ASSUME NEW a \in Actors, Handle(a) PROVE Unspawned'
    BY <1>11, HandleMoves DEF MayUnload
  <1>12. ASSUME NEW a \in Actors, Timer(a) PROVE Unspawned'
    BY <1>12, TimerMoves DEF MayUnload
  <1>13. ASSUME NEW a \in Actors, Leave(a) PROVE Unspawned'
    BY <1>13, RegistryAssumption DEF Leave, RemoveEntry, caller, updates, unloads
  <1>14. ASSUME NEW a \in Actors, Exit(a) PROVE Unspawned'
    BY <1>14 DEF Exit, Die, history, entry, updates, unloads
  <1>15. ASSUME NEW a \in Actors, ChannelClosed(a) PROVE Unspawned'
    BY <1>15 DEF ChannelClosed, Die, history, entry, updates, unloads
  <1>16. ASSUME NEW a \in Actors, Abort(a) PROVE Unspawned'
    BY <1>16 DEF Abort, caller, entry, updates, unloads
  <1>17. ASSUME NEW a \in Actors, NEW s \in Sockets, Drop(a, s) PROVE Unspawned'
    BY <1>17 DEF Drop, caller, entry, updates, unloads
  <1>18. CASE UNCHANGED vars
    BY <1>18 DEF vars, caller, actor, history, entry, updates, unloads
  <1>19. ASSUME NEW a \in Actors, NEW ok \in BOOLEAN, StoreResult(a, ok)
         PROVE  Unspawned'
    BY <1>19, ResultMoves DEF MayUnload
  <1> QED
    BY <1>1, <1>2, <1>3, <1>4, <1>5, <1>6, <1>7, <1>8, <1>9, <1>10,
       <1>11, <1>12, <1>13, <1>14, <1>15, <1>16, <1>17, <1>18, <1>19
       DEF Next, CallerStep, ActorStep

\* Nobody else reaches a new actor before it is inserted.
LEMMA FreshStep ==
    ASSUME TypeOK, HandlesHeld, Unspawned, FreshActor, Pending, [Next]_vars
    PROVE  FreshActor'
  <1> USE DEF TypeOK, HandlesHeld, Holding, Unspawned, FreshActor
  <1>1. ASSUME NEW c \in Callers, Lookup(c) PROVE FreshActor'
    BY <1>1 DEF Lookup, actor, history, entry, updates, unloads
  <1>2. ASSUME NEW c \in Callers, Entry(c) PROVE FreshActor'
    BY <1>2 DEF Entry, actor, history, entry, updates, unloads
  <1>3. ASSUME NEW c \in Callers, Acquire(c) PROVE FreshActor'
    BY <1>3 DEF Acquire, actor, history, entry, updates, unloads
  <1>4. ASSUME NEW c \in Callers, Spawn(c) PROVE FreshActor'
    <2>1. documents # spawned' /\ \A d \in Callers : handle[d] # spawned'
      BY <1>4, SpawnNumber DEF TypeOK, Unspawned, Spawn
    <2>2. mailbox[spawned'] = << >> /\ ~dirty[spawned'] /\ spawned' \in Actors
      BY <1>4, SpawnNumber DEF TypeOK, Unspawned, Spawn
    <2> QED
      BY <1>4, <2>1, <2>2 DEF TypeOK, FreshActor, Spawn, HandlesHeld, Holding
  <1>5. ASSUME NEW c \in Callers, Insert(c) PROVE FreshActor'
    BY <1>5 DEF Insert, actor, updates, unloads
  <1>6. ASSUME NEW c \in Callers, Uncreate(c) PROVE FreshActor'
    BY <1>6 DEF Uncreate, actor, history, entry, updates, unloads
  <1>7. ASSUME NEW c \in Callers, Send(c) PROVE FreshActor'
    <2>1. \A d \in Callers \ {c} : pc'[d] = pc[d] /\ handle'[d] = handle[d]
      BY <1>7 DEF TypeOK, Send, NextAttempt
    <2>2. pc'[c] # "insert" /\ handle'[c] \in {handle[c], None}
      BY <1>7 DEF TypeOK, Send, NextAttempt
    <2>3. UNCHANGED <<state, dirty, storing>> /\ documents' \in {documents, None}
      BY <1>7 DEF Send, RemoveEntry
    <2>4. \A a \in Actors : a # handle[c] => mailbox'[a] = mailbox[a]
      BY <1>7 DEF TypeOK, Send
    <2> QED
      BY <2>1, <2>2, <2>3, <2>4, RegistryAssumption DEF TypeOK, HandlesHeld, Holding, FreshActor
  <1>8. ASSUME NEW c \in Callers, Registered(c) PROVE FreshActor'
    <2>1. \A d \in Callers \ {c} : pc'[d] = pc[d] /\ handle'[d] = handle[d]
      BY <1>8 DEF TypeOK, Registered, NextAttempt
    <2>2. pc'[c] # "insert" /\ handle'[c] \in {handle[c], None}
      BY <1>8 DEF TypeOK, Registered, NextAttempt
    <2>3. UNCHANGED <<state, mailbox, dirty, storing>> /\ documents' \in {documents, None}
      BY <1>8 DEF Registered, RemoveEntry, actor
    <2> SUFFICES ASSUME NEW e \in Callers, pc'[e] = "insert"
                 PROVE  /\ state'[handle'[e]] = "running" /\ mailbox'[handle'[e]] = << >>
                        /\ ~dirty'[handle'[e]] /\ ~storing'[handle'[e]] /\ documents' # handle'[e]
                        /\ \A d \in Callers \ {e} : handle'[d] # handle'[e]
      BY DEF FreshActor
    <2>4. e # c /\ pc[e] = "insert" /\ handle'[e] = handle[e] /\ handle[e] # None
      BY <2>1, <2>2 DEF HandlesHeld, Holding
    <2>5. \A d \in Callers \ {e} : handle'[d] # handle[e]
      BY <2>1, <2>2, <2>4 DEF FreshActor
    <2> QED
      BY <2>3, <2>4, <2>5 DEF FreshActor
  <1>9. ASSUME NEW c \in Callers, ApplyReturns(c) PROVE FreshActor'
    BY <1>9 DEF ApplyReturns, actor, history, entry, updates, unloads
  <1>10. ASSUME NEW s \in Sockets, Close(s) PROVE FreshActor'
    BY <1>10 DEF Close, history, entry, updates, unloads, Callers
  <1>11. ASSUME NEW a \in Actors, Handle(a) PROVE FreshActor'
    BY <1>11, HandleMoves DEF MayUnload
  <1>12. ASSUME NEW a \in Actors, Timer(a) PROVE FreshActor'
    BY <1>12, TimerMoves DEF MayUnload
  <1>13. ASSUME NEW a \in Actors, Leave(a) PROVE FreshActor'
    BY <1>13 DEF Leave, RemoveEntry, caller, updates, unloads
  <1>14. ASSUME NEW a \in Actors, Exit(a) PROVE FreshActor'
    BY <1>14 DEF Exit, Die, history, entry, updates, unloads
  <1>15. ASSUME NEW a \in Actors, ChannelClosed(a) PROVE FreshActor'
    BY <1>15 DEF ChannelClosed, Die, history, entry, updates, unloads
  <1>16. ASSUME NEW a \in Actors, Abort(a) PROVE FreshActor'
    BY <1>16 DEF Abort, caller, entry, updates, unloads
  <1>17. ASSUME NEW a \in Actors, NEW s \in Sockets, Drop(a, s) PROVE FreshActor'
    BY <1>17 DEF Drop, caller, entry, updates, unloads
  <1>18. CASE UNCHANGED vars
    BY <1>18 DEF vars, caller, actor, history, entry, updates, unloads
  <1>19. ASSUME NEW a \in Actors, NEW ok \in BOOLEAN, StoreResult(a, ok)
         PROVE  FreshActor'
    BY <1>19, ResultMoves DEF MayUnload
  <1> QED
    BY <1>1, <1>2, <1>3, <1>4, <1>5, <1>6, <1>7, <1>8, <1>9, <1>10,
       <1>11, <1>12, <1>13, <1>14, <1>15, <1>16, <1>17, <1>18, <1>19
       DEF Next, CallerStep, ActorStep

\* An actor leaves the registry before it ends, and none that has left comes back.
LEMMA StaleStep ==
    ASSUME TypeOK, HandlesHeld, Unspawned, FreshActor, Pending, RegistryNeverStale, [Next]_vars
    PROVE  RegistryNeverStale'
  <1> USE DEF TypeOK, RegistryNeverStale, FreshActor, HandlesHeld, Holding, Unspawned, Live
  <1>1. ASSUME NEW c \in Callers, Lookup(c) PROVE RegistryNeverStale'
    BY <1>1 DEF Lookup, actor, history, entry, updates, unloads
  <1>2. ASSUME NEW c \in Callers, Entry(c) PROVE RegistryNeverStale'
    BY <1>2 DEF Entry, actor, history, entry, updates, unloads
  <1>3. ASSUME NEW c \in Callers, Acquire(c) PROVE RegistryNeverStale'
    BY <1>3 DEF Acquire, actor, history, entry, updates, unloads
  <1>4. ASSUME NEW c \in Callers, Spawn(c) PROVE RegistryNeverStale'
    BY <1>4 DEF Spawn, history, entry, updates, unloads
  <1>5. ASSUME NEW c \in Callers, Insert(c) PROVE RegistryNeverStale'
    BY <1>5 DEF Insert, actor, updates, unloads
  <1>6. ASSUME NEW c \in Callers, Uncreate(c) PROVE RegistryNeverStale'
    BY <1>6 DEF Uncreate, actor, history, entry, updates, unloads
  <1>7. ASSUME NEW c \in Callers, Send(c) PROVE RegistryNeverStale'
    BY <1>7 DEF Send, RemoveEntry, NextAttempt, entry, updates, unloads
  <1>8. ASSUME NEW c \in Callers, Registered(c) PROVE RegistryNeverStale'
    BY <1>8 DEF Registered, RemoveEntry, NextAttempt, actor, entry, updates, unloads
  <1>9. ASSUME NEW c \in Callers, ApplyReturns(c) PROVE RegistryNeverStale'
    BY <1>9 DEF ApplyReturns, actor, history, entry, updates, unloads
  <1>10. ASSUME NEW s \in Sockets, Close(s) PROVE RegistryNeverStale'
    BY <1>10 DEF Close, history, entry, updates, unloads, Callers
  <1>11. ASSUME NEW a \in Actors, Handle(a) PROVE RegistryNeverStale'
    BY <1>11, HandleMoves DEF MayUnload
  <1>12. ASSUME NEW a \in Actors, Timer(a) PROVE RegistryNeverStale'
    BY <1>12, TimerMoves DEF MayUnload
  <1>13. ASSUME NEW a \in Actors, Leave(a) PROVE RegistryNeverStale'
    BY <1>13 DEF Leave, RemoveEntry, caller, updates, unloads
  <1>14. ASSUME NEW a \in Actors, Exit(a) PROVE RegistryNeverStale'
    BY <1>14 DEF Exit, Die, history, entry, updates, unloads
  <1>15. ASSUME NEW a \in Actors, ChannelClosed(a) PROVE RegistryNeverStale'
    BY <1>15 DEF ChannelClosed, Die, history, entry, updates, unloads
  <1>16. ASSUME NEW a \in Actors, Abort(a) PROVE RegistryNeverStale'
    BY <1>16 DEF Abort, caller, entry, updates, unloads
  <1>17. ASSUME NEW a \in Actors, NEW s \in Sockets, Drop(a, s) PROVE RegistryNeverStale'
    BY <1>17 DEF Drop, caller, entry, updates, unloads
  <1>18. CASE UNCHANGED vars
    BY <1>18 DEF vars, caller, actor, history, entry, updates, unloads
  <1>19. ASSUME NEW a \in Actors, NEW ok \in BOOLEAN, StoreResult(a, ok)
         PROVE  RegistryNeverStale'
    BY <1>19, ResultMoves DEF MayUnload
  <1> QED
    BY <1>1, <1>2, <1>3, <1>4, <1>5, <1>6, <1>7, <1>8, <1>9, <1>10,
       <1>11, <1>12, <1>13, <1>14, <1>15, <1>16, <1>17, <1>18, <1>19
       DEF Next, CallerStep, ActorStep

-----------------------------------------------------------------------------
(* Mailboxes. *)

\* What is in the mailboxes after a command was sent.
LEMMA AppendAt ==
    ASSUME TypeOK, NEW h \in Actors, NEW m \in Commands,
           mailbox' = [mailbox EXCEPT ![h] = Append(@, m)],
           NEW a \in Actors, NEW i \in 1..Len(mailbox'[a])
    PROVE  \/ i \in 1..Len(mailbox[a]) /\ mailbox'[a][i] = mailbox[a][i]
           \/ a = h /\ i = Len(mailbox[a]) + 1 /\ mailbox'[a][i] = m
  <1>1. mailbox[a] \in Seq(Commands)
    BY DEF TypeOK
  <1>2. CASE a # h
    <2>1. mailbox'[a] = mailbox[a]
      BY <1>2 DEF TypeOK
    <2> QED
      BY <2>1
  <1>3. CASE a = h
    <2>1. mailbox'[a] = Append(mailbox[a], m)
      BY <1>3 DEF TypeOK
    <2> QED
      BY <1>1, <1>3, <2>1
  <1> QED
    BY <1>2, <1>3

\* What is in the mailboxes after an actor took a command.
LEMMA TailAt ==
    ASSUME TypeOK, NEW b \in Actors, mailbox[b] # << >>, mailbox'[b] = Tail(mailbox[b]),
           \A d \in Actors \ {b} : mailbox'[d] = mailbox[d],
           NEW a \in Actors, NEW i \in 1..Len(mailbox'[a])
    PROVE  \/ a # b /\ i \in 1..Len(mailbox[a]) /\ mailbox'[a][i] = mailbox[a][i]
           \/ a = b /\ i + 1 \in 2..Len(mailbox[a]) /\ mailbox'[a][i] = mailbox[a][i + 1]
  <1>1. mailbox[a] \in Seq(Commands)
    BY DEF TypeOK
  <1>2. CASE a # b
    BY <1>2
  <1>3. CASE a = b
    <2>1. mailbox'[a] = Tail(mailbox[a]) /\ mailbox[a] # << >>
      BY <1>3
    <2>2. /\ Len(mailbox'[a]) = Len(mailbox[a]) - 1 /\ Len(mailbox[a]) \in Nat
          /\ \A k \in 1..Len(mailbox'[a]) : mailbox'[a][k] = mailbox[a][k + 1]
      BY <1>1, <2>1, HeadTailProperties, LenProperties
    <2> QED
      BY <1>3, <2>2
  <1> QED
    BY <1>2, <1>3

\* An actor that ends empties its mailbox.
LEMMA EmptyAt ==
    ASSUME NEW b \in Actors, mailbox'[b] = << >>,
           \A d \in Actors \ {b} : mailbox'[d] = mailbox[d],
           NEW a \in Actors, NEW i \in 1..Len(mailbox'[a])
    PROVE  a # b /\ i \in 1..Len(mailbox[a]) /\ mailbox'[a][i] = mailbox[a][i]
  <1>1. CASE a = b
    BY <1>1
  <1>2. CASE a # b
    BY <1>2
  <1> QED
    BY <1>1, <1>2

\* An actor does not unload, and does not end, while it serves a connection.
LEMMA ServedStep ==
    ASSUME TypeOK, HandlesHeld, Unspawned, FreshActor, Pending, EstablishedIsServed, [Next]_vars
    PROVE  EstablishedIsServed'
  <1> USE DEF TypeOK, EstablishedIsServed, HandlesHeld, Holding, Callers
  <1>1. ASSUME NEW c \in Callers, Lookup(c) PROVE EstablishedIsServed'
    BY <1>1 DEF Lookup, actor, history, entry, updates, unloads
  <1>2. ASSUME NEW c \in Callers, Entry(c) PROVE EstablishedIsServed'
    BY <1>2 DEF Entry, actor, history, entry, updates, unloads
  <1>3. ASSUME NEW c \in Callers, Acquire(c) PROVE EstablishedIsServed'
    BY <1>3 DEF Acquire, actor, history, entry, updates, unloads
  <1>4. ASSUME NEW c \in Callers, Spawn(c) PROVE EstablishedIsServed'
    BY <1>4 DEF Spawn, history, entry, updates, unloads
  <1>5. ASSUME NEW c \in Callers, Insert(c) PROVE EstablishedIsServed'
    BY <1>5 DEF Insert, actor, updates, unloads
  <1>6. ASSUME NEW c \in Callers, Uncreate(c) PROVE EstablishedIsServed'
    BY <1>6 DEF Uncreate, actor, history, entry, updates, unloads
  <1>7. ASSUME NEW c \in Callers, Send(c) PROVE EstablishedIsServed'
    <2>1. \A s \in Sockets : pc'[s] \in {"acked", "established"} =>
              pc[s] = pc'[s] /\ handle'[s] = handle[s]
      BY <1>7 DEF TypeOK, Callers, Send, NextAttempt
    <2>2. UNCHANGED <<state, connections, dropped>>
      BY <1>7 DEF Send
    <2> QED
      BY <2>1, <2>2 DEF EstablishedIsServed
  <1>8. ASSUME NEW c \in Callers, Registered(c) PROVE EstablishedIsServed'
    BY <1>8 DEF Registered, RemoveEntry, NextAttempt, actor, entry, updates, unloads
  <1>9. ASSUME NEW c \in Callers, ApplyReturns(c) PROVE EstablishedIsServed'
    BY <1>9 DEF ApplyReturns, actor, history, entry, updates, unloads
  <1>10. ASSUME NEW s \in Sockets, Close(s) PROVE EstablishedIsServed'
    BY <1>10 DEF Close, history, entry, updates, unloads
  <1>11. ASSUME NEW a \in Actors, Handle(a) PROVE EstablishedIsServed'
    <2> DEFINE m == Head(mailbox[a])
    <2>1. CASE m.kind = "add"
      <3>1. /\ m.from \in Callers /\ handle[m.from] = a
            /\ connections' = [connections EXCEPT ![a] = @ \cup {m.from}]
            /\ pc' = [pc EXCEPT ![m.from] = "acked"]
            /\ state[a] = "running" /\ UNCHANGED <<state, handle, dropped>>
        BY <1>11, <2>1, HeadPending DEF Handle
      <3> QED
        BY <3>1 DEF TypeOK, EstablishedIsServed, Callers, HandlesHeld, Holding
    <2>2. CASE m.kind = "apply"
      <3>1. /\ m.from \in Appliers
            /\ pc' = [pc EXCEPT ![m.from] = "acked"]
            /\ UNCHANGED <<state, connections, handle, dropped>>
        BY <1>11, <2>2, HeadPending DEF Handle
      <3> QED
        BY <3>1, RegistryAssumption DEF TypeOK, EstablishedIsServed, Callers
    <2>3. CASE m.kind = "remove"
      <3>1. /\ m.from \in Callers /\ pc[m.from] = "closed"
            /\ connections' = [connections EXCEPT ![a] = @ \ {m.from}]
            /\ \/ state' = state
               \/ /\ connections[a] \ {m.from} = {}
                  /\ state' = [state EXCEPT ![a] = "before_unload"]
            /\ UNCHANGED <<pc, handle, dropped>>
        BY <1>11, <2>3, HeadPending DEF Handle, MaybeUnload
      <3> QED
        BY <3>1 DEF TypeOK, EstablishedIsServed, Callers, HandlesHeld, Holding
    <2> QED
      BY <1>11, <2>1, <2>2, <2>3, HeadPending
  <1>12. ASSUME NEW a \in Actors, Timer(a) PROVE EstablishedIsServed'
    BY <1>12, TimerMoves DEF MayUnload
  <1>13. ASSUME NEW a \in Actors, Leave(a) PROVE EstablishedIsServed'
    BY <1>13 DEF Leave, RemoveEntry, caller, updates, unloads
  <1>14. ASSUME NEW a \in Actors, Exit(a) PROVE EstablishedIsServed'
    BY <1>14 DEF Exit, Die, history, entry, updates, unloads
  <1>15. ASSUME NEW a \in Actors, ChannelClosed(a) PROVE EstablishedIsServed'
    BY <1>15 DEF ChannelClosed, Die, history, entry, updates, unloads
  <1>16. ASSUME NEW a \in Actors, Abort(a) PROVE EstablishedIsServed'
    BY <1>16 DEF Abort, caller, entry, updates, unloads
  <1>17. ASSUME NEW a \in Actors, NEW s \in Sockets, Drop(a, s) PROVE EstablishedIsServed'
    BY <1>17 DEF Drop, caller, entry, updates, unloads
  <1>18. CASE UNCHANGED vars
    BY <1>18 DEF vars, caller, actor, history, entry, updates, unloads
  <1>19. ASSUME NEW a \in Actors, NEW ok \in BOOLEAN, StoreResult(a, ok)
         PROVE  EstablishedIsServed'
    BY <1>19, ResultMoves DEF MayUnload
  <1> QED
    BY <1>1, <1>2, <1>3, <1>4, <1>5, <1>6, <1>7, <1>8, <1>9, <1>10,
       <1>11, <1>12, <1>13, <1>14, <1>15, <1>16, <1>17, <1>18, <1>19
       DEF Next, CallerStep, ActorStep

\* A command stays what it was to its sender, unless the sender goes on.
LEMMA PendingKept ==
    ASSUME Pending, UNCHANGED mailbox,
           \A a \in Actors : \A i \in 1..Len(mailbox[a]) : mailbox[a][i].from \in Callers,
           \A c \in Callers : pc[c] \in {"await", "closed"} =>
               pc'[c] = pc[c] /\ handle'[c] = handle[c]
    PROVE  Pending'
  BY DEF Pending

\* The sender of a command.
LEMMA Sender ==
    ASSUME TypeOK, NEW a \in Actors, NEW i \in 1..Len(mailbox[a])
    PROVE  mailbox[a][i] \in Commands /\ mailbox[a][i].from \in Callers
  <1>1. mailbox[a] \in Seq(Commands)
    BY DEF TypeOK
  <1>2. mailbox[a][i] \in Commands
    BY <1>1
  <1> QED
    BY <1>2 DEF Commands

\* A caller that is about to send has no command in a mailbox but a removal.
LEMMA NothingPending ==
    ASSUME Pending, NEW c \in Callers, pc[c] \notin {"await", "closed"}
    PROVE  \A a \in Actors : \A i \in 1..Len(mailbox[a]) : mailbox[a][i].from # c
  BY DEF Pending

\* Commands and their senders agree after every step.
LEMMA PendingStep ==
    ASSUME TypeOK, HandlesHeld, Pending, PendingOnce, [Next]_vars
    PROVE  Pending'
  <1>1. ASSUME NEW c \in Callers, Lookup(c) PROVE Pending'
    BY <1>1, Sender, PendingKept DEF TypeOK, Lookup, actor, history, entry, updates, unloads
  <1>2. ASSUME NEW c \in Callers, Entry(c) PROVE Pending'
    BY <1>2, Sender, PendingKept DEF TypeOK, Entry, actor, history, entry, updates, unloads
  <1>3. ASSUME NEW c \in Callers, Acquire(c) PROVE Pending'
    BY <1>3, Sender, PendingKept DEF TypeOK, Acquire, actor, history, entry, updates, unloads
  <1>4. ASSUME NEW c \in Callers, Spawn(c) PROVE Pending'
    BY <1>4, Sender, PendingKept DEF TypeOK, Spawn, history, entry, updates, unloads
  <1>5. ASSUME NEW c \in Callers, Insert(c) PROVE Pending'
    BY <1>5, Sender, PendingKept DEF TypeOK, Insert, actor, updates, unloads
  <1>6. ASSUME NEW c \in Callers, Uncreate(c) PROVE Pending'
    BY <1>6, Sender, PendingKept DEF TypeOK, Uncreate, actor, history, entry, updates, unloads
  <1>7. ASSUME NEW c \in Callers, Send(c) PROVE Pending'
    <2> DEFINE n == [kind |-> IF c \in Sockets THEN "add" ELSE "apply", from |-> c]
    <2>1. CASE UNCHANGED mailbox
      <3>1. \A d \in Callers : pc[d] \in {"await", "closed"} =>
                pc'[d] = pc[d] /\ handle'[d] = handle[d]
        BY <1>7 DEF TypeOK, Send, NextAttempt
      <3> QED
        BY <2>1, <3>1, Sender, PendingKept
    <2>2. CASE /\ mailbox' = [mailbox EXCEPT ![handle[c]] = Append(@, n)]
               /\ pc' = [pc EXCEPT ![c] = "await"] /\ UNCHANGED handle
      <3>1. handle[c] \in Actors /\ n \in Commands
        BY <1>7 DEF TypeOK, Send, HandlesHeld, Holding, Commands
      <3>2. n.from = c /\ n.kind # "remove" /\ (n.kind = "add" <=> c \in Sockets)
        OBVIOUS
      <3> HIDE DEF n
      <3> SUFFICES ASSUME NEW b \in Actors, NEW i \in 1..Len(mailbox'[b])
                   PROVE  LET m == mailbox'[b][i] IN
                          IF m.kind = "remove" THEN pc'[m.from] = "closed"
                          ELSE /\ pc'[m.from] = "await" /\ handle'[m.from] = b
                               /\ m.kind = "add" <=> m.from \in Sockets
        BY DEF Pending
      <3>3. CASE i \in 1..Len(mailbox[b]) /\ mailbox'[b][i] = mailbox[b][i]
        <4>1. mailbox[b][i].from \in Callers \ {c}
          BY <1>7, <3>3, Sender, NothingPending DEF Send
        <4> QED
          BY <2>2, <3>3, <4>1 DEF TypeOK, Pending
      <3>4. CASE b = handle[c] /\ mailbox'[b][i] = n
        BY <2>2, <3>2, <3>4 DEF TypeOK
      <3> QED
        BY <2>2, <3>1, <3>3, <3>4, AppendAt, SMTT(30)
    <2> QED
      BY <1>7, <2>1, <2>2 DEF Send
  <1>8. ASSUME NEW c \in Callers, Registered(c) PROVE Pending'
    <2>1. \A d \in Callers : pc[d] \in {"await", "closed"} =>
              pc'[d] = pc[d] /\ handle'[d] = handle[d]
      BY <1>8 DEF TypeOK, Registered, NextAttempt
    <2> QED
      BY <1>8, <2>1, Sender, PendingKept DEF Registered, actor, updates, unloads
  <1>9. ASSUME NEW c \in Callers, ApplyReturns(c) PROVE Pending'
    BY <1>9, Sender, PendingKept DEF TypeOK, ApplyReturns, actor, history, entry, updates, unloads
  <1>10. ASSUME NEW s \in Sockets, Close(s) PROVE Pending'
    <2> DEFINE n == [kind |-> "remove", from |-> s]
    <2>1. s \in Callers /\ handle[s] \in Actors /\ pc[s] = "established"
      BY <1>10 DEF TypeOK, Close, HandlesHeld, Holding, Callers
    <2>2. n \in Commands /\ n.from = s /\ n.kind = "remove"
      BY <2>1 DEF Commands
    <2>3. /\ mailbox' = mailbox \/ mailbox' = [mailbox EXCEPT ![handle[s]] = Append(@, n)]
          /\ pc' = [pc EXCEPT ![s] = "closed"] /\ handle' = [handle EXCEPT ![s] = None]
      BY <1>10 DEF Close
    <2> HIDE DEF n
    <2> SUFFICES ASSUME NEW b \in Actors, NEW i \in 1..Len(mailbox'[b])
                 PROVE  LET m == mailbox'[b][i] IN
                        IF m.kind = "remove" THEN pc'[m.from] = "closed"
                        ELSE /\ pc'[m.from] = "await" /\ handle'[m.from] = b
                             /\ m.kind = "add" <=> m.from \in Sockets
      BY DEF Pending
    <2>4. CASE i \in 1..Len(mailbox[b]) /\ mailbox'[b][i] = mailbox[b][i]
      <3>1. mailbox[b][i].from \in Callers \ {s}
        BY <2>1, <2>4, Sender, NothingPending
      <3> QED
        BY <2>3, <2>4, <3>1 DEF TypeOK, Pending
    <2>5. CASE mailbox'[b][i] = n
      BY <2>1, <2>2, <2>3, <2>5 DEF TypeOK
    <2> QED
      BY <2>1, <2>2, <2>3, <2>4, <2>5, AppendAt
  <1>11. ASSUME NEW a \in Actors, Handle(a) PROVE Pending'
    <2> DEFINE m == Head(mailbox[a])
    <2>1. /\ m = mailbox[a][1] /\ 1 \in 1..Len(mailbox[a]) /\ m.from \in Callers
          /\ mailbox[a] # << >> /\ UNCHANGED handle
          /\ mailbox'[a] = Tail(mailbox[a]) /\ \A d \in Actors \ {a} : mailbox'[d] = mailbox[d]
      BY <1>11, HeadPending, ZenonT(30) DEF Handle, TypeOK
    <2>2. \/ UNCHANGED pc
          \/ /\ m.kind # "remove" /\ pc[m.from] = "await" /\ handle[m.from] = a
             /\ pc' = [pc EXCEPT ![m.from] = "acked"]
      BY <1>11, HeadPending DEF Handle
    <2> HIDE DEF m
    <2> SUFFICES ASSUME NEW b \in Actors, NEW i \in 1..Len(mailbox'[b])
                 PROVE  LET n == mailbox'[b][i] IN
                        IF n.kind = "remove" THEN pc'[n.from] = "closed"
                        ELSE /\ pc'[n.from] = "await" /\ handle'[n.from] = b
                             /\ n.kind = "add" <=> n.from \in Sockets
      BY DEF Pending
    <2>3. PICK j \in 1..Len(mailbox[b]) :
              mailbox'[b][i] = mailbox[b][j] /\ (b = a => j # 1)
      <3>1. \/ b # a /\ i \in 1..Len(mailbox[b]) /\ mailbox'[b][i] = mailbox[b][i]
            \/ b = a /\ i + 1 \in 2..Len(mailbox[b]) /\ mailbox'[b][i] = mailbox[b][i + 1]
        BY <2>1, TailAt
      <3>2. Len(mailbox[b]) \in Nat
        BY LenProperties DEF TypeOK
      <3> QED
        BY <3>1, <3>2
    <2>4. /\ mailbox[b][j].from \in Callers
          /\ b # a /\ pc[m.from] = "await" /\ handle[m.from] = a => mailbox[b][j].from # m.from
      BY Sender DEF Pending
    <2>5. CASE UNCHANGED pc
      BY <2>1, <2>3, <2>5 DEF Pending
    <2>6. CASE /\ m.kind # "remove" /\ pc[m.from] = "await" /\ handle[m.from] = a
               /\ pc' = [pc EXCEPT ![m.from] = "acked"]
      <3>1. mailbox[b][j].from # m.from
        BY <2>1, <2>3, <2>4, <2>6 DEF Pending, PendingOnce
      <3> QED
        BY <2>1, <2>3, <2>4, <2>6, <3>1 DEF TypeOK, Pending
    <2> QED
      BY <2>2, <2>5, <2>6
  <1>12. ASSUME NEW a \in Actors, Timer(a) PROVE Pending'
    BY <1>12, Sender, PendingKept, TimerMoves DEF TypeOK, MayUnload
  <1>13. ASSUME NEW a \in Actors, Leave(a) PROVE Pending'
    BY <1>13, Sender, PendingKept DEF TypeOK, Leave, RemoveEntry, caller, updates, unloads
  <1>14. ASSUME NEW a \in Actors, Exit(a) PROVE Pending'
    <2>1. /\ mailbox'[a] = << >> /\ \A d \in Actors \ {a} : mailbox'[d] = mailbox[d]
          /\ \A c \in Callers : pc'[c] = pc[c] \/ (handle[c] = a /\ pc[c] = "await")
          /\ UNCHANGED handle
      BY <1>14 DEF Exit, Die, TypeOK
    <2> SUFFICES ASSUME NEW b \in Actors, NEW i \in 1..Len(mailbox'[b])
                 PROVE  LET m == mailbox'[b][i] IN
                        IF m.kind = "remove" THEN pc'[m.from] = "closed"
                        ELSE /\ pc'[m.from] = "await" /\ handle'[m.from] = b
                             /\ m.kind = "add" <=> m.from \in Sockets
      BY DEF Pending
    <2>2. b # a /\ i \in 1..Len(mailbox[b]) /\ mailbox'[b][i] = mailbox[b][i]
      BY <2>1, EmptyAt
    <2> QED
      BY <2>1, <2>2, Sender DEF Pending
  <1>15. ASSUME NEW a \in Actors, ChannelClosed(a) PROVE Pending'
    <2>1. /\ mailbox'[a] = << >> /\ \A d \in Actors \ {a} : mailbox'[d] = mailbox[d]
          /\ \A c \in Callers : pc'[c] = pc[c] \/ (handle[c] = a /\ pc[c] = "await")
          /\ UNCHANGED handle
      BY <1>15 DEF ChannelClosed, Die, TypeOK
    <2> SUFFICES ASSUME NEW b \in Actors, NEW i \in 1..Len(mailbox'[b])
                 PROVE  LET m == mailbox'[b][i] IN
                        IF m.kind = "remove" THEN pc'[m.from] = "closed"
                        ELSE /\ pc'[m.from] = "await" /\ handle'[m.from] = b
                             /\ m.kind = "add" <=> m.from \in Sockets
      BY DEF Pending
    <2>2. b # a /\ i \in 1..Len(mailbox[b]) /\ mailbox'[b][i] = mailbox[b][i]
      BY <2>1, EmptyAt
    <2> QED
      BY <2>1, <2>2, Sender DEF Pending
  <1>16. ASSUME NEW a \in Actors, Abort(a) PROVE Pending'
    BY <1>16, Sender, PendingKept DEF TypeOK, Abort, caller, entry, updates, unloads
  <1>17. ASSUME NEW a \in Actors, NEW s \in Sockets, Drop(a, s) PROVE Pending'
    BY <1>17, Sender, PendingKept DEF TypeOK, Drop, caller, entry, updates, unloads
  <1>18. CASE UNCHANGED vars
    BY <1>18
       DEF TypeOK, HandlesHeld, Holding, Pending, vars, caller, actor, history, entry, updates,
           unloads
  <1>19. ASSUME NEW a \in Actors, NEW ok \in BOOLEAN, StoreResult(a, ok)
         PROVE  Pending'
    BY <1>19, Sender, PendingKept, ResultMoves DEF TypeOK, MayUnload
  <1> QED
    BY <1>1, <1>2, <1>3, <1>4, <1>5, <1>6, <1>7, <1>8, <1>9, <1>10,
       <1>11, <1>12, <1>13, <1>14, <1>15, <1>16, <1>17, <1>18, <1>19
       DEF Next, CallerStep, ActorStep

\* No caller sends a second command before the first was answered.
LEMMA OnceStep ==
    ASSUME TypeOK, HandlesHeld, Pending, PendingOnce, [Next]_vars
    PROVE  PendingOnce'
  <1> SUFFICES ASSUME NEW b \in Actors,
                      NEW i \in 1..Len(mailbox'[b]), NEW j \in 1..Len(mailbox'[b]),
                      mailbox'[b][i].from = mailbox'[b][j].from,
                      mailbox'[b][i].kind # "remove", mailbox'[b][j].kind # "remove"
               PROVE  i = j
    BY DEF PendingOnce
  <1>1. CASE UNCHANGED mailbox
    BY <1>1 DEF PendingOnce
  <1>2. ASSUME NEW c \in Callers, pc[c] \notin {"await", "closed"}, handle[c] \in Actors,
               NEW n \in Commands, n.from = c,
               mailbox' = [mailbox EXCEPT ![handle[c]] = Append(@, n)]
        PROVE  i = j
    <2>1. ASSUME NEW k \in 1..Len(mailbox'[b])
          PROVE  \/ /\ k \in 1..Len(mailbox[b]) /\ mailbox'[b][k] = mailbox[b][k]
                    /\ mailbox'[b][k].from # c
                 \/ k = Len(mailbox[b]) + 1 /\ mailbox'[b][k].from = c
      BY <1>2, AppendAt, NothingPending
    <2> QED
      BY <2>1, SMTT(30) DEF PendingOnce
  <1>3. ASSUME NEW c \in Callers, Send(c) PROVE i = j
    <2> DEFINE n == [kind |-> IF c \in Sockets THEN "add" ELSE "apply", from |-> c]
    <2>1. handle[c] \in Actors /\ n \in Commands /\ n.from = c /\ pc[c] = "send"
      BY <1>3 DEF TypeOK, Send, HandlesHeld, Holding, Commands
    <2>2. UNCHANGED mailbox \/ mailbox' = [mailbox EXCEPT ![handle[c]] = Append(@, n)]
      BY <1>3 DEF Send
    <2> HIDE DEF n
    <2> QED
      BY <1>1, <1>2, <2>1, <2>2
  <1>4. ASSUME NEW s \in Sockets, Close(s) PROVE i = j
    <2> DEFINE n == [kind |-> "remove", from |-> s]
    <2>1. /\ s \in Callers /\ handle[s] \in Actors /\ pc[s] = "established"
          /\ n \in Commands /\ n.from = s
      BY <1>4 DEF TypeOK, Close, HandlesHeld, Holding, Commands, Callers
    <2>2. UNCHANGED mailbox \/ mailbox' = [mailbox EXCEPT ![handle[s]] = Append(@, n)]
      BY <1>4 DEF Close
    <2> HIDE DEF n
    <2> QED
      BY <1>1, <1>2, <2>1, <2>2
  <1>5. ASSUME NEW a \in Actors, Handle(a) PROVE i = j
    <2>1. /\ mailbox[a] # << >> /\ mailbox'[a] = Tail(mailbox[a])
          /\ \A d \in Actors \ {a} : mailbox'[d] = mailbox[d]
      BY <1>5 DEF Handle, TypeOK
    <2>2. ASSUME NEW k \in 1..Len(mailbox'[b])
          PROVE  \/ b # a /\ k \in 1..Len(mailbox[b]) /\ mailbox'[b][k] = mailbox[b][k]
                 \/ b = a /\ k + 1 \in 1..Len(mailbox[b]) /\ mailbox'[b][k] = mailbox[b][k + 1]
      <3>1. Len(mailbox[b]) \in Nat
        BY LenProperties DEF TypeOK
      <3> QED
        BY <2>1, <3>1, TailAt, SMTT(30)
    <2>3. CASE b # a
      BY <2>2, <2>3 DEF PendingOnce
    <2>4. CASE b = a
      <3>1. /\ i + 1 \in 1..Len(mailbox[b]) /\ mailbox'[b][i] = mailbox[b][i + 1]
            /\ j + 1 \in 1..Len(mailbox[b]) /\ mailbox'[b][j] = mailbox[b][j + 1]
        BY <2>2, <2>4
      <3>2. PICK k, l \in 1..Len(mailbox[b]) : k = i + 1 /\ l = j + 1
        BY <3>1
      <3>3. /\ mailbox[b][k].from = mailbox[b][l].from
            /\ mailbox[b][k].kind # "remove" /\ mailbox[b][l].kind # "remove"
        BY <3>1, <3>2
      <3>4. k = l
        BY <3>3 DEF PendingOnce
      <3>5. i + 1 = j + 1
        BY <3>2, <3>4
      <3> QED
        BY <3>5
    <2> QED
      BY <2>3, <2>4
  <1>6. ASSUME NEW a \in Actors, Die(a) PROVE i = j
    <2>1. mailbox'[a] = << >> /\ \A d \in Actors \ {a} : mailbox'[d] = mailbox[d]
      BY <1>6 DEF Die, TypeOK
    <2>2. ASSUME NEW k \in 1..Len(mailbox'[b])
          PROVE  k \in 1..Len(mailbox[b]) /\ mailbox'[b][k] = mailbox[b][k]
      BY <2>1, EmptyAt
    <2> QED
      BY <2>2 DEF PendingOnce
  <1>7. ASSUME NEW c \in Callers,
               Lookup(c) \/ Entry(c) \/ Acquire(c) \/ Spawn(c) \/ Insert(c) \/ Uncreate(c)
                   \/ Registered(c) \/ ApplyReturns(c)
        PROVE  UNCHANGED mailbox
    BY <1>7
       DEF Lookup, Entry, Acquire, Spawn, Insert, Uncreate, Registered, ApplyReturns, actor,
           updates, unloads
  <1>8. ASSUME NEW a \in Actors, Timer(a) \/ Leave(a) \/ Abort(a) \/ \E s \in Sockets : Drop(a, s)
        PROVE  UNCHANGED mailbox
    BY <1>8 DEF Timer, Leave, Abort, Drop
  <1>10. ASSUME NEW a \in Actors, NEW ok \in BOOLEAN, StoreResult(a, ok) PROVE UNCHANGED mailbox
    BY <1>10 DEF StoreResult
  <1>9. CASE UNCHANGED vars
    BY <1>9, <1>1 DEF vars, actor, updates, unloads
  <1> QED
    BY <1>1, <1>3, <1>4, <1>5, <1>6, <1>7, <1>8, <1>9, <1>10
       DEF Next, CallerStep, ActorStep, Exit, ChannelClosed

\* An actor handles nothing between the store of its unload and its end.
LEMMA SavedStep ==
    ASSUME TypeOK, Unspawned, Pending, Saved, [Next]_vars
    PROVE  Saved'
  <1> USE DEF TypeOK, Unspawned, Saved
  <1>1. ASSUME NEW c \in Callers, Lookup(c) PROVE Saved'
    BY <1>1 DEF Lookup, actor, history, entry, updates, unloads
  <1>2. ASSUME NEW c \in Callers, Entry(c) PROVE Saved'
    BY <1>2 DEF Entry, actor, history, entry, updates, unloads
  <1>3. ASSUME NEW c \in Callers, Acquire(c) PROVE Saved'
    BY <1>3 DEF Acquire, actor, history, entry, updates, unloads
  <1>4. ASSUME NEW c \in Callers, Spawn(c) PROVE Saved'
    BY <1>4 DEF Spawn, history, entry, updates, unloads
  <1>5. ASSUME NEW c \in Callers, Insert(c) PROVE Saved'
    BY <1>5 DEF Insert, actor, updates, unloads
  <1>6. ASSUME NEW c \in Callers, Uncreate(c) PROVE Saved'
    BY <1>6 DEF Uncreate, actor, history, entry, updates, unloads
  <1>7. ASSUME NEW c \in Callers, Send(c) PROVE Saved'
    BY <1>7 DEF Send, RemoveEntry, NextAttempt, entry, updates, unloads
  <1>8. ASSUME NEW c \in Callers, Registered(c) PROVE Saved'
    BY <1>8 DEF Registered, RemoveEntry, NextAttempt, actor, entry, updates, unloads
  <1>9. ASSUME NEW c \in Callers, ApplyReturns(c) PROVE Saved'
    BY <1>9 DEF ApplyReturns, actor, history, entry, updates, unloads
  <1>10. ASSUME NEW s \in Sockets, Close(s) PROVE Saved'
    BY <1>10 DEF Close, history, entry, updates, unloads, Callers
  <1>11. ASSUME NEW a \in Actors, Handle(a) PROVE Saved'
    BY <1>11, HandleMoves DEF MayUnload
  <1>12. ASSUME NEW a \in Actors, Timer(a) PROVE Saved'
    BY <1>12, TimerMoves DEF MayUnload
  <1>13. ASSUME NEW a \in Actors, Leave(a) PROVE Saved'
    BY <1>13 DEF Leave, RemoveEntry, caller, updates, unloads
  <1>14. ASSUME NEW a \in Actors, Exit(a) PROVE Saved'
    BY <1>14 DEF Exit, Die, history, entry, updates, unloads
  <1>15. ASSUME NEW a \in Actors, ChannelClosed(a) PROVE Saved'
    BY <1>15 DEF ChannelClosed, Die, history, entry, updates, unloads
  <1>16. ASSUME NEW a \in Actors, Abort(a) PROVE Saved'
    BY <1>16 DEF Abort, caller, entry, updates, unloads
  <1>17. ASSUME NEW a \in Actors, NEW s \in Sockets, Drop(a, s) PROVE Saved'
    BY <1>17 DEF Drop, caller, entry, updates, unloads
  <1>18. CASE UNCHANGED vars
    BY <1>18 DEF vars, caller, actor, history, entry, updates, unloads
  <1>19. ASSUME NEW a \in Actors, NEW ok \in BOOLEAN, StoreResult(a, ok)
         PROVE  Saved'
    BY <1>19, ResultMoves DEF MayUnload
  <1> QED
    BY <1>1, <1>2, <1>3, <1>4, <1>5, <1>6, <1>7, <1>8, <1>9, <1>10,
       <1>11, <1>12, <1>13, <1>14, <1>15, <1>16, <1>17, <1>18, <1>19
       DEF Next, CallerStep, ActorStep

\* A live actor gets its entry, and loses it to another task only.
LEMMA EnteredStep ==
    ASSUME TypeOK, HandlesHeld, Unspawned, FreshActor, Pending, Entered, [Next]_vars
    PROVE  Entered'
  <1>1. ASSUME NEW c \in Callers, Lookup(c) PROVE Entered'
    BY <1>1
       DEF TypeOK, HandlesHeld, Holding, Entered, Live, Lookup, actor, history, entry, updates,
           unloads
  <1>2. ASSUME NEW c \in Callers, Entry(c) PROVE Entered'
    BY <1>2
       DEF TypeOK, HandlesHeld, Holding, Entered, Live, Entry, actor, history, entry, updates,
           unloads
  <1>3. ASSUME NEW c \in Callers, Acquire(c) PROVE Entered'
    BY <1>3
       DEF TypeOK, HandlesHeld, Holding, Entered, Live, Acquire, actor, history, entry, updates,
           unloads
  <1>4. ASSUME NEW c \in Callers, Spawn(c) PROVE Entered'
    BY <1>4
       DEF TypeOK, HandlesHeld, Holding, Entered, Live, Spawn, history, entry, updates, unloads
  <1>5. ASSUME NEW c \in Callers, Insert(c) PROVE Entered'
    BY <1>5, RegistryAssumption
       DEF TypeOK, HandlesHeld, Holding, Entered, Live, Insert, actor, updates, unloads
  <1>6. ASSUME NEW c \in Callers, Uncreate(c) PROVE Entered'
    BY <1>6
       DEF TypeOK, HandlesHeld, Holding, Entered, Live, Uncreate, actor, history, entry, updates,
           unloads
  <1>7. ASSUME NEW c \in Callers, Send(c) PROVE Entered'
    <2>1. \A d \in Callers : pc[d] = "insert" => pc'[d] = "insert" /\ handle'[d] = handle[d]
      BY <1>7 DEF TypeOK, Send, NextAttempt
    <2>2. /\ state' = state /\ displaced \subseteq displaced'
          /\ documents' = documents \/ displaced' = displaced \cup ({documents} \ {None})
      BY <1>7 DEF Send, RemoveEntry, entry
    <2> QED
      BY <2>1, <2>2, RegistryAssumption DEF Entered
  <1>8. ASSUME NEW c \in Callers, Registered(c) PROVE Entered'
    <2>1. \A d \in Callers : pc[d] = "insert" => pc'[d] = "insert" /\ handle'[d] = handle[d]
      BY <1>8 DEF TypeOK, Registered, NextAttempt
    <2>2. state' = state /\ displaced \subseteq displaced'
          /\ (documents' = documents \/ displaced' = displaced \cup ({documents} \ {None}))
      BY <1>8 DEF Registered, RemoveEntry, actor, entry, updates, unloads
    <2> QED
      BY <2>1, <2>2, RegistryAssumption DEF Entered
  <1>9. ASSUME NEW c \in Callers, ApplyReturns(c) PROVE Entered'
    BY <1>9
       DEF TypeOK, HandlesHeld, Holding, Entered, Live, ApplyReturns, actor, history, entry,
           updates, unloads
  <1>10. ASSUME NEW s \in Sockets, Close(s) PROVE Entered'
    BY <1>10
       DEF TypeOK, HandlesHeld, Holding, Entered, Live, Close, history, entry, updates, unloads,
           Callers
  <1>11. ASSUME NEW a \in Actors, Handle(a) PROVE Entered'
    BY <1>11, HandleMoves DEF Entered, Live, MayUnload
  <1>12. ASSUME NEW a \in Actors, Timer(a) PROVE Entered'
    <2>1. /\ \A b \in Actors : state'[b] \in Live => state[b] \in Live
          /\ UNCHANGED <<documents, displaced, pc, handle>>
      BY <1>12, TimerMoves DEF MayUnload, Live
    <2> QED
      BY <2>1 DEF Entered
  <1>13. ASSUME NEW a \in Actors, Leave(a) PROVE Entered'
    BY <1>13
       DEF TypeOK, HandlesHeld, Holding, Entered, Live, Leave, RemoveEntry, caller, updates,
           unloads
  <1>14. ASSUME NEW a \in Actors, Exit(a) PROVE Entered'
    BY <1>14
       DEF TypeOK, HandlesHeld, Holding, Entered, Live, Exit, Die, history, entry, updates,
           unloads
  <1>15. ASSUME NEW a \in Actors, ChannelClosed(a) PROVE Entered'
    BY <1>15
       DEF TypeOK, HandlesHeld, Holding, Entered, Live, ChannelClosed, Die, history, entry,
           updates, unloads
  <1>16. ASSUME NEW a \in Actors, Abort(a) PROVE Entered'
    BY <1>16
       DEF TypeOK, HandlesHeld, Holding, Entered, Live, Abort, caller, entry, updates, unloads
  <1>17. ASSUME NEW a \in Actors, NEW s \in Sockets, Drop(a, s) PROVE Entered'
    BY <1>17
       DEF TypeOK, HandlesHeld, Holding, Entered, Live, Drop, caller, entry, updates, unloads
  <1>18. CASE UNCHANGED vars
    BY <1>18
       DEF TypeOK, HandlesHeld, Holding, Entered, Live, vars, caller, actor, history, entry,
           updates, unloads
  <1>19. ASSUME NEW a \in Actors, NEW ok \in BOOLEAN, StoreResult(a, ok)
         PROVE  Entered'
    <2>1. /\ \A b \in Actors : state'[b] \in Live => state[b] \in Live
          /\ UNCHANGED <<documents, displaced, pc, handle>>
      BY <1>19, ResultMoves DEF MayUnload, Live
    <2> QED
      BY <2>1 DEF Entered
  <1> QED
    BY <1>1, <1>2, <1>3, <1>4, <1>5, <1>6, <1>7, <1>8, <1>9, <1>10,
       <1>11, <1>12, <1>13, <1>14, <1>15, <1>16, <1>17, <1>18, <1>19
       DEF Next, CallerStep, ActorStep

\* Only an actor without handles, or one whose last store failed, ends unsaved.
LEMMA UnsavedStep ==
    ASSUME TypeOK, HandlesHeld, Unspawned, Pending, Saved, Entered, FreshActor,
           UnsavedEndHasCause, [Next]_vars
    PROVE  UnsavedEndHasCause'
  <1> USE DEF TypeOK, HandlesHeld, Holding, Unspawned, Saved, Entered, FreshActor, UnsavedEndHasCause, Live
  <1>1. ASSUME NEW c \in Callers, Lookup(c) PROVE UnsavedEndHasCause'
    BY <1>1 DEF Lookup, actor, history, entry, updates, unloads
  <1>2. ASSUME NEW c \in Callers, Entry(c) PROVE UnsavedEndHasCause'
    BY <1>2 DEF Entry, actor, history, entry, updates, unloads
  <1>3. ASSUME NEW c \in Callers, Acquire(c) PROVE UnsavedEndHasCause'
    BY <1>3 DEF Acquire, actor, history, entry, updates, unloads
  <1>4. ASSUME NEW c \in Callers, Spawn(c) PROVE UnsavedEndHasCause'
    BY <1>4 DEF Spawn, history, entry, updates, unloads
  <1>5. ASSUME NEW c \in Callers, Insert(c) PROVE UnsavedEndHasCause'
    BY <1>5 DEF Insert, actor, updates, unloads
  <1>6. ASSUME NEW c \in Callers, Uncreate(c) PROVE UnsavedEndHasCause'
    BY <1>6 DEF Uncreate, actor, history, entry, updates, unloads
  <1>7. ASSUME NEW c \in Callers, Send(c) PROVE UnsavedEndHasCause'
    BY <1>7 DEF Send, RemoveEntry, NextAttempt, entry, updates, unloads
  <1>8. ASSUME NEW c \in Callers, Registered(c) PROVE UnsavedEndHasCause'
    BY <1>8 DEF Registered, RemoveEntry, NextAttempt, actor, entry, updates, unloads
  <1>9. ASSUME NEW c \in Callers, ApplyReturns(c) PROVE UnsavedEndHasCause'
    BY <1>9 DEF ApplyReturns, actor, history, entry, updates, unloads
  <1>10. ASSUME NEW s \in Sockets, Close(s) PROVE UnsavedEndHasCause'
    BY <1>10 DEF Close, history, entry, updates, unloads, Callers
  <1>11. ASSUME NEW a \in Actors, Handle(a) PROVE UnsavedEndHasCause'
    BY <1>11, HandleMoves DEF MayUnload
  <1>12. ASSUME NEW a \in Actors, Timer(a) PROVE UnsavedEndHasCause'
    <2>1. MayUnload(a) /\ UNCHANGED displaced
      BY <1>12, TimerMoves
    <2> SUFFICES ASSUME NEW b \in Actors, state'[b] = "dead", dirty'[b] \/ storing'[b]
                 PROVE  b \in failed' \cup displaced'
      BY DEF UnsavedEndHasCause
    <2>2. /\ b # a /\ state[b] = "dead" /\ dirty'[b] = dirty[b] /\ storing'[b] = storing[b]
          /\ b \in failed => b \in failed'
      BY <2>1 DEF MayUnload
    <2> QED
      BY <2>1, <2>2 DEF UnsavedEndHasCause
  <1>13. ASSUME NEW a \in Actors, Leave(a) PROVE UnsavedEndHasCause'
    BY <1>13 DEF Leave, RemoveEntry, caller, updates, unloads
  <1>14. ASSUME NEW a \in Actors, Exit(a) PROVE UnsavedEndHasCause'
    BY <1>14 DEF Exit, Die, history, entry, updates, unloads
  <1>15. ASSUME NEW a \in Actors, ChannelClosed(a) PROVE UnsavedEndHasCause'
    BY <1>15 DEF ChannelClosed, Die, history, entry, updates, unloads
  <1>16. ASSUME NEW a \in Actors, Abort(a) PROVE UnsavedEndHasCause'
    BY <1>16 DEF Abort, caller, entry, updates, unloads
  <1>17. ASSUME NEW a \in Actors, NEW s \in Sockets, Drop(a, s) PROVE UnsavedEndHasCause'
    BY <1>17 DEF Drop, caller, entry, updates, unloads
  <1>18. CASE UNCHANGED vars
    BY <1>18 DEF vars, caller, actor, history, entry, updates, unloads
  <1>19. ASSUME NEW a \in Actors, NEW ok \in BOOLEAN, StoreResult(a, ok)
         PROVE  UnsavedEndHasCause'
    BY <1>19, ResultMoves DEF MayUnload
  <1> QED
    BY <1>1, <1>2, <1>3, <1>4, <1>5, <1>6, <1>7, <1>8, <1>9, <1>10,
       <1>11, <1>12, <1>13, <1>14, <1>15, <1>16, <1>17, <1>18, <1>19
       DEF Next, CallerStep, ActorStep

\* The answer to a direct_apply comes from the actor it has sent its update to, or
\* from that actor's end.
LEMMA AnswersStep ==
    ASSUME TypeOK, HandlesHeld, Unspawned, Pending, Answers, OkUnlessUnloaded, [Next]_vars
    PROVE  Answers' /\ OkUnlessUnloaded'
  <1> USE DEF TypeOK, HandlesHeld, Holding, Unspawned, Answers, OkUnlessUnloaded, Callers
  <1>1. ASSUME NEW c \in Callers, Lookup(c) PROVE Answers' /\ OkUnlessUnloaded'
    BY <1>1 DEF Lookup, actor, history, entry, updates, unloads
  <1>2. ASSUME NEW c \in Callers, Entry(c) PROVE Answers' /\ OkUnlessUnloaded'
    BY <1>2 DEF Entry, actor, history, entry, updates, unloads
  <1>3. ASSUME NEW c \in Callers, Acquire(c) PROVE Answers' /\ OkUnlessUnloaded'
    BY <1>3 DEF Acquire, actor, history, entry, updates, unloads
  <1>4. ASSUME NEW c \in Callers, Spawn(c) PROVE Answers' /\ OkUnlessUnloaded'
    BY <1>4 DEF Spawn, history, entry, updates, unloads
  <1>5. ASSUME NEW c \in Callers, Insert(c) PROVE Answers' /\ OkUnlessUnloaded'
    BY <1>5 DEF Insert, actor, updates, unloads
  <1>6. ASSUME NEW c \in Callers, Uncreate(c) PROVE Answers' /\ OkUnlessUnloaded'
    BY <1>6 DEF Uncreate, actor, history, entry, updates, unloads
  <1>7. ASSUME NEW c \in Callers, Send(c) PROVE Answers' /\ OkUnlessUnloaded'
    <2>1. pc[c] = "send" /\ handle[c] \in Actors
      BY <1>7 DEF Send, TypeOK, HandlesHeld, Holding
    <2>2. \A d \in Appliers \ {c} : pc'[d] = pc[d] /\ handle'[d] = handle[d] /\ sent'[d] = sent[d]
      BY <1>7 DEF TypeOK, Send, NextAttempt, Callers
    <2>3. c \in Appliers => \/ pc'[c] = "await" /\ handle'[c] = handle[c] /\ sent'[c] = handle[c]
                            \/ pc'[c] = "returned_err"
      BY <1>7, RegistryAssumption DEF TypeOK, Send, NextAttempt, Callers
    <2>4. UNCHANGED <<state, applied, rejected>>
      BY <1>7 DEF Send
    <2>5. ASSUME NEW d \in Appliers
          PROVE  /\ pc'[d] \in {"await", "acked", "nacked"} => sent'[d] = handle'[d]
                 /\ pc'[d] \in {"await", "acked", "nacked", "returned_ok"} => sent'[d] \in Actors
                 /\ pc'[d] = "acked" => d \in applied' \cup rejected'
                 /\ pc'[d] = "nacked" => state'[sent'[d]] = "dead"
                 /\ pc'[d] = "returned_ok" =>
                        d \in applied' \cup rejected' \/ state'[sent'[d]] = "dead"
      <3>1. CASE d = c
        BY <2>1, <2>3, <3>1
      <3>2. CASE d # c
        BY <2>2, <2>4, <3>2 DEF Answers, OkUnlessUnloaded
      <3> QED
        BY <3>1, <3>2
    <2> QED
      BY <2>5 DEF Answers, OkUnlessUnloaded
  <1>8. ASSUME NEW c \in Callers, Registered(c) PROVE Answers' /\ OkUnlessUnloaded'
    BY <1>8 DEF Registered, RemoveEntry, NextAttempt, actor, entry, updates, unloads
  <1>9. ASSUME NEW c \in Callers, ApplyReturns(c) PROVE Answers' /\ OkUnlessUnloaded'
    BY <1>9 DEF ApplyReturns, actor, history, entry, updates, unloads
  <1>10. ASSUME NEW s \in Sockets, Close(s) PROVE Answers' /\ OkUnlessUnloaded'
    BY <1>10 DEF Close, history, entry, updates, unloads
  <1>11. ASSUME NEW a \in Actors, Handle(a) PROVE Answers' /\ OkUnlessUnloaded'
    BY <1>11, HandleMoves DEF Answers, OkUnlessUnloaded, Callers, MayUnload
  <1>12. ASSUME NEW a \in Actors, Timer(a) PROVE Answers' /\ OkUnlessUnloaded'
    BY <1>12, TimerMoves DEF MayUnload
  <1>13. ASSUME NEW a \in Actors, Leave(a) PROVE Answers' /\ OkUnlessUnloaded'
    BY <1>13 DEF Leave, RemoveEntry, caller, updates, unloads
  <1>14. ASSUME NEW a \in Actors, Exit(a) PROVE Answers' /\ OkUnlessUnloaded'
    BY <1>14 DEF Exit, Die, history, entry, updates, unloads
  <1>15. ASSUME NEW a \in Actors, ChannelClosed(a) PROVE Answers' /\ OkUnlessUnloaded'
    BY <1>15 DEF ChannelClosed, Die, history, entry, updates, unloads
  <1>16. ASSUME NEW a \in Actors, Abort(a) PROVE Answers' /\ OkUnlessUnloaded'
    BY <1>16 DEF Abort, caller, entry, updates, unloads
  <1>17. ASSUME NEW a \in Actors, NEW s \in Sockets, Drop(a, s) PROVE Answers' /\ OkUnlessUnloaded'
    BY <1>17 DEF Drop, caller, entry, updates, unloads
  <1>18. CASE UNCHANGED vars
    BY <1>18 DEF vars, caller, actor, history, entry, updates, unloads
  <1>19. ASSUME NEW a \in Actors, NEW ok \in BOOLEAN, StoreResult(a, ok)
         PROVE  Answers' /\ OkUnlessUnloaded'
    BY <1>19, ResultMoves DEF MayUnload
  <1> QED
    BY <1>1, <1>2, <1>3, <1>4, <1>5, <1>6, <1>7, <1>8, <1>9, <1>10,
       <1>11, <1>12, <1>13, <1>14, <1>15, <1>16, <1>17, <1>18, <1>19
       DEF Next, CallerStep, ActorStep

\* A lock that is held is not acquired.
LEMMA LocksStep ==
    ASSUME TypeOK, LocksExclusive, Pending, [Next]_vars
    PROVE  LocksExclusive'
  <1> USE DEF TypeOK, LocksExclusive, Critical, Held
  <1>1. ASSUME NEW c \in Callers, Lookup(c) PROVE LocksExclusive'
    BY <1>1 DEF Lookup, actor, history, entry, updates, unloads
  <1>2. ASSUME NEW c \in Callers, Entry(c) PROVE LocksExclusive'
    BY <1>2 DEF Entry, actor, history, entry, updates, unloads
  <1>3. ASSUME NEW c \in Callers, Acquire(c) PROVE LocksExclusive'
    BY <1>3 DEF Acquire, actor, history, entry, updates, unloads
  <1>4. ASSUME NEW c \in Callers, Spawn(c) PROVE LocksExclusive'
    BY <1>4 DEF Spawn, history, entry, updates, unloads
  <1>5. ASSUME NEW c \in Callers, Insert(c) PROVE LocksExclusive'
    BY <1>5 DEF Insert, actor, updates, unloads
  <1>6. ASSUME NEW c \in Callers, Uncreate(c) PROVE LocksExclusive'
    BY <1>6 DEF Uncreate, actor, history, entry, updates, unloads
  <1>7. ASSUME NEW c \in Callers, Send(c) PROVE LocksExclusive'
    BY <1>7 DEF Send, RemoveEntry, NextAttempt, entry, updates, unloads
  <1>8. ASSUME NEW c \in Callers, Registered(c) PROVE LocksExclusive'
    BY <1>8 DEF Registered, RemoveEntry, NextAttempt, actor, entry, updates, unloads
  <1>9. ASSUME NEW c \in Callers, ApplyReturns(c) PROVE LocksExclusive'
    BY <1>9 DEF ApplyReturns, actor, history, entry, updates, unloads
  <1>10. ASSUME NEW s \in Sockets, Close(s) PROVE LocksExclusive'
    BY <1>10 DEF Close, history, entry, updates, unloads, Callers
  <1>11. ASSUME NEW a \in Actors, Handle(a) PROVE LocksExclusive'
    <2>1. /\ \A d \in Callers : pc'[d] = pc[d] \/ (pc[d] = "await" /\ pc'[d] = "acked")
          /\ UNCHANGED lock
      BY <1>11, HandleMoves
    <2> QED
      BY <2>1 DEF LocksExclusive, Critical
  <1>12. ASSUME NEW a \in Actors, Timer(a) PROVE LocksExclusive'
    BY <1>12, TimerMoves DEF MayUnload
  <1>13. ASSUME NEW a \in Actors, Leave(a) PROVE LocksExclusive'
    BY <1>13 DEF Leave, RemoveEntry, caller, updates, unloads
  <1>14. ASSUME NEW a \in Actors, Exit(a) PROVE LocksExclusive'
    BY <1>14 DEF Exit, Die, history, entry, updates, unloads
  <1>15. ASSUME NEW a \in Actors, ChannelClosed(a) PROVE LocksExclusive'
    BY <1>15 DEF ChannelClosed, Die, history, entry, updates, unloads
  <1>16. ASSUME NEW a \in Actors, Abort(a) PROVE LocksExclusive'
    BY <1>16 DEF Abort, caller, entry, updates, unloads
  <1>17. ASSUME NEW a \in Actors, NEW s \in Sockets, Drop(a, s) PROVE LocksExclusive'
    BY <1>17 DEF Drop, caller, entry, updates, unloads
  <1>18. CASE UNCHANGED vars
    BY <1>18 DEF vars, caller, actor, history, entry, updates, unloads
  <1>19. ASSUME NEW a \in Actors, NEW ok \in BOOLEAN, StoreResult(a, ok)
         PROVE  LocksExclusive'
    BY <1>19, ResultMoves DEF MayUnload
  <1> QED
    BY <1>1, <1>2, <1>3, <1>4, <1>5, <1>6, <1>7, <1>8, <1>9, <1>10,
       <1>11, <1>12, <1>13, <1>14, <1>15, <1>16, <1>17, <1>18, <1>19
       DEF Next, CallerStep, ActorStep

\* The second look under the lock finds the entry of whoever held it before.
LEMMA FirstStep ==
    ASSUME TypeOK, HandlesHeld, Unspawned, FreshActor, Pending, LocksExclusive, FirstCreation,
           [Next]_vars
    PROVE  FirstCreation'
  <1> USE DEF TypeOK, FirstCreation
  <1>1. ASSUME NEW c \in Callers, Lookup(c) PROVE FirstCreation'
    BY <1>1 DEF Lookup, actor, history, entry, updates, unloads
  <1>2. ASSUME NEW c \in Callers, Entry(c) PROVE FirstCreation'
    <2>1. /\ creating' = IF creating = None THEN <<c, attempt[c]>> ELSE creating
          /\ pc' = [pc EXCEPT ![c] = "lock"] /\ lock' = [lock EXCEPT ![c] = creating']
          /\ pc[c] = "entry" /\ UNCHANGED <<documents, spawned, removed>>
      BY <1>2 DEF Entry, actor, history, entry, updates, unloads
    <2>2. creating' # None
      <3>1. <<c, attempt[c]>> \in Locks
        BY DEF TypeOK, Locks
      <3> QED
        BY <2>1, <3>1, RegistryAssumption
    <2>3. ASSUME ~removed, documents = None
          PROVE  \A d \in Callers : pc[d] \in {"lock", "spawn", "insert"} => lock[d] = creating'
      BY <2>1, <2>3 DEF FirstCreation
    <2>4. \A d \in Callers \ {c} : pc'[d] = pc[d] /\ lock'[d] = lock[d]
      BY <2>1 DEF TypeOK
    <2>5. pc'[c] = "lock" /\ lock'[c] = creating'
      BY <2>1 DEF TypeOK
    <2> QED
      BY <2>1, <2>2, <2>3, <2>4, <2>5 DEF FirstCreation
  <1>3. ASSUME NEW c \in Callers, Acquire(c) PROVE FirstCreation'
    BY <1>3 DEF Acquire, actor, history, entry, updates, unloads
  <1>4. ASSUME NEW c \in Callers, Spawn(c) PROVE FirstCreation'
    <2>1. /\ pc[c] = "spawn" /\ pc' = [pc EXCEPT ![c] = "insert"] /\ spawned' = spawned + 1
          /\ UNCHANGED <<documents, creating, lock, removed>>
      BY <1>4 DEF Spawn, history, entry, updates, unloads
    <2>2. ~removed => documents = None /\ spawned = 0
      BY <2>1 DEF FirstCreation, LocksExclusive, Critical
    <2> QED
      BY <2>1, <2>2 DEF TypeOK, FirstCreation
  <1>5. ASSUME NEW c \in Callers, Insert(c) PROVE FirstCreation'
    <2>1. /\ pc[c] = "insert" /\ pc' = [pc EXCEPT ![c] = "uncreate"] /\ documents' = handle[c]
          /\ UNCHANGED <<creating, lock, spawned, removed>>
      BY <1>5 DEF Insert, actor, updates, unloads
    <2>2. documents' # None
      BY <2>1 DEF HandlesHeld, Holding
    <2>3. ~removed => documents = None
      BY <2>1 DEF FirstCreation
    <2>4. ~removed => \A d \in Callers \ {c} : pc[d] \notin {"spawn", "insert"}
      BY <2>1, <2>3 DEF FirstCreation, LocksExclusive, Critical
    <2>5. spawned # 0
      <3>1. handle[c] \in Actors /\ state[handle[c]] # "free"
        BY <2>1 DEF TypeOK, HandlesHeld, Holding, FreshActor
      <3>2. ~(handle[c] > spawned)
        BY <3>1 DEF Unspawned
      <3> QED
        BY <3>1, <3>2 DEF Actors
    <2> QED
      BY <2>1, <2>2, <2>3, <2>4, <2>5 DEF TypeOK, FirstCreation
  <1>6. ASSUME NEW c \in Callers, Uncreate(c) PROVE FirstCreation'
    BY <1>6 DEF Uncreate, actor, history, entry, updates, unloads
  <1>7. ASSUME NEW c \in Callers, Send(c) PROVE FirstCreation'
    BY <1>7 DEF Send, RemoveEntry, NextAttempt, entry, updates, unloads
  <1>8. ASSUME NEW c \in Callers, Registered(c) PROVE FirstCreation'
    BY <1>8 DEF Registered, RemoveEntry, NextAttempt, actor, entry, updates, unloads
  <1>9. ASSUME NEW c \in Callers, ApplyReturns(c) PROVE FirstCreation'
    BY <1>9 DEF ApplyReturns, actor, history, entry, updates, unloads
  <1>10. ASSUME NEW s \in Sockets, Close(s) PROVE FirstCreation'
    BY <1>10 DEF Close, history, entry, updates, unloads, Callers
  <1>11. ASSUME NEW a \in Actors, Handle(a) PROVE FirstCreation'
    <2>1. /\ \A d \in Callers : pc'[d] = pc[d] \/ (pc[d] = "await" /\ pc'[d] = "acked")
          /\ UNCHANGED <<documents, creating, lock, spawned, removed>>
      BY <1>11, HandleMoves
    <2> QED
      BY <2>1 DEF FirstCreation
  <1>12. ASSUME NEW a \in Actors, Timer(a) PROVE FirstCreation'
    BY <1>12, TimerMoves DEF MayUnload
  <1>13. ASSUME NEW a \in Actors, Leave(a) PROVE FirstCreation'
    BY <1>13 DEF Leave, RemoveEntry, caller, updates, unloads
  <1>14. ASSUME NEW a \in Actors, Exit(a) PROVE FirstCreation'
    BY <1>14 DEF Exit, Die, history, entry, updates, unloads
  <1>15. ASSUME NEW a \in Actors, ChannelClosed(a) PROVE FirstCreation'
    BY <1>15 DEF ChannelClosed, Die, history, entry, updates, unloads
  <1>16. ASSUME NEW a \in Actors, Abort(a) PROVE FirstCreation'
    BY <1>16 DEF Abort, caller, entry, updates, unloads
  <1>17. ASSUME NEW a \in Actors, NEW s \in Sockets, Drop(a, s) PROVE FirstCreation'
    BY <1>17 DEF Drop, caller, entry, updates, unloads
  <1>18. CASE UNCHANGED vars
    BY <1>18 DEF vars, caller, actor, history, entry, updates, unloads
  <1>19. ASSUME NEW a \in Actors, NEW ok \in BOOLEAN, StoreResult(a, ok)
         PROVE  FirstCreation'
    BY <1>19, ResultMoves DEF MayUnload
  <1> QED
    BY <1>1, <1>2, <1>3, <1>4, <1>5, <1>6, <1>7, <1>8, <1>9, <1>10,
       <1>11, <1>12, <1>13, <1>14, <1>15, <1>16, <1>17, <1>18, <1>19
       DEF Next, CallerStep, ActorStep

-----------------------------------------------------------------------------
(* The theorems. *)

\* The first state.
LEMMA InitIInv == Init => IInv
  <1> SUFFICES ASSUME Init PROVE IInv
    OBVIOUS
  <1>1. TypeOK
    <2>1. << >> \in Seq(Commands)
      OBVIOUS
    <2> QED
      <3>1. 0 \in 0..MaxActors /\ 1 \in Attempts /\ "lookup" \in PCs /\ "free" \in States
        BY RegistryAssumption DEF Attempts, PCs, States
      <3> QED
        BY <2>1, <3>1 DEF Init, TypeOK
  <1>2. HandlesHeld /\ Unspawned /\ FreshActor /\ RegistryNeverStale
    BY RegistryAssumption
       DEF Init, HandlesHeld, Holding, Unspawned, FreshActor, RegistryNeverStale, Actors
  <1>3. \A a \in Actors : Len(mailbox[a]) = 0
    BY DEF Init
  <1>4. Pending /\ PendingOnce
    BY <1>3 DEF Pending, PendingOnce
  <1>5. EstablishedIsServed /\ Saved /\ Entered /\ UnsavedEndHasCause
    BY DEF Init, EstablishedIsServed, Saved, Entered, UnsavedEndHasCause, Live, Callers
  <1>6. Answers /\ OkUnlessUnloaded /\ LocksExclusive /\ FirstCreation
    BY DEF Init, Answers, OkUnlessUnloaded, LocksExclusive, Critical, FirstCreation, Callers
  <1> QED
    BY <1>1, <1>2, <1>4, <1>5, <1>6 DEF IInv

\* Every step.
LEMMA NextIInv == IInv /\ [Next]_vars => IInv'
  <1> SUFFICES ASSUME IInv, [Next]_vars PROVE IInv'
    OBVIOUS
  <1>1. TypeOK' /\ HandlesHeld' /\ Unspawned' /\ FreshActor' /\ RegistryNeverStale'
    BY TypesStep, HandlesStep, UnspawnedStep, FreshStep, StaleStep DEF IInv
  <1>2. Pending' /\ PendingOnce' /\ EstablishedIsServed'
    BY PendingStep, OnceStep, ServedStep DEF IInv
  <1>3. Saved' /\ Entered' /\ UnsavedEndHasCause'
    BY SavedStep, EnteredStep, UnsavedStep DEF IInv
  <1>4. Answers' /\ OkUnlessUnloaded' /\ LocksExclusive' /\ FirstCreation'
    BY AnswersStep, LocksStep, FirstStep DEF IInv
  <1> QED
    BY <1>1, <1>2, <1>3, <1>4 DEF IInv

\* The inductive invariant holds in every reachable state.
THEOREM RegistryInvariant == Spec => []IInv
  BY InitIInv, NextIInv, PTL DEF Spec

\* Every variable keeps its type; register_connection makes at most two attempts.
THEOREM RegistryTypes == Spec => []TypeOK
  <1>1. IInv => TypeOK
    BY DEF IInv
  <1> QED
    BY <1>1, RegistryInvariant, PTL

\* ServerShared::document never returns the handle of an actor that has left, so
\* that what register_connection removes as stale never is.
THEOREM NeverStale == Spec => []RegistryNeverStale
  <1>1. IInv => RegistryNeverStale
    BY DEF IInv
  <1> QED
    BY <1>1, RegistryInvariant, PTL

\* A socket that register_connection has told of success is registered with a
\* running actor, until it closes or the actor drops it.
THEOREM RegisteredIsServed == Spec => []EstablishedIsServed
  <1>1. IInv => EstablishedIsServed
    BY DEF IInv
  <1> QED
    BY <1>1, RegistryInvariant, PTL

\* The second look under the creating lock: as long as no entry was removed, one
\* caller at most spawns an actor.
THEOREM LoadedOnce == Spec => []SpawnOnce
  <1>1. IInv => SpawnOnce
    <2> SUFFICES ASSUME IInv, ~removed
                 PROVE  Cardinality({c \in Callers : pc[c] = "spawn"}) + spawned <= 1
      BY DEF SpawnOnce
    <2> DEFINE Spawning == {c \in Callers : pc[c] = "spawn"}
    <2>1. CASE Spawning = {}
      <3>1. Cardinality(Spawning) = 0
        BY <2>1, FS_EmptySet
      <3>2. spawned \in {0, 1}
        BY DEF IInv, FirstCreation
      <3> QED
        BY <3>1, <3>2
    <2>2. CASE Spawning # {}
      <3>1. PICK c \in Callers : pc[c] = "spawn"
        BY <2>2
      <3>2. documents = None /\ spawned = 0
        BY <3>1 DEF IInv, FirstCreation, LocksExclusive, Critical
      <3>3. Spawning = {c}
        BY <3>1, <3>2 DEF IInv, FirstCreation, LocksExclusive, Critical
      <3>4. Cardinality(Spawning) = 1
        BY <3>3, FS_Singleton
      <3> QED
        BY <3>2, <3>4
    <2> QED
      BY <2>1, <2>2
  <1> QED
    BY <1>1, RegistryInvariant, PTL

\* direct_apply answers Ok after the actor it has sent its update to has applied or
\* rejected it, or when that very actor has ended without having handled it.
THEOREM AppliedUnlessUnloaded == Spec => []OkUnlessUnloaded
  <1>1. IInv => OkUnlessUnloaded
    BY DEF IInv
  <1> QED
    BY <1>1, RegistryInvariant, PTL

\* run ends with edits that were not stored, or with a store under way, only when the
\* store of maybe_unload has failed or another task has taken the actor's registry
\* entry.
THEOREM UnsavedEndExplained == Spec => []UnsavedEndHasCause
  <1>1. IInv => UnsavedEndHasCause
    BY DEF IInv
  <1> QED
    BY <1>1, RegistryInvariant, PTL
=============================================================================
