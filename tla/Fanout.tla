-------------------------------- MODULE Fanout --------------------------------
(***************************************************************************)
(* How one document actor keeps its clients in sync (document.rs: the      *)
(* batches of run, handle_command, handle_client_frame, handle_sync,       *)
(* handle_external_sync, apply_and_broadcast, flush_broadcast,             *)
(* broadcast_with, evict_lagging, ConnHandle::send_frame).                 *)
(*                                                                         *)
(* The commands already in the mailbox are drained into a batch; each      *)
(* update of it is applied on its own, and the batch ends with one merged  *)
(* broadcast of what changed since its first update.  Frames go into the   *)
(* bounded outbound queue of a connection, never waiting: a full queue     *)
(* drops the frame.  A client whose queue cannot take a broadcast is       *)
(* evicted.  Writers and clients move between any two steps of the actor.  *)
(*                                                                         *)
(* A document is the set of its edits and a state vector the set of the    *)
(* edits it covers.  The client follows the sync protocol: SyncStep1 when  *)
(* it has joined, SyncStep2 in answer to the server's SyncStep1, one       *)
(* Update per edit.                                                        *)
(*                                                                         *)
(* The actor stays resident: that it unloads with its last connection is   *)
(* DocumentStore's and Registry's subject.                                 *)
(***************************************************************************)
EXTENDS Naturals, Sequences, FiniteSets, SequencesExt

CONSTANTS
    Clients,        \* the clients of the document, one connection at a time each
    ReadOnly,       \* the clients that authenticated read-only
    Edits,          \* the edits that clients and peers can make
    Author,         \* the client that makes an edit, None for a peer or direct_apply
    Capacity,       \* config.outbound_capacity
    MaxBatch,       \* MAX_COALESCE_BATCH
    HookMayReject,  \* may a before_handle_message hook reject an update?
    None

ASSUME FanoutAssumption ==
    /\ ReadOnly \subseteq Clients
    /\ Capacity \in Nat \ {0}
    /\ MaxBatch \in Nat \ {0}
    /\ HookMayReject \in BOOLEAN
    /\ None \notin Clients /\ \A S \in SUBSET Edits : S # None
    /\ Author \in [Edits -> Clients \cup {None}]

VARIABLES
    doc,            \* the edits of the actor's document
    replica,        \* the edits of each client's document
    link,           \* where each client's socket is in its life
    mailbox,        \* the commands waiting for the actor
    batch,          \* the drained commands it has not handled yet
    connections,    \* the registered connections
    outbound,       \* the outbound queue of each socket
    base,           \* broadcast_base: the state vector before the batch, or None
    lagging,        \* connections found full by a broadcast, not yet evicted
    answered,       \* history: connections whose SyncStep2 went into their queue
    caught_up       \* history: clients that sent up all they had and were not refused

server == <<doc, batch, connections, base, lagging>>
client == <<replica, link, caught_up>>
vars == <<doc, replica, link, mailbox, batch, connections, outbound, base, lagging,
          answered, caught_up>>

Command(kind, c, es) == [kind |-> kind, from |-> c, edits |-> es]
Frame(kind, es) == [kind |-> kind, edits |-> es]

Links == {"off", "joining", "acked", "on"}
CommandKinds == {"add", "remove", "step1", "upload", "close", "peer"}
FrameKinds == {"step1", "step2", "update", "status", "close"}
Commands == [kind : CommandKinds, from : Clients \cup {None}, edits : SUBSET Edits]
Frames == [kind : FrameKinds, edits : SUBSET Edits]

-----------------------------------------------------------------------------
(* The outbound queues. *)

\* try_send on a queue that is full, whose writer is still there.
Full(c) == link[c] # "off" /\ Len(outbound[c]) = Capacity

\* Mutant of Pushed: the queue has no bound.
PushedUnbounded(c, fs) == IF link[c] = "off" THEN outbound[c] ELSE outbound[c] \o fs

\* The queue of c after try_send of these frames, one after the other: a full
\* queue drops what does not fit, a closed one everything.
Pushed(c, fs) ==
    IF link[c] = "off" THEN outbound[c]
    ELSE LET room == Capacity - Len(outbound[c]) IN
         outbound[c] \o SubSeq(fs, 1, IF Len(fs) < room THEN Len(fs) ELSE room)

\* Replies to one connection ignore what send_frame returns.
Reply(c, fs) == outbound' = [outbound EXCEPT ![c] = Pushed(c, fs)]

-----------------------------------------------------------------------------
(* The actor. *)

\* The commands already queued become a batch.  A batch ends with its flush and
\* the evictions before the next one is drained.
Drain ==
    /\ batch = << >> /\ base = None /\ lagging = {}
    /\ mailbox # << >>
    /\ LET n == IF Len(mailbox) < MaxBatch THEN Len(mailbox) ELSE MaxBatch IN
       /\ batch' = SubSeq(mailbox, 1, n)
       /\ mailbox' = SubSeq(mailbox, n + 1, Len(mailbox))
    /\ UNCHANGED <<doc, client, connections, outbound, base, lagging, answered>>

\* Mutant of Apply: the merged diff starts after the first update of the batch.
ApplyBaseTooLate(es) ==
    /\ doc' = doc \cup es
    /\ base' = IF base = None THEN doc' ELSE base

\* apply_and_broadcast.  The fan-out waits for the flush; an update that brings
\* nothing new is broadcast like any other.
Apply(es) ==
    /\ doc' = doc \cup es
    /\ base' = IF base = None THEN doc ELSE base

\* The next command of the batch.
Take(kind, m) ==
    /\ batch # << >>
    /\ m = Head(batch)
    /\ m.kind = kind
    /\ batch' = Tail(batch)
    /\ UNCHANGED <<mailbox, lagging, replica>>

AddConnection(m) ==
    /\ Take("add", m)
    /\ connections' = connections \cup {m.from}
    /\ link' = [link EXCEPT ![m.from] = "acked"]
    /\ UNCHANGED <<doc, outbound, base, answered, caught_up>>

RemoveConnection(m) ==
    /\ Take("remove", m)
    /\ connections' = connections \ {m.from}
    /\ answered' = answered \ {m.from}
    /\ UNCHANGED <<doc, link, outbound, base, caught_up>>

\* A frame of a connection that is not registered any more is ignored.
IgnoreFrame(m) ==
    /\ \E kind \in {"step1", "upload", "close"} : Take(kind, m)
    /\ m.from \notin connections
    /\ UNCHANGED <<doc, link, connections, outbound, base, answered, caught_up>>

\* Mutant of HandleStep1: the server claims to have what the client told it about.
HandleStep1ClaimsAll(m) ==
    /\ Take("step1", m)
    /\ m.from \in connections
    /\ Reply(m.from, << Frame("step2", doc \ m.edits), Frame("step1", doc \cup m.edits) >>)
    /\ answered' = IF Full(m.from) \/ link[m.from] = "off" THEN answered
                   ELSE answered \cup {m.from}
    /\ UNCHANGED <<doc, link, connections, base, caught_up>>

\* SyncStep1 of a client: what it lacks, and the server's own SyncStep1.
HandleStep1(m) ==
    /\ Take("step1", m)
    /\ m.from \in connections
    /\ Reply(m.from, << Frame("step2", doc \ m.edits), Frame("step1", doc) >>)
    /\ answered' = IF Full(m.from) \/ link[m.from] = "off" THEN answered
                   ELSE answered \cup {m.from}
    /\ UNCHANGED <<doc, link, connections, base, caught_up>>

\* SyncStep2 or Update of a client that may write.
HandleUpload(m) ==
    /\ Take("upload", m)
    /\ m.from \in connections \ ReadOnly
    /\ Apply(m.edits)
    /\ Reply(m.from, << Frame("status", {}) >>)
    /\ UNCHANGED <<link, connections, answered, caught_up>>

\* ... of one that may not: the answer is a negative sync status.
RefuseReadOnly(m) ==
    /\ Take("upload", m)
    /\ m.from \in connections \cap ReadOnly
    /\ Reply(m.from, << Frame("status", {}) >>)
    /\ UNCHANGED <<doc, link, connections, base, answered, caught_up>>

\* ... that a before_handle_message hook rejects: the client is told to close and
\* stays registered.
RejectUpload(m) ==
    /\ HookMayReject
    /\ Take("upload", m)
    /\ m.from \in connections \ ReadOnly
    /\ outbound' = [outbound EXCEPT ![m.from] = Pushed(m.from, << Frame("close", {}) >>)]
    /\ caught_up' = caught_up \ {m.from}
    /\ UNCHANGED <<doc, link, connections, base, answered>>

\* close_connection, on the client's Close frame.
CloseConnection(m) ==
    /\ Take("close", m)
    /\ m.from \in connections
    /\ connections' = connections \ {m.from}
    /\ outbound' = [outbound EXCEPT ![m.from] = Pushed(m.from, << Frame("close", {}) >>)]
    /\ answered' = answered \ {m.from}
    /\ UNCHANGED <<doc, link, base, caught_up>>

\* An update of a peer node or of direct_apply.
HandlePeer(m) ==
    /\ Take("peer", m)
    /\ Apply(m.edits)
    /\ UNCHANGED <<link, connections, outbound, answered, caught_up>>

\* flush_broadcast and broadcast_with: one merged update for every connection.
Flush ==
    /\ batch = << >> /\ base # None
    /\ base' = None
    /\ outbound' = [c \in Clients |->
                      IF c \in connections THEN Pushed(c, << Frame("update", doc \ base) >>)
                      ELSE outbound[c]]
    /\ lagging' = {c \in connections : Full(c)}
    /\ UNCHANGED <<doc, client, mailbox, batch, connections, answered>>

\* evict_lagging: the close frame is lost as well unless the writer has made room.
Evict(c) ==
    /\ c \in lagging
    /\ lagging' = lagging \ {c}
    /\ connections' = connections \ {c}
    /\ outbound' = [outbound EXCEPT ![c] = Pushed(c, << Frame("close", {}) >>)]
    /\ answered' = answered \ {c}
    /\ UNCHANGED <<doc, client, mailbox, batch, base>>

-----------------------------------------------------------------------------
(* Sockets, clients and peers. *)

\* A client authenticates; the server registers its connection.  Connection ids
\* are never reused, so the remains of an earlier connection cannot be mistaken
\* for this one: it waits until they are gone.
Join(c) ==
    /\ link[c] = "off"
    /\ c \notin connections
    /\ \A m \in Range(mailbox \o batch) : m.from # c
    /\ link' = [link EXCEPT ![c] = "joining"]
    /\ mailbox' = Append(mailbox, Command("add", c, {}))
    /\ UNCHANGED <<server, replica, caught_up, outbound, answered>>

StartSync(c) ==
    /\ link[c] = "acked"
    /\ link' = [link EXCEPT ![c] = "on"]
    /\ mailbox' = Append(mailbox, Command("step1", c, replica[c]))
    /\ UNCHANGED <<server, replica, caught_up, outbound, answered>>

Unmade(e) ==
    /\ e \notin doc \cup UNION {replica[c] : c \in Clients}
    /\ \A m \in Range(mailbox \o batch) : e \notin m.edits

\* A new edit of a client, sent when it is connected.
Edit(e) ==
    /\ Unmade(e) /\ Author[e] # None
    /\ LET c == Author[e] IN
       /\ replica' = [replica EXCEPT ![c] = @ \cup {e}]
       /\ mailbox' = IF link[c] = "on" THEN Append(mailbox, Command("upload", c, {e}))
                     ELSE mailbox
    /\ UNCHANGED <<server, link, caught_up, outbound, answered>>

PeerEdit(e) ==
    /\ Unmade(e) /\ Author[e] = None
    /\ mailbox' = Append(mailbox, Command("peer", None, {e}))
    /\ UNCHANGED <<server, client, outbound, answered>>

\* The socket of c ends after these last frames; cleanup sends RemoveConnection.
HangUp(c, last) ==
    /\ link' = [link EXCEPT ![c] = "off"]
    /\ outbound' = [outbound EXCEPT ![c] = << >>]
    /\ mailbox' = mailbox \o Append(last, Command("remove", c, {}))
    /\ caught_up' = caught_up \ {c}
    /\ UNCHANGED <<server, replica, answered>>

\* The connection breaks, or the provider announces with a Close frame that it leaves.
Disconnect(c) ==
    /\ link[c] \in {"acked", "on"}
    /\ \/ HangUp(c, << >>)
       \/ HangUp(c, << Command("close", c, {}) >>)

\* The writer task sends the next frame and the client handles it.
Deliver(c) ==
    /\ link[c] \in {"acked", "on"}
    /\ outbound[c] # << >>
    /\ LET f == Head(outbound[c]) IN
       \/ /\ f.kind = "close"
          /\ HangUp(c, << >>)
       \/ /\ f.kind \in {"step2", "update", "status"}
          /\ replica' = [replica EXCEPT ![c] = @ \cup f.edits]
          /\ outbound' = [outbound EXCEPT ![c] = Tail(@)]
          /\ UNCHANGED <<server, link, mailbox, answered, caught_up>>
       \/ /\ f.kind = "step1"
          /\ outbound' = [outbound EXCEPT ![c] = Tail(@)]
          /\ mailbox' = Append(mailbox, Command("upload", c, replica[c] \ f.edits))
          /\ caught_up' = caught_up \cup {c}
          /\ UNCHANGED <<server, replica, link, answered>>

-----------------------------------------------------------------------------

Init ==
    /\ doc = {} /\ replica = [c \in Clients |-> {}]
    /\ link = [c \in Clients |-> "off"]
    /\ mailbox = << >> /\ batch = << >>
    /\ connections = {} /\ outbound = [c \in Clients |-> << >>]
    /\ base = None /\ lagging = {}
    /\ answered = {} /\ caught_up = {}

HandleCommand(m) ==
    \/ AddConnection(m) \/ RemoveConnection(m) \/ IgnoreFrame(m) \/ HandleStep1(m)
    \/ HandleUpload(m) \/ RefuseReadOnly(m) \/ RejectUpload(m) \/ CloseConnection(m)
    \/ HandlePeer(m)

ActorStep ==
    \/ Drain
    \/ \E m \in Range(batch) : HandleCommand(m)
    \/ Flush
    \/ \E c \in lagging : Evict(c)

Next ==
    \/ ActorStep
    \/ \E c \in Clients : Join(c) \/ StartSync(c) \/ Disconnect(c) \/ Deliver(c)
    \/ \E e \in Edits : Edit(e) \/ PeerEdit(e)

Spec == Init /\ [][Next]_vars

-----------------------------------------------------------------------------
(* Properties. *)

\* Every variable keeps its type; queues stay within their capacity.
TypeOK ==
    /\ doc \subseteq Edits
    /\ replica \in [Clients -> SUBSET Edits]
    /\ link \in [Clients -> Links]
    /\ mailbox \in Seq(Commands) /\ batch \in Seq(Commands)
    /\ connections \subseteq Clients /\ lagging \subseteq connections
    /\ \A c \in Clients : outbound[c] \in Seq(Frames) /\ Len(outbound[c]) <= Capacity
    /\ base \in (SUBSET Edits) \cup {None}
    /\ answered \subseteq connections
    /\ caught_up \subseteq Clients

\* The edits on their way to a client.
Downstream(c) ==
    (UNION {f.edits : f \in {g \in Range(outbound[c]) : g.kind \in {"step2", "update"}}})
        \cup (IF base = None THEN {} ELSE doc \ base)

\* The edits on their way from a client.
Upstream(c) ==
    UNION {m.edits : m \in {n \in Range(mailbox \o batch) : n.from = c /\ n.kind = "upload"}}

\* A connection whose SyncStep2 was sent misses nothing: what the document has
\* and the client lacks is in its queue or in the pending broadcast, through
\* coalesced batches, joins in the middle of one and full queues, until the
\* connection is found lagging.
NothingMissed ==
    \A c \in answered \ lagging :
        link[c] # "off" => doc \subseteq replica[c] \cup Downstream(c)

\* A client that may write and has answered the server's SyncStep1 has all its
\* edits in the document or on their way, as long as it is registered and no
\* hook rejected an update of it.
NothingStranded ==
    \A c \in (caught_up \cap connections) \ ReadOnly :
        replica[c] \subseteq doc \cup Upstream(c)
=============================================================================
