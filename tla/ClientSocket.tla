----------------------------- MODULE ClientSocket -----------------------------
(***************************************************************************)
(* One WebSocket of a node (server.rs: handle_socket, idle_deadline,       *)
(* terminate, handle_frame, enqueue, authenticate, deny, cleanup) between  *)
(* its client and the actors of the documents it addresses.                *)
(*                                                                         *)
(* The read loop handles one frame at a time; authenticating a document    *)
(* awaits hooks and the registration, and meanwhile neither frames nor the *)
(* deadline are looked at.  The writer task empties the bounded outbound   *)
(* queue, and the actors put frames into it and evict, at any time.        *)
(*                                                                         *)
(* A routing key stands for its document.  The frames of a key are         *)
(* numbered in the order the client sent them.  Frames that only reset the *)
(* idle timer (pings, frames that do not parse, a token for a document     *)
(* that is already established) are Ping.  Registration is Registry's      *)
(* subject: here it succeeds or fails.  Instants are ages, up to Timeout.  *)
(***************************************************************************)
EXTENDS Naturals, Sequences, FiniteSets, FiniteSetsExt, SequencesExt

CONSTANTS
    Keys,           \* the routing keys the client uses
    Sizes,          \* the sizes of a frame
    MaxSent,        \* bound on the frames sent for a key
    MaxMessages,    \* config.max_unauthenticated_queue_messages
    MaxBytes,       \* config.max_unauthenticated_queue_size
    DocumentLimits, \* the values of config.max_pending_documents to consider
    Capacity,       \* config.outbound_capacity
    Timeout,        \* config.timeout, in ticks
    None

ASSUME SocketAssumption ==
    /\ IsFiniteSet(Keys)
    /\ Sizes \subseteq Nat \ {0}
    /\ {MaxSent, MaxMessages, MaxBytes} \cup DocumentLimits \subseteq Nat
    /\ Capacity \in Nat \ {0}
    /\ Timeout \in Nat \ {0}
    /\ None \notin Keys

VARIABLES
    reader,         \* where the read loop is
    pending,        \* the key being authenticated, or None
    established,    \* the keys with a document handle
    authenticated,
    queue,          \* frames of each key that came before its authentication
    queued_messages,
    queued_bytes,
    opened_age,     \* age of established_at
    idle_age,       \* age of last_message_at
    outbound,       \* the outbound queue
    writer,         \* is the writer task running?
    registered,     \* the keys whose actor has this connection
    leaving,        \* the keys whose actor was sent RemoveConnection
    max_pending_documents,  \* the configuration, fixed at start
    told,           \* has the client received a Close?
    sent,           \* history: number of frames the client sent for each key
    refused,        \* history: the numbers of those that enqueue turned down
    delivered,      \* history: the numbers of those handed to the actor, in order
    granted         \* history: the keys whose hooks admitted the client

loop == <<reader, pending, established, authenticated>>
waiting == <<queue, queued_messages, queued_bytes, max_pending_documents>>
ages == <<opened_age, idle_age>>
output == <<outbound, writer, told>>
actors == <<registered, leaving>>
history == <<sent, refused, delivered, granted>>
vars == <<loop, waiting, ages, output, actors, history>>

Readers == {"reading", "hooks", "registering", "acked", "closing", "done"}
OutFrames == {"frame", "close"}

-----------------------------------------------------------------------------
(* The outbound queue and the writer task. *)

\* try_send of these frames, one after the other.
Pushed(fs) ==
    IF writer # "running" THEN outbound
    ELSE LET room == Capacity - Len(outbound) IN
         outbound \o SubSeq(fs, 1, IF Len(fs) < room THEN Len(fs) ELSE room)

Full == writer = "running" /\ Len(outbound) = Capacity

\* The writer sends the next frame; after a Close it ends and the queue is gone.
Write ==
    /\ writer = "running" /\ outbound # << >>
    /\ \/ /\ Head(outbound) = "frame"
          /\ outbound' = Tail(outbound)
          /\ UNCHANGED <<writer, told>>
       \/ /\ Head(outbound) = "close"
          /\ outbound' = << >>
          /\ writer' = "ended"
          /\ told' = TRUE
    /\ UNCHANGED <<loop, waiting, ages, actors, history>>

-----------------------------------------------------------------------------
(* Time. *)

Older(age) == IF age = Timeout THEN age ELSE age + 1

Tick ==
    /\ reader # "done"
    /\ opened_age' = Older(opened_age)
    /\ idle_age' = Older(idle_age)
    /\ ages' # ages
    /\ UNCHANGED <<loop, waiting, output, actors, history>>

\* Mutants of DeadlinePassed: the deadline slides from the start; it stops with
\* the first authentication.
DeadlinePassedSliding == idle_age >= Timeout

DeadlinePassedOnce == ~authenticated /\ opened_age >= Timeout

\* idle_deadline is over: fixed before the first authentication, sliding after it.
DeadlinePassed == (IF authenticated THEN idle_age ELSE opened_age) >= Timeout

-----------------------------------------------------------------------------
(* The frames of the client. *)

Ping ==
    /\ reader = "reading"
    /\ idle_age' = 0
    /\ UNCHANGED <<loop, waiting, opened_age, output, actors, history>>

\* The keys that have frames queued.
PendingDocuments == {k \in Keys : queue[k] # << >>}

\* Mutant of WithinLimits: the limits are compared before the frame is counted.
WithinLimitsBefore(k, size) ==
    /\ queue[k] = << >> => Cardinality(PendingDocuments) <= max_pending_documents
    /\ queued_messages <= MaxMessages
    /\ queued_bytes <= MaxBytes

WithinLimits(k, size) ==
    /\ queue[k] = << >> => Cardinality(PendingDocuments) + 1 <= max_pending_documents
    /\ queued_messages + 1 <= MaxMessages
    /\ queued_bytes + size <= MaxBytes

\* A frame that came before the document is established is kept, or the
\* connection is told to reset and the frame is dropped.
Enqueue(k, n, size) ==
    \/ /\ WithinLimits(k, size)
       /\ queue' = [queue EXCEPT ![k] = Append(@, [number |-> n, size |-> size])]
       /\ queued_messages' = queued_messages + 1
       /\ queued_bytes' = queued_bytes + size
       /\ UNCHANGED <<max_pending_documents, outbound, refused>>
    \/ /\ ~WithinLimits(k, size)
       /\ outbound' = Pushed(<< "close" >>)
       /\ refused' = [refused EXCEPT ![k] = @ \cup {n}]
       /\ UNCHANGED waiting

\* Mutant of Routed: any authentication opens every document.
RoutedAnywhere(k) == authenticated

\* established.get finds the document.
Routed(k) == k \in established

\* A frame for a document, other than Auth.
Data(k, size) ==
    /\ reader = "reading"
    /\ sent[k] < MaxSent
    /\ sent' = [sent EXCEPT ![k] = @ + 1]
    /\ idle_age' = 0
    /\ \/ /\ Routed(k)
          /\ delivered' = [delivered EXCEPT ![k] = Append(@, sent'[k])]
          /\ UNCHANGED <<waiting, outbound, refused>>
       \/ /\ ~Routed(k)
          /\ Enqueue(k, sent'[k], size)
          /\ UNCHANGED delivered
    /\ UNCHANGED <<loop, opened_age, writer, told, actors, granted>>

\* A token: the hooks on_connect and on_authenticate are asked.
Auth(k) ==
    /\ reader = "reading"
    /\ k \notin established
    /\ reader' = "hooks"
    /\ pending' = k
    /\ idle_age' = 0
    /\ UNCHANGED <<established, authenticated, waiting, opened_age, output, actors, history>>

\* A hook denies: the client gets the reason and a Close.
Deny ==
    /\ reader = "hooks"
    /\ reader' = "reading"
    /\ pending' = None
    /\ outbound' = Pushed(<< "frame", "close" >>)
    /\ UNCHANGED <<established, authenticated, waiting, ages, writer, told, actors, history>>

\* All hooks admit: the client is told, and the registration starts.
Admit ==
    /\ reader = "hooks"
    /\ reader' = "registering"
    /\ authenticated' = TRUE
    /\ granted' = granted \cup {pending}
    /\ outbound' = Pushed(<< "frame" >>)
    /\ UNCHANGED <<pending, established, waiting, ages, writer, told, actors,
                   sent, refused, delivered>>

\* register_connection gives up.
RegistrationFails ==
    /\ reader = "registering"
    /\ reader' = "reading"
    /\ pending' = None
    /\ outbound' = Pushed(<< "close" >>)
    /\ UNCHANGED <<established, authenticated, waiting, ages, writer, told, actors, history>>

Numbers(frames) == [i \in DOMAIN frames |-> frames[i].number]
Bytes(frames) == FoldLeft(LAMBDA sum, f : f.size + sum, 0, frames)
SaturatingSub(a, b) == IF a > b THEN a - b ELSE 0

\* Mutants of DrainQueue: the frames are dropped; their bytes stay accounted.
DrainQueueDropping(k) ==
    /\ queue' = [queue EXCEPT ![k] = << >>]
    /\ queued_messages' = SaturatingSub(queued_messages, Len(queue[k]))
    /\ queued_bytes' = SaturatingSub(queued_bytes, Bytes(queue[k]))
    /\ UNCHANGED delivered

DrainQueueUnaccounted(k) ==
    /\ queue' = [queue EXCEPT ![k] = << >>]
    /\ queued_messages' = SaturatingSub(queued_messages, Len(queue[k]))
    /\ delivered' = [delivered EXCEPT ![k] = @ \o Numbers(queue[k])]
    /\ UNCHANGED queued_bytes

\* What was queued for the key goes to its actor.
DrainQueue(k) ==
    /\ queue' = [queue EXCEPT ![k] = << >>]
    /\ queued_messages' = SaturatingSub(queued_messages, Len(queue[k]))
    /\ queued_bytes' = SaturatingSub(queued_bytes, Bytes(queue[k]))
    /\ delivered' = [delivered EXCEPT ![k] = @ \o Numbers(queue[k])]

\* The actor acknowledged the registration.
Establish ==
    /\ reader = "acked"
    /\ reader' = "reading"
    /\ pending' = None
    /\ established' = established \cup {pending}
    /\ DrainQueue(pending)
    /\ UNCHANGED <<authenticated, max_pending_documents, ages, output, actors, sent,
                   refused, granted>>

-----------------------------------------------------------------------------
(* The end of the socket. *)

\* Close or the end of the stream.
ClientCloses ==
    /\ reader = "reading"
    /\ reader' = "closing"
    /\ UNCHANGED <<pending, established, authenticated, waiting, ages, output, actors, history>>

\* Mutant of Deadline: it also interrupts an authentication.
DeadlineCancels ==
    /\ reader \notin {"closing", "done"}
    /\ DeadlinePassed
    /\ reader' = "closing"
    /\ outbound' = Pushed(<< "close" >>)
    /\ UNCHANGED <<pending, established, authenticated, waiting, ages, writer, told, actors, history>>

\* The deadline branch of the select.
Deadline ==
    /\ reader = "reading"
    /\ DeadlinePassed
    /\ reader' = "closing"
    /\ outbound' = Pushed(<< "close" >>)
    /\ UNCHANGED <<pending, established, authenticated, waiting, ages, writer, told, actors, history>>

\* cleanup, then writer.abort with whatever the writer has not sent.
Finish ==
    /\ reader = "closing"
    /\ reader' = "done"
    /\ leaving' = leaving \cup established
    /\ established' = {}
    /\ writer' = "ended"
    /\ outbound' = << >>
    /\ UNCHANGED <<pending, authenticated, waiting, ages, told, registered, history>>

-----------------------------------------------------------------------------
(* The actors of the documents. *)

AddConnection ==
    /\ reader = "registering"
    /\ reader' = "acked"
    /\ registered' = registered \cup {pending}
    /\ UNCHANGED <<pending, established, authenticated, waiting, ages, output, leaving, history>>

\* A broadcast of the document fits into the queue.
Broadcast(k) ==
    /\ k \in registered
    /\ ~Full
    /\ outbound' = Pushed(<< "frame" >>)
    /\ UNCHANGED <<loop, waiting, ages, writer, told, actors, history>>

\* ... or does not, and the connection is evicted.  Its Close is dropped as well,
\* unless the writer has taken a frame in between.
Evict(k) ==
    /\ k \in registered
    /\ Full
    /\ registered' = registered \ {k}
    /\ \/ UNCHANGED outbound
       \/ Head(outbound) = "frame" /\ outbound' = Append(Tail(outbound), "close")
    /\ UNCHANGED <<loop, waiting, ages, writer, told, leaving, history>>

\* close_connection, on what the client sent.
CloseConnection(k) ==
    /\ k \in registered /\ delivered[k] # << >>
    /\ outbound' = Pushed(<< "close" >>)
    /\ registered' = registered \ {k}
    /\ UNCHANGED <<loop, waiting, ages, writer, told, leaving, history>>

RemoveConnection(k) ==
    /\ k \in leaving
    /\ leaving' = leaving \ {k}
    /\ registered' = registered \ {k}
    /\ UNCHANGED <<loop, waiting, ages, output, history>>

-----------------------------------------------------------------------------

Init ==
    /\ reader = "reading" /\ pending = None
    /\ established = {} /\ authenticated = FALSE
    /\ queue = [k \in Keys |-> << >>]
    /\ queued_messages = 0 /\ queued_bytes = 0
    /\ max_pending_documents \in DocumentLimits
    /\ opened_age = 0 /\ idle_age = 0
    /\ outbound = << >> /\ writer = "running" /\ told = FALSE
    /\ registered = {} /\ leaving = {}
    /\ sent = [k \in Keys |-> 0]
    /\ refused = [k \in Keys |-> {}]
    /\ delivered = [k \in Keys |-> << >>]
    /\ granted = {}

ReaderStep ==
    Deny \/ Admit \/ RegistrationFails \/ AddConnection \/ Establish \/ Finish

Next ==
    \/ Ping
    \/ \E k \in Keys, size \in Sizes : Data(k, size)
    \/ \E k \in Keys : Auth(k)
    \/ ReaderStep
    \/ ClientCloses
    \/ Deadline
    \/ Write
    \/ Tick
    \/ \E k \in Keys : Broadcast(k) \/ Evict(k) \/ CloseConnection(k) \/ RemoveConnection(k)

Spec == Init /\ [][Next]_vars

\* Time passes, hooks and registrations return, the select does not pass over the
\* deadline for ever in favour of a client that keeps sending, and the client reads
\* and answers a Close it received with its own.
Fairness ==
    /\ WF_vars(Tick)
    /\ WF_vars(ReaderStep)
    /\ SF_vars(Deadline)
    /\ WF_vars(Write)
    /\ SF_vars(told /\ ClientCloses)
    /\ \A k \in Keys : WF_vars(RemoveConnection(k))

FairSpec == Spec /\ Fairness

-----------------------------------------------------------------------------
(* Properties. *)

\* Every variable keeps its type; what is queued before authentication stays
\* within its three limits and the outbound queue within its capacity.
TypeOK ==
    /\ reader \in Readers /\ pending \in Keys \cup {None}
    /\ established \subseteq Keys /\ authenticated \in BOOLEAN
    /\ \A k \in Keys : queue[k] \in Seq([number : 1..MaxSent, size : Sizes])
    /\ queued_messages \in 0..MaxMessages
    /\ queued_bytes \in 0..MaxBytes
    /\ max_pending_documents \in DocumentLimits
    /\ Cardinality(PendingDocuments) <= max_pending_documents
    /\ opened_age \in 0..Timeout /\ idle_age \in 0..Timeout
    /\ outbound \in Seq(OutFrames) /\ Len(outbound) <= Capacity
    /\ writer \in {"running", "ended"} /\ told \in BOOLEAN
    /\ registered \subseteq Keys /\ leaving \subseteq Keys
    /\ sent \in [Keys -> 0..MaxSent]
    /\ refused \in [Keys -> SUBSET (1..MaxSent)]
    /\ \A k \in Keys : delivered[k] \in Seq(1..MaxSent)
    /\ granted \subseteq Keys

\* The two counters that the limits are compared with are those of the queue,
\* through any mixture of queued, refused and drained documents: a document that
\* was established gives back exactly the room its frames took.
QueueAccounted ==
    /\ queued_messages = MapThenSumSet(LAMBDA k : Len(queue[k]), Keys)
    /\ queued_bytes = MapThenSumSet(LAMBDA k : Bytes(queue[k]), Keys)

\* A document gets the frames sent for it in the order they were sent, each once:
\* those handed to its actor and those still queued are all that were sent and
\* not refused, whether they came before, during or after the authentication.
DeliveredInOrder ==
    \A k \in Keys :
        LET arrived == delivered[k] \o Numbers(queue[k]) IN
        /\ Range(arrived) = (1..sent[k]) \ refused[k]
        /\ \A i, j \in DOMAIN arrived : i < j => arrived[i] < arrived[j]

\* No frame reaches a document whose hooks did not admit this client, whatever
\* other documents the socket is authenticated for.
NothingBeforeAdmission ==
    \A k \in Keys : delivered[k] # << >> => k \in granted

\* Every connection an actor has is known to the socket it belongs to, and when
\* the socket has ended its removal is under way: none is left behind.
RegistrationOwned ==
    registered \subseteq
        IF reader = "done" THEN leaving
        ELSE established \cup (IF reader = "acked" THEN {pending} ELSE {})

\* "so an unauthenticated flood can't keep it alive": a socket that never
\* authenticates ends, however much its client sends.
UnauthenticatedEnds == <>(authenticated \/ reader = "done")

\* "close a connection after this long with no messages": a socket whose client
\* has fallen silent ends, authenticated or not.
SilentEnds == <>[](idle_age # 0) => <>(reader = "done")

\* "Their socket will time out and the client reconnects": the socket of a
\* connection that its actor dropped ends.
EvictedEnds ==
    (established \ registered # {}) ~> (reader = "done")
=============================================================================
