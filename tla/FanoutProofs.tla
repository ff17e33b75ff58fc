----------------------------- MODULE FanoutProofs -----------------------------
(***************************************************************************)
(* What Fanout guarantees for any number of clients, edits and commands,   *)
(* and any capacity of the queues and batches.                             *)
(***************************************************************************)
EXTENDS Fanout, SequenceTheorems, TLAPS

\* The commands the actor has still to handle, in their order.
Waiting == batch \o mailbox

\* The queues are those of the clients, and whoever sends a command is one of
\* them, or a peer.
Shapes ==
    /\ outbound \in [Clients -> Seq(Frames)]
    /\ \A i \in 1..Len(Waiting) :
           Waiting[i].kind # "peer" => Waiting[i].from \in Clients

\* The registration of a client comes before everything else it sends, and is
\* awaited.
Registering ==
    \A i \in 1..Len(Waiting) : Waiting[i].kind = "add" =>
        /\ link[Waiting[i].from] = "joining"
        /\ Waiting[i].from \notin connections
        /\ \A j \in 1..Len(Waiting) : Waiting[j].from = Waiting[i].from => i <= j

\* A SyncStep1 that waits is of this connection of its client, or of one that has
\* ended; the client still has what it said it has.
Asking ==
    \A i \in 1..Len(Waiting) : Waiting[i].kind = "step1" =>
        /\ link[Waiting[i].from] \in {"on", "off"}
        /\ Waiting[i].edits \subseteq replica[Waiting[i].from]

\* The frames of a queue hold edits of the document; the server's SyncStep1
\* answers that of a client.
FramesKnown ==
    \A c \in Clients : \A i \in 1..Len(outbound[c]) :
        /\ outbound[c][i].edits \subseteq doc
        /\ outbound[c][i].kind = "step1" => link[c] = "on"

\* A broadcast is pending for what a batch has added, and none once it was sent.
Broadcasting ==
    /\ base # None => base \subseteq doc
    /\ lagging # {} => batch = << >> /\ base = None

\* A client that has answered the server's SyncStep1 has not left since.
CaughtUpOn == \A c \in caught_up : link[c] = "on"

\* The inductive invariant.
IInv ==
    /\ TypeOK /\ Shapes
    /\ Registering /\ Asking /\ FramesKnown /\ Broadcasting /\ CaughtUpOn
    /\ NothingMissed /\ NothingStranded

-----------------------------------------------------------------------------
(* The invariant, position by position. *)

\* A queue of frames brings an edit; a queue of commands takes one up.
Down(q, e) == \E i \in 1..Len(q) : q[i].kind \in {"step2", "update"} /\ e \in q[i].edits
Up(q, c, e) ==
    \E i \in 1..Len(q) : q[i].from = c /\ q[i].kind = "upload" /\ e \in q[i].edits

Informed ==
    \A c \in answered \ lagging : link[c] # "off" =>
        \A e \in doc : e \in replica[c] \/ Down(outbound[c], e) \/ (base # None /\ e \notin base)

Forwarded ==
    \A c \in (caught_up \cap connections) \ ReadOnly :
        \A e \in replica[c] : e \in doc \/ Up(Waiting, c, e)

\* The edits of the frames of a queue that bring some.
LEMMA DownAt ==
    ASSUME NEW q \in Seq(Frames), NEW e
    PROVE  e \in UNION {f.edits : f \in {g \in Range(q) : g.kind \in {"step2", "update"}}}
             <=> Down(q, e)
  <1>1. Range(q) = {q[i] : i \in 1..Len(q)}
    BY RangeEquality
  <1> QED
    BY <1>1 DEF Down

\* The commands of the mailbox and of the batch.
LEMMA RangeAt ==
    ASSUME NEW b \in Seq(Commands), NEW q \in Seq(Commands)
    PROVE  Range(q \o b) = {(b \o q)[i] : i \in 1..Len(b \o q)}
  <1>1. b \o q \in Seq(Commands)
    BY ConcatProperties
  <1>2. Range(q \o b) = Range(q) \cup Range(b) /\ Range(b \o q) = Range(b) \cup Range(q)
    BY RangeConcatenation
  <1>3. Range(q \o b) = Range(b \o q)
    BY <1>2
  <1> QED
    BY <1>1, <1>3, RangeEquality

\* The edits they take up.
LEMMA UpAt ==
    ASSUME NEW b \in Seq(Commands), NEW q \in Seq(Commands), NEW c, NEW e
    PROVE  e \in UNION {m.edits : m \in {n \in Range(q \o b) : n.from = c /\ n.kind = "upload"}}
             <=> Up(b \o q, c, e)
  BY RangeAt, SMTT(30) DEF Up

\* The two properties in these terms, before and after a step.
LEMMA MissedPointwise ==
    ASSUME TypeOK PROVE NothingMissed <=> Informed
  <1>1. \A c \in answered \ lagging : outbound[c] \in Seq(Frames)
    BY DEF TypeOK
  <1>2. \A c \in answered \ lagging : \A e \in doc :
          e \in Downstream(c) <=> Down(outbound[c], e) \/ (base # None /\ e \notin base)
    BY <1>1, DownAt DEF Downstream
  <1> QED
    BY <1>2 DEF NothingMissed, Informed

\* The same after a step.
LEMMA MissedPointwiseNext ==
    ASSUME TypeOK' PROVE NothingMissed' <=> Informed'
  <1>1. \A c \in answered' \ lagging' : outbound'[c] \in Seq(Frames)
    BY DEF TypeOK
  <1>2. \A c \in answered' \ lagging' : \A e \in doc' :
          e \in Downstream(c)' <=> Down(outbound'[c], e) \/ (base' # None /\ e \notin base')
    BY <1>1, DownAt DEF Downstream
  <1> QED
    BY <1>2 DEF NothingMissed, Informed

\* NothingStranded, edit by edit.
LEMMA StrandedPointwise ==
    ASSUME TypeOK PROVE NothingStranded <=> Forwarded
  <1>1. \A c, e : e \in Upstream(c) <=> Up(Waiting, c, e)
    BY UpAt DEF TypeOK, Upstream, Waiting
  <1> QED
    BY <1>1 DEF NothingStranded, Forwarded

\* The same after a step.
LEMMA StrandedPointwiseNext ==
    ASSUME TypeOK' PROVE NothingStranded' <=> Forwarded'
  <1>1. \A c, e : e \in Upstream(c)' <=> Up(Waiting', c, e)
    BY UpAt DEF TypeOK, Upstream, Waiting
  <1> QED
    BY <1>1 DEF NothingStranded, Forwarded

-----------------------------------------------------------------------------
(* The commands that wait. *)

\* The first k of them are gone; these were added.
Shifted(k) ==
    /\ Len(Waiting') = Len(Waiting) - k
    /\ \A i \in 1..Len(Waiting') : i + k \in 1..Len(Waiting) /\ Waiting'[i] = Waiting[i + k]

Grown(s) ==
    /\ Len(Waiting') = Len(Waiting) + Len(s)
    /\ \A i \in 1..Len(Waiting') :
           Waiting'[i] = IF i <= Len(Waiting) THEN Waiting[i] ELSE s[i - Len(Waiting)]

\* What waits are commands.
LEMMA WaitingType ==
    ASSUME TypeOK PROVE Waiting \in Seq(Commands) /\ Len(Waiting) \in Nat
  BY ConcatProperties, LenProperties DEF TypeOK, Waiting

\* Nothing happens to them.
LEMMA WaitingSame ==
    ASSUME TypeOK, UNCHANGED <<mailbox, batch>>
    PROVE  Shifted(0) /\ mailbox' \in Seq(Commands) /\ batch' \in Seq(Commands)
  <1>1. Waiting' = Waiting
    BY DEF Waiting
  <1> QED
    BY <1>1, WaitingType DEF Shifted, TypeOK

\* A new batch.
LEMMA WaitingDrain ==
    ASSUME TypeOK, Drain
    PROVE  Shifted(0) /\ mailbox' \in Seq(Commands) /\ batch' \in Seq(Commands)
  <1>1. PICK n \in 0..Len(mailbox) : /\ batch' = SubSeq(mailbox, 1, n)
                                     /\ mailbox' = SubSeq(mailbox, n + 1, Len(mailbox))
    <2>1. Len(mailbox) \in Nat /\ MaxBatch \in Nat
      BY FanoutAssumption, LenProperties DEF TypeOK
    <2> DEFINE k == IF Len(mailbox) < MaxBatch THEN Len(mailbox) ELSE MaxBatch
    <2>2. k \in 0..Len(mailbox)
      BY <2>1
    <2>3. batch' = SubSeq(mailbox, 1, k) /\ mailbox' = SubSeq(mailbox, k + 1, Len(mailbox))
      BY DEF Drain
    <2> HIDE DEF k
    <2> QED
      BY <2>2, <2>3
  <1>2. mailbox \in Seq(Commands) /\ Len(mailbox) \in Nat /\ batch = << >>
    BY LenProperties DEF TypeOK, Drain
  <1>3. batch' \o mailbox' = SubSeq(mailbox, 1, Len(mailbox))
    <2>1. /\ 1 \in 1..Len(mailbox) + 1 /\ n \in 1 - 1..Len(mailbox)
          /\ Len(mailbox) \in n..Len(mailbox)
      BY <1>2
    <2> QED
      BY <1>1, <1>2, <2>1, ConcatAdjacentSubSeq
  <1>4. SubSeq(mailbox, 1, Len(mailbox)) = mailbox /\ batch \o mailbox = mailbox
    BY <1>2, SubSeqFull, ConcatEmptySeq
  <1>5. Waiting' = Waiting
    BY <1>3, <1>4 DEF Waiting
  <1>6. \A i \in 1..Len(mailbox) : mailbox[i] \in Commands
    BY <1>2, ElementOfSeq
  <1>7. batch' \in Seq(Commands) /\ mailbox' \in Seq(Commands)
    BY <1>1, <1>2, <1>6, SubSeqProperties
  <1> QED
    BY <1>5, <1>7, WaitingType DEF Shifted

\* The actor takes the next one.
LEMMA WaitingTake ==
    ASSUME TypeOK, NEW kind, NEW m, Take(kind, m)
    PROVE  /\ Shifted(1) /\ mailbox' \in Seq(Commands) /\ batch' \in Seq(Commands)
           /\ 1 \in 1..Len(Waiting) /\ m = Waiting[1] /\ m \in Commands
           /\ m.kind = kind
  <1>1. /\ batch \in Seq(Commands) /\ mailbox \in Seq(Commands) /\ batch # << >>
        /\ batch' = Tail(batch) /\ mailbox' = mailbox /\ m = Head(batch) /\ m.kind = kind
    BY DEF TypeOK, Take
  <1>2. /\ batch' \in Seq(Commands) /\ Len(batch') = Len(batch) - 1 /\ m \in Commands
        /\ \A i \in 1..Len(batch') : batch'[i] = batch[i + 1]
    BY <1>1, HeadTailProperties
  <1>3. /\ Len(batch) \in Nat /\ Len(batch) > 0 /\ Len(mailbox) \in Nat /\ m = batch[1]
    BY <1>1, LenProperties, EmptySeq
  <1>4. /\ Len(Waiting) = Len(batch) + Len(mailbox)
        /\ \A i \in 1..Len(batch) + Len(mailbox) :
             Waiting[i] = IF i <= Len(batch) THEN batch[i] ELSE mailbox[i - Len(batch)]
    BY <1>1, ConcatProperties DEF Waiting
  <1>5. /\ Len(Waiting') = Len(batch') + Len(mailbox)
        /\ \A i \in 1..Len(batch') + Len(mailbox) :
             Waiting'[i] = IF i <= Len(batch') THEN batch'[i] ELSE mailbox[i - Len(batch')]
    BY <1>1, <1>2, ConcatProperties DEF Waiting
  <1>6. Shifted(1)
    <2>1. Len(Waiting') = Len(Waiting) - 1 /\ Len(batch') = Len(batch) - 1
      BY <1>2, <1>3, <1>4, <1>5
    <2>2. ASSUME NEW i \in 1..Len(Waiting')
          PROVE  i + 1 \in 1..Len(Waiting) /\ Waiting'[i] = Waiting[i + 1]
      <3>1. /\ i \in 1..Len(batch') + Len(mailbox)
            /\ i + 1 \in 1..Len(batch) + Len(mailbox)
        BY <2>1, <1>3, <1>4, <1>5
      <3>2. CASE i <= Len(batch')
        <4>1. i \in 1..Len(batch') /\ i + 1 <= Len(batch)
          BY <2>1, <3>2, <1>3
        <4> QED
          BY <4>1, <3>1, <3>2, <1>2, <1>4, <1>5
      <3>3. CASE ~(i <= Len(batch'))
        <4>1. ~(i + 1 <= Len(batch)) /\ i + 1 - Len(batch) = i - Len(batch')
          BY <2>1, <3>3, <1>3
        <4> QED
          BY <4>1, <3>1, <3>3, <1>4, <1>5, SMTT(30)
      <3> QED
        BY <3>2, <3>3
    <2> QED
      BY <2>1, <2>2 DEF Shifted
  <1> QED
    BY <1>1, <1>2, <1>3, <1>4, <1>6

\* Others are put into the mailbox.
LEMMA WaitingGrows ==
    ASSUME TypeOK, NEW s \in Seq(Commands), mailbox' = mailbox \o s, batch' = batch
    PROVE  Grown(s) /\ mailbox' \in Seq(Commands) /\ batch' \in Seq(Commands)
  <1>1. batch \in Seq(Commands) /\ mailbox \in Seq(Commands)
    BY DEF TypeOK
  <1>2. mailbox \o s \in Seq(Commands)
    BY <1>1, ConcatProperties
  <1>3. Waiting' = (batch \o mailbox) \o s
    BY <1>1, ConcatAssociative, SMTT(30) DEF Waiting
  <1>4. Waiting' = Waiting \o s /\ Waiting \in Seq(Commands)
    BY <1>3, WaitingType DEF Waiting
  <1>5. Grown(s)
    BY <1>4, ConcatProperties DEF Grown
  <1> QED
    BY <1>1, <1>2, <1>5

\* A command that is sent waits behind the others.
LEMMA WaitingAppend ==
    ASSUME TypeOK, NEW m \in Commands, mailbox' = Append(mailbox, m), batch' = batch
    PROVE  Grown(<< m >>) /\ mailbox' \in Seq(Commands) /\ batch' \in Seq(Commands)
  <1>1. mailbox \in Seq(Commands)
    BY DEF TypeOK
  <1>2. mailbox' = mailbox \o << m >>
    BY <1>1, AppendIsConcat
  <1>3. << m >> \in Seq(Commands)
    OBVIOUS
  <1> QED
    BY <1>2, <1>3, WaitingGrows

\* What the invariant says of the commands.
Commanded ==
    /\ \A i \in 1..Len(Waiting) :
           Waiting[i].kind # "peer" => Waiting[i].from \in Clients
    /\ Registering /\ Asking

\* Commands are handled and connections removed.
LEMMA CommandedShifted ==
    ASSUME TypeOK, Commanded, NEW k \in {0, 1}, Shifted(k),
           link' = link, replica' = replica, connections' \subseteq connections
    PROVE  Commanded'
  <1>1. \A i \in 1..Len(Waiting') : i + k \in 1..Len(Waiting) /\ Waiting'[i] = Waiting[i + k]
    BY DEF Shifted
  <1>2. Len(Waiting) \in Nat
    BY WaitingType
  <1>3. \A i \in 1..Len(Waiting') :
          Waiting'[i].kind # "peer" => Waiting'[i].from \in Clients
    BY <1>1 DEF Commanded
  <1>4. Registering'
    <2> SUFFICES ASSUME NEW i \in 1..Len(Waiting'), Waiting'[i].kind = "add"
                 PROVE  /\ link'[Waiting'[i].from] = "joining"
                        /\ Waiting'[i].from \notin connections'
                        /\ \A j \in 1..Len(Waiting') : Waiting'[j].from = Waiting'[i].from => i <= j
      BY DEF Registering
    <2>1. i + k \in 1..Len(Waiting) /\ Waiting'[i] = Waiting[i + k]
      BY <1>1
    <2>2. /\ link[Waiting[i + k].from] = "joining" /\ Waiting[i + k].from \notin connections
          /\ \A j \in 1..Len(Waiting) : Waiting[j].from = Waiting[i + k].from => i + k <= j
      BY <2>1 DEF Commanded, Registering
    <2>3. ASSUME NEW j \in 1..Len(Waiting'), Waiting'[j].from = Waiting'[i].from PROVE i <= j
      <3>1. j + k \in 1..Len(Waiting) /\ Waiting'[j] = Waiting[j + k]
        BY <1>1
      <3>2. i + k <= j + k
        BY <2>1, <2>2, <2>3, <3>1
      <3> QED
        BY <3>2
    <2> QED
      BY <2>1, <2>2, <2>3
  <1>5. Asking'
    BY <1>1 DEF Commanded, Asking
  <1> QED
    BY <1>3, <1>4, <1>5 DEF Commanded

\* A connection is added: the command was the first of its client.
LEMMA CommandedAdd ==
    ASSUME TypeOK, Commanded, Shifted(1), NEW c \in Clients,
           1 \in 1..Len(Waiting), Waiting[1].kind = "add", Waiting[1].from = c,
           link' = [link EXCEPT ![c] = "acked"], replica' = replica,
           connections' = connections \cup {c}
    PROVE  Commanded'
  <1>1. \A i \in 1..Len(Waiting') : i + 1 \in 1..Len(Waiting) /\ Waiting'[i] = Waiting[i + 1]
    BY DEF Shifted
  <1>2. Len(Waiting) \in Nat /\ link \in [Clients -> Links]
    BY WaitingType DEF TypeOK
  <1>3. link[c] = "joining"
    BY DEF Commanded, Registering
  <1>4. \A d \in Clients \ {c} : link'[d] = link[d]
    BY <1>2
  <1>5. \A i \in 1..Len(Waiting') :
          Waiting'[i].kind # "peer" => Waiting'[i].from \in Clients
    BY <1>1 DEF Commanded
  <1>6. \A i \in 1..Len(Waiting') :
          Waiting'[i].kind \in {"add", "step1"} => Waiting'[i].from \in Clients \ {c}
    <2> SUFFICES ASSUME NEW i \in 1..Len(Waiting'), Waiting'[i].kind \in {"add", "step1"},
                        Waiting'[i].from = c
                 PROVE  FALSE
      BY <1>5
    <2>1. i + 1 \in 1..Len(Waiting) /\ Waiting'[i] = Waiting[i + 1]
      BY <1>1
    <2>2. Waiting[i + 1].kind # "add"
      BY <1>2, <2>1 DEF Commanded, Registering
    <2>3. Waiting[i + 1].kind # "step1"
      BY <1>3, <2>1 DEF Commanded, Asking
    <2> QED
      BY <2>1, <2>2, <2>3
  <1>7. Registering'
    BY <1>1, <1>2, <1>4, <1>6, SMTT(30) DEF Commanded, Registering
  <1>8. Asking'
    BY <1>1, <1>4, <1>6 DEF Commanded, Asking
  <1> QED
    BY <1>5, <1>7, <1>8 DEF Commanded

\* Clients and peers send, and clients leave.
LEMMA CommandedGrown ==
    ASSUME TypeOK, Commanded, NEW s \in Seq(Commands), Grown(s),
           \A i \in 1..Len(s) :
               /\ s[i].kind # "add"
               /\ s[i].kind # "peer" => s[i].from \in Clients
               /\ s[i].kind = "step1" => /\ link'[s[i].from] = "on"
                                         /\ s[i].edits \subseteq replica'[s[i].from],
           \A c \in Clients : /\ link[c] = "joining" => link'[c] = "joining"
                              /\ link[c] \in {"on", "off"} => link'[c] \in {"on", "off"}
                              /\ replica[c] \subseteq replica'[c],
           connections' = connections
    PROVE  Commanded'
  <1>1. /\ Len(Waiting') = Len(Waiting) + Len(s)
        /\ \A i \in 1..Len(Waiting') :
             \/ i \in 1..Len(Waiting) /\ Waiting'[i] = Waiting[i]
             \/ i - Len(Waiting) \in 1..Len(s) /\ Waiting'[i] = s[i - Len(Waiting)]
                /\ Len(Waiting) < i
    <2>1. Len(Waiting) \in Nat /\ Len(s) \in Nat
      BY WaitingType, LenProperties
    <2> QED
      BY <2>1 DEF Grown
  <1>2. Len(Waiting) \in Nat
    BY WaitingType
  <1>3. \A i \in 1..Len(Waiting') :
          Waiting'[i].kind # "peer" => Waiting'[i].from \in Clients
    BY <1>1 DEF Commanded
  <1>4. \A i \in 1..Len(Waiting') : Waiting'[i].kind = "add" =>
          i \in 1..Len(Waiting) /\ Waiting'[i] = Waiting[i]
    BY <1>1
  <1>5. Registering'
    <2> SUFFICES ASSUME NEW i \in 1..Len(Waiting'), Waiting'[i].kind = "add"
                 PROVE  /\ link'[Waiting'[i].from] = "joining"
                        /\ Waiting'[i].from \notin connections'
                        /\ \A j \in 1..Len(Waiting') : Waiting'[j].from = Waiting'[i].from => i <= j
      BY DEF Registering
    <2>1. i \in 1..Len(Waiting) /\ Waiting'[i] = Waiting[i] /\ Waiting[i].from \in Clients
      BY <1>4 DEF Commanded
    <2>2. link[Waiting[i].from] = "joining" /\ Waiting[i].from \notin connections
      BY <2>1 DEF Commanded, Registering
    <2>3. ASSUME NEW j \in 1..Len(Waiting'), Waiting'[j].from = Waiting'[i].from PROVE i <= j
      <3>1. CASE j \in 1..Len(Waiting) /\ Waiting'[j] = Waiting[j]
        BY <2>1, <2>3, <3>1 DEF Commanded, Registering
      <3>2. CASE Len(Waiting) < j
        BY <1>2, <2>1, <3>2
      <3> QED
        BY <1>1, <3>1, <3>2
    <2> QED
      BY <2>1, <2>2, <2>3
  <1>6. Asking'
    BY <1>1, <1>3, SMTT(30) DEF Commanded, Asking
  <1> QED
    BY <1>3, <1>5, <1>6 DEF Commanded

\* A client joins: it has no command left.
LEMMA CommandedJoin ==
    ASSUME TypeOK, Commanded, NEW c \in Clients, Join(c)
    PROVE  Commanded'
  <1> DEFINE m == Command("add", c, {})
  <1>1. m \in Commands /\ m.kind = "add" /\ m.from = c
    BY DEF Command, Commands, CommandKinds
  <1>2. Grown(<< m >>)
    BY <1>1, WaitingAppend DEF Join, server
  <1>3. /\ link \in [Clients -> Links] /\ link[c] = "off"
        /\ link' = [link EXCEPT ![c] = "joining"] /\ c \notin connections
        /\ connections' = connections /\ replica' = replica
    BY DEF Join, server, TypeOK
  <1>4. \A i \in 1..Len(Waiting) : Waiting[i].from # c
    <2>1. Range(mailbox \o batch) = {Waiting[i] : i \in 1..Len(Waiting)}
      BY RangeAt DEF TypeOK, Waiting
    <2> QED
      BY <2>1 DEF Join
  <1>5. /\ Len(Waiting) \in Nat /\ Len(Waiting') = Len(Waiting) + 1
        /\ Waiting'[Len(Waiting) + 1] = m
        /\ \A i \in 1..Len(Waiting') :
             \/ i \in 1..Len(Waiting) /\ Waiting'[i] = Waiting[i]
             \/ i = Len(Waiting) + 1
    <2> HIDE DEF m
    <2>1. Len(Waiting) \in Nat
      BY WaitingType
    <2> QED
      BY <1>2, <2>1 DEF Grown
  <1> HIDE DEF m
  <1>6. \A i \in 1..Len(Waiting') :
          Waiting'[i].kind # "peer" => Waiting'[i].from \in Clients
    BY <1>1, <1>5 DEF Commanded
  <1>7. \A d \in Clients \ {c} : link'[d] = link[d]
    BY <1>3
  <1>8. Registering'
    BY <1>1, <1>3, <1>4, <1>5, <1>6, <1>7 DEF Commanded, Registering
  <1>9. Asking'
    BY <1>1, <1>3, <1>4, <1>5, <1>6, <1>7 DEF Commanded, Asking
  <1> QED
    BY <1>6, <1>8, <1>9 DEF Commanded

-----------------------------------------------------------------------------
(* The frames on their way down. *)

\* A queue after try_send.
LEMMA PushedAt ==
    ASSUME TypeOK, NEW c \in Clients, NEW fs \in Seq(Frames)
    PROVE  /\ Pushed(c, fs) \in Seq(Frames)
           /\ Len(Pushed(c, fs)) \in Len(outbound[c])..Capacity
           /\ \A i \in 1..Len(outbound[c]) : Pushed(c, fs)[i] = outbound[c][i]
           /\ \A i \in Len(outbound[c]) + 1..Len(Pushed(c, fs)) :
                /\ link[c] # "off" /\ i - Len(outbound[c]) \in 1..Len(fs)
                /\ Pushed(c, fs)[i] = fs[i - Len(outbound[c])]
           /\ link[c] # "off" /\ ~Full(c) /\ Len(fs) > 0 =>
                Len(outbound[c]) < Len(Pushed(c, fs))
  <1> DEFINE q == outbound[c]
             room == Capacity - Len(q)
             n == IF Len(fs) < room THEN Len(fs) ELSE room
  <1>1. q \in Seq(Frames) /\ Len(q) \in 0..Capacity /\ Len(fs) \in Nat /\ Capacity \in Nat
    BY FanoutAssumption, LenProperties DEF TypeOK
  <1>2. CASE link[c] = "off"
    BY <1>1, <1>2 DEF Pushed
  <1>3. CASE link[c] # "off"
    <2>1. room \in Nat /\ Len(q) + room = Capacity
      BY <1>1
    <2>2. /\ n \in 0..Len(fs) /\ Len(q) + n <= Capacity
          /\ Len(q) # Capacity /\ Len(fs) > 0 => n > 0
      <3> HIDE DEF room, q
      <3> QED
        BY <1>1, <2>1
    <2> DEFINE t == SubSeq(fs, 1, n)
    <2>3. Pushed(c, fs) = q \o t
      BY <1>3 DEF Pushed
    <2> HIDE DEF n
    <2>4. \A i \in 1..n : fs[i] \in Frames
      BY <1>1, <2>2, ElementOfSeq
    <2>5. /\ t \in Seq(Frames)
          /\ Len(t) = IF 1 <= n THEN n - 1 + 1 ELSE 0
          /\ \A i \in 1..n - 1 + 1 : t[i] = fs[1 + i - 1]
      BY <2>2, <2>4, SubSeqProperties
    <2> HIDE DEF t
    <2>6. Len(t) = n /\ \A i \in 1..n : t[i] = fs[i]
      BY <2>2, <2>5, <1>1
    <2>7. /\ q \o t \in Seq(Frames) /\ Len(q \o t) = Len(q) + Len(t)
          /\ \A i \in 1..Len(q) + Len(t) :
               (q \o t)[i] = IF i <= Len(q) THEN q[i] ELSE t[i - Len(q)]
      <3> HIDE DEF q
      <3> QED
        BY <1>1, <2>5, ConcatProperties
    <2>8. /\ Pushed(c, fs) \in Seq(Frames) /\ Len(Pushed(c, fs)) = Len(q) + n
          /\ \A i \in 1..Len(q) + n :
               Pushed(c, fs)[i] = IF i <= Len(q) THEN q[i] ELSE t[i - Len(q)]
      BY <2>3, <2>6, <2>7
    <2>9. \A i \in Len(q) + 1..Len(q) + n :
            i - Len(q) \in 1..Len(fs) /\ Pushed(c, fs)[i] = fs[i - Len(q)]
      BY <1>1, <2>2, <2>6, <2>8, SMTT(30)
    <2>10. link[c] # "off" /\ ~Full(c) /\ Len(fs) > 0 => Len(q) < Len(Pushed(c, fs))
      BY <1>1, <2>2, <2>8 DEF Full
    <2> QED
      BY <1>1, <1>3, <2>2, <2>8, <2>9, <2>10
  <1> QED
    BY <1>2, <1>3

\* The first of the frames is in a queue that was not full.
LEMMA DownPushed ==
    ASSUME TypeOK, NEW c \in Clients, NEW fs \in Seq(Frames), NEW e,
           link[c] # "off", ~Full(c), Len(fs) > 0,
           fs[1].kind \in {"step2", "update"}, e \in fs[1].edits
    PROVE  Down(Pushed(c, fs), e)
  <1> DEFINE n == Len(outbound[c])
             q == Pushed(c, fs)
  <1>1. /\ Len(q) \in n..Capacity /\ n < Len(q)
        /\ \A i \in n + 1..Len(q) : i - n \in 1..Len(fs) /\ q[i] = fs[i - n]
    BY PushedAt
  <1>2. n \in Nat /\ Capacity \in Nat
    BY FanoutAssumption, LenProperties DEF TypeOK
  <1> HIDE DEF n, q
  <1>3. n + 1 \in n + 1..Len(q) /\ (n + 1) - n = 1 /\ n + 1 \in 1..Len(q)
    BY <1>1, <1>2
  <1>4. q[n + 1] = fs[1]
    BY <1>1, <1>3
  <1>5. Down(q, e)
    BY <1>3, <1>4 DEF Down
  <1> QED
    BY <1>5 DEF q

\* No frame of a queue is lost but those the writer takes.
Longer ==
    \A c \in Clients : /\ Len(outbound[c]) <= Len(outbound'[c])
                       /\ \A i \in 1..Len(outbound[c]) : outbound'[c][i] = outbound[c][i]

\* What the invariant says of the queues.
Queued ==
    /\ outbound \in [Clients -> Seq(Frames)]
    /\ \A c \in Clients : Len(outbound[c]) <= Capacity
    /\ FramesKnown

\* The actor sends these frames to these connections.
LEMMA QueuedPushed ==
    ASSUME TypeOK, Queued, NEW cs, NEW fs \in Seq(Frames),
           outbound' = [c \in Clients |-> IF c \in cs THEN Pushed(c, fs) ELSE outbound[c]],
           doc \subseteq doc', link' = link,
           \A i \in 1..Len(fs) :
               /\ fs[i].edits \subseteq doc'
               /\ fs[i].kind = "step1" => \A c \in cs : link[c] \in {"on", "off"}
    PROVE  Queued' /\ Longer
  <1>1. \A c \in Clients : outbound'[c] = Pushed(c, fs) \/ outbound'[c] = outbound[c]
    OBVIOUS
  <1>2. \A c \in Clients : /\ outbound[c] \in Seq(Frames) /\ Len(outbound[c]) \in Nat
                           /\ Len(outbound[c]) <= Capacity
    BY LenProperties DEF TypeOK
  <1>3. outbound' \in [Clients -> Seq(Frames)]
    BY <1>2, PushedAt
  <1>4. ASSUME NEW c \in Clients
        PROVE  /\ Len(outbound'[c]) \in Len(outbound[c])..Capacity
               /\ \A i \in 1..Len(outbound[c]) : outbound'[c][i] = outbound[c][i]
               /\ \A i \in Len(outbound[c]) + 1..Len(outbound'[c]) :
                    /\ c \in cs /\ link[c] # "off" /\ i - Len(outbound[c]) \in 1..Len(fs)
                    /\ outbound'[c][i] = fs[i - Len(outbound[c])]
    <2>1. CASE c \in cs
      <3>1. outbound'[c] = Pushed(c, fs)
        BY <2>1
      <3> QED
        BY <2>1, <3>1, PushedAt
    <2>2. CASE c \notin cs
      <3>1. outbound'[c] = outbound[c]
        BY <2>2
      <3> QED
        BY <1>2, <3>1, FanoutAssumption
    <2> QED
      BY <2>1, <2>2
  <1>5. FramesKnown'
    <2> SUFFICES ASSUME NEW c \in Clients, NEW i \in 1..Len(outbound'[c])
                 PROVE  /\ outbound'[c][i].edits \subseteq doc'
                        /\ outbound'[c][i].kind = "step1" => link'[c] = "on"
      BY DEF FramesKnown
    <2>1. CASE i \in 1..Len(outbound[c])
      BY <1>4, <2>1 DEF Queued, FramesKnown
    <2>2. CASE i \notin 1..Len(outbound[c])
      <3>1. i \in Len(outbound[c]) + 1..Len(outbound'[c])
        BY <1>2, <1>4, <2>2
      <3> QED
        BY <1>4, <3>1, SMTT(30)
    <2> QED
      BY <2>1, <2>2
  <1> QED
    BY <1>2, <1>3, <1>4, <1>5, FanoutAssumption DEF Queued, Longer

\* To one connection.
LEMMA QueuedReply ==
    ASSUME TypeOK, Queued, NEW c \in Clients, NEW fs \in Seq(Frames), Reply(c, fs),
           doc \subseteq doc', link' = link,
           \A i \in 1..Len(fs) : /\ fs[i].edits \subseteq doc'
                                 /\ fs[i].kind = "step1" => link[c] \in {"on", "off"}
    PROVE  Queued' /\ Longer
  <1>1. outbound' = [d \in Clients |-> IF d \in {c} THEN Pushed(d, fs) ELSE outbound[d]]
    BY DEF Reply, Queued
  <1> QED
    BY <1>1, QueuedPushed

\* To none.
LEMMA QueuedKept ==
    ASSUME TypeOK, Queued, outbound' = outbound, doc \subseteq doc',
           \A c \in Clients : link[c] = "on" => link'[c] = "on"
    PROVE  Queued' /\ Longer
  <1>1. \A c \in Clients : Len(outbound[c]) \in Nat
    BY LenProperties DEF TypeOK
  <1> QED
    BY <1>1 DEF Queued, FramesKnown, Longer

\* A longer queue brings at least as much.
LEMMA DownLonger ==
    ASSUME TypeOK, Queued', Longer, NEW c \in Clients, NEW e, Down(outbound[c], e)
    PROVE  Down(outbound'[c], e)
  <1>1. Len(outbound[c]) \in Nat /\ Len(outbound'[c]) \in Nat
    BY LenProperties DEF TypeOK, Queued
  <1> QED
    BY <1>1 DEF Down, Longer

-----------------------------------------------------------------------------
(* What a client lacks, and what it has of its own. *)

\* Who was informed stays so while the queues only grow.
LEMMA InformedKept ==
    ASSUME TypeOK, Queued', Longer, Informed,
           \A c \in answered' \ lagging' :
               c \in answered \ lagging /\ (link'[c] # "off" => link[c] # "off"),
           \A c \in Clients : replica[c] \subseteq replica'[c],
           doc' = doc, base' = base
    PROVE  Informed'
  <1> SUFFICES ASSUME NEW c \in answered' \ lagging', link'[c] # "off", NEW e \in doc'
               PROVE  \/ e \in replica'[c] \/ Down(outbound'[c], e)
                      \/ (base' # None /\ e \notin base')
    BY DEF Informed
  <1>1. c \in Clients /\ c \in answered \ lagging /\ link[c] # "off" /\ e \in doc
    BY DEF TypeOK
  <1>2. e \in replica[c] \/ Down(outbound[c], e) \/ (base # None /\ e \notin base)
    BY <1>1 DEF Informed
  <1> QED
    BY <1>1, <1>2, DownLonger

\* An update is applied: what it adds is pending.
LEMMA InformedApply ==
    ASSUME TypeOK, Queued', Longer, Informed, Broadcasting, NEW es, Apply(es),
           answered' = answered, lagging' = lagging, link' = link, replica' = replica
    PROVE  Informed'
  <1> SUFFICES ASSUME NEW c \in answered \ lagging, link[c] # "off", NEW e \in doc'
               PROVE  \/ e \in replica[c] \/ Down(outbound'[c], e)
                      \/ (base' # None /\ e \notin base')
    BY DEF Informed
  <1>1. c \in Clients
    BY DEF TypeOK
  <1>2. base' # None /\ (base = None => base' = doc) /\ (base # None => base' = base)
    BY FanoutAssumption DEF Apply, TypeOK
  <1>3. CASE e \notin doc
    BY <1>2, <1>3 DEF Broadcasting
  <1>4. CASE e \in doc
    <2>1. e \in replica[c] \/ Down(outbound[c], e) \/ (base # None /\ e \notin base)
      BY <1>4 DEF Informed
    <2> QED
      BY <1>1, <1>2, <2>1, DownLonger
  <1> QED
    BY <1>3, <1>4

\* An edit is still on its way up, unless it has arrived.
LEMMA UpShifted ==
    ASSUME TypeOK, NEW k \in {0, 1}, Shifted(k), NEW c, NEW e, Up(Waiting, c, e),
           k = 1 => ~(/\ Waiting[1].from = c /\ Waiting[1].kind = "upload"
                      /\ e \in Waiting[1].edits)
    PROVE  Up(Waiting', c, e)
  <1>1. PICK i \in 1..Len(Waiting) :
          Waiting[i].from = c /\ Waiting[i].kind = "upload" /\ e \in Waiting[i].edits
    BY DEF Up
  <1>2. Len(Waiting) \in Nat /\ Len(Waiting') = Len(Waiting) - k
    BY WaitingType DEF Shifted
  <1>3. i - k \in 1..Len(Waiting')
    BY <1>1, <1>2
  <1>4. Waiting'[i - k] = Waiting[i]
    <2>1. Waiting'[i - k] = Waiting[(i - k) + k]
      BY <1>3 DEF Shifted
    <2> QED
      BY <2>1
  <1> QED
    BY <1>1, <1>3, <1>4 DEF Up

\* What is under way stays so when more is sent.
LEMMA UpGrown ==
    ASSUME TypeOK, NEW s \in Seq(Commands), Grown(s), NEW c, NEW e,
           Up(Waiting, c, e) \/ Up(s, c, e)
    PROVE  Up(Waiting', c, e)
  <1>1. /\ Len(Waiting) \in Nat /\ Len(s) \in Nat
        /\ Len(Waiting') = Len(Waiting) + Len(s)
        /\ \A i \in 1..Len(Waiting') :
             Waiting'[i] = IF i <= Len(Waiting) THEN Waiting[i] ELSE s[i - Len(Waiting)]
    BY WaitingType, LenProperties DEF Grown
  <1>2. CASE Up(Waiting, c, e)
    <2>1. PICK i \in 1..Len(Waiting) :
            Waiting[i].from = c /\ Waiting[i].kind = "upload" /\ e \in Waiting[i].edits
      BY <1>2 DEF Up
    <2>2. i \in 1..Len(Waiting') /\ Waiting'[i] = Waiting[i]
      BY <1>1
    <2> QED
      BY <2>1, <2>2 DEF Up
  <1>3. CASE Up(s, c, e)
    <2>1. PICK i \in 1..Len(s) : s[i].from = c /\ s[i].kind = "upload" /\ e \in s[i].edits
      BY <1>3 DEF Up
    <2> DEFINE j == Len(Waiting) + i
    <2>2. j \in 1..Len(Waiting') /\ ~(j <= Len(Waiting)) /\ j - Len(Waiting) = i
      BY <1>1
    <2> HIDE DEF j
    <2>3. Waiting'[j] = s[i]
      BY <1>1, <2>2
    <2> QED
      BY <2>1, <2>2, <2>3 DEF Up
  <1> QED
    BY <1>2, <1>3

\* What is forwarded when the actor takes a command.
LEMMA ForwardedShifted ==
    ASSUME TypeOK, Forwarded, NEW k \in {0, 1}, Shifted(k),
           replica' = replica, doc \subseteq doc',
           \A c \in caught_up' \cap connections' : c \in caught_up \cap connections,
           k = 1 /\ Waiting[1].kind = "upload" =>
               \/ Waiting[1].edits \subseteq doc'
               \/ Waiting[1].from \notin (caught_up' \cap connections') \ ReadOnly
    PROVE  Forwarded'
  <1> SUFFICES ASSUME NEW c \in (caught_up' \cap connections') \ ReadOnly, NEW e \in replica[c]
               PROVE  e \in doc' \/ Up(Waiting', c, e)
    BY DEF Forwarded
  <1>1. e \in doc \/ Up(Waiting, c, e)
    BY DEF Forwarded
  <1>2. CASE k = 1 /\ Waiting[1].from = c /\ Waiting[1].kind = "upload" /\ e \in Waiting[1].edits
    BY <1>2
  <1>3. CASE ~(/\ k = 1 /\ Waiting[1].from = c /\ Waiting[1].kind = "upload"
               /\ e \in Waiting[1].edits)
    BY <1>1, <1>3, UpShifted
  <1> QED
    BY <1>2, <1>3

\* What is forwarded when commands are added.
LEMMA ForwardedGrown ==
    ASSUME TypeOK, Forwarded, NEW s \in Seq(Commands), Grown(s),
           doc' = doc, connections' = connections,
           \A c \in caught_up' : \A e \in replica'[c] :
               (c \in caught_up /\ e \in replica[c]) \/ e \in doc \/ Up(s, c, e)
    PROVE  Forwarded'
  <1> SUFFICES ASSUME NEW c \in (caught_up' \cap connections) \ ReadOnly, NEW e \in replica'[c]
               PROVE  e \in doc \/ Up(Waiting', c, e)
    BY DEF Forwarded
  <1>1. (c \in caught_up /\ e \in replica[c]) \/ e \in doc \/ Up(s, c, e)
    OBVIOUS
  <1>2. e \in doc \/ Up(Waiting, c, e) \/ Up(s, c, e)
    BY <1>1 DEF Forwarded
  <1> QED
    BY <1>2, UpGrown

-----------------------------------------------------------------------------
(* The steps. *)

\* The parts of the invariant as the lemmas above speak of them.
LEMMA Parts ==
    ASSUME IInv
    PROVE  /\ TypeOK /\ Commanded /\ Queued /\ Broadcasting /\ CaughtUpOn
           /\ Informed /\ Forwarded
  <1>1. TypeOK /\ Commanded /\ Queued /\ Broadcasting /\ CaughtUpOn
    BY DEF IInv, Shapes, TypeOK, Commanded, Queued
  <1>2. Informed
    BY MissedPointwise DEF IInv
  <1>3. Forwarded
    BY StrandedPointwise DEF IInv
  <1> QED
    BY <1>1, <1>2, <1>3

\* The types that Queued and the lemmas on the commands leave.
Typed ==
    /\ doc \subseteq Edits
    /\ replica \in [Clients -> SUBSET Edits]
    /\ link \in [Clients -> Links]
    /\ mailbox \in Seq(Commands) /\ batch \in Seq(Commands)
    /\ connections \subseteq Clients /\ lagging \subseteq connections
    /\ base \in (SUBSET Edits) \cup {None}
    /\ answered \subseteq connections
    /\ caught_up \subseteq Clients

\* The same after a step.
LEMMA PartsNext ==
    ASSUME Typed', Commanded', Queued', Broadcasting', CaughtUpOn', Informed', Forwarded'
    PROVE  IInv'
  <1>1. TypeOK'
    BY DEF Typed, Queued, TypeOK
  <1>2. Shapes' /\ Registering' /\ Asking' /\ FramesKnown'
    BY DEF Shapes, Commanded, Queued
  <1>3. NothingMissed'
    BY <1>1, MissedPointwiseNext
  <1>4. NothingStranded'
    BY <1>1, StrandedPointwiseNext
  <1> QED
    BY <1>1, <1>2, <1>3, <1>4 DEF IInv

\* A reply of one frame.
LEMMA ReplyStep ==
    ASSUME TypeOK, Queued, NEW c \in Clients, NEW kind \in FrameKinds \ {"step1"},
           Reply(c, << Frame(kind, {}) >>), doc \subseteq doc', link' = link
    PROVE  Queued' /\ Longer
  <1> DEFINE fs == << Frame(kind, {}) >>
  <1>1. Frame(kind, {}) \in Frames /\ Frame(kind, {}).edits = {} /\ Frame(kind, {}).kind # "step1"
    BY DEF Frame, Frames, FrameKinds
  <1>2. fs \in Seq(Frames) /\ Len(fs) = 1 /\ fs[1] = Frame(kind, {})
    BY <1>1
  <1>3. \A i \in 1..Len(fs) : fs[i].edits \subseteq doc' /\ fs[i].kind # "step1"
    BY <1>1, <1>2
  <1> HIDE DEF fs
  <1>4. Reply(c, fs)
    BY DEF fs
  <1> QED
    BY <1>2, <1>3, <1>4, QueuedReply

\* The next batch.
LEMMA DrainStep ==
    ASSUME IInv, Drain PROVE IInv'
  <1>1. TypeOK /\ Commanded /\ Queued /\ Broadcasting /\ CaughtUpOn /\ Informed /\ Forwarded
    BY Parts
  <1>2. /\ UNCHANGED <<doc, replica, link, caught_up, connections, outbound, base, lagging,
                       answered>>
        /\ lagging = {}
    BY DEF Drain, client
  <1>3. Shifted(0) /\ mailbox' \in Seq(Commands) /\ batch' \in Seq(Commands)
    BY <1>1, WaitingDrain
  <1>4. Typed'
    BY <1>1, <1>2, <1>3 DEF TypeOK, Typed
  <1>5. Commanded'
    BY <1>1, <1>2, <1>3, CommandedShifted
  <1>6. Queued' /\ Longer
    BY <1>1, <1>2, QueuedKept
  <1>7. Broadcasting' /\ CaughtUpOn'
    BY <1>1, <1>2 DEF Broadcasting, CaughtUpOn
  <1>8. Informed'
    BY <1>1, <1>2, <1>6, InformedKept
  <1>9. Forwarded'
    BY <1>1, <1>2, <1>3, ForwardedShifted
  <1> QED
    BY <1>4, <1>5, <1>6, <1>7, <1>8, <1>9, PartsNext

\* A connection is registered.  Its client was neither answered nor caught up.
LEMMA AddStep ==
    ASSUME IInv, NEW m, AddConnection(m) PROVE IInv'
  <1>1. TypeOK /\ Commanded /\ Queued /\ Broadcasting /\ CaughtUpOn /\ Informed /\ Forwarded
    BY Parts
  <1>2. /\ UNCHANGED <<doc, outbound, base, answered, caught_up, lagging, replica>>
        /\ Take("add", m)
        /\ connections' = connections \cup {m.from}
        /\ link' = [link EXCEPT ![m.from] = "acked"] /\ batch # << >>
    BY DEF AddConnection, Take
  <1>3. /\ Shifted(1) /\ mailbox' \in Seq(Commands) /\ batch' \in Seq(Commands)
        /\ 1 \in 1..Len(Waiting) /\ m = Waiting[1] /\ m.kind = "add"
    BY <1>1, <1>2, WaitingTake
  <1>4. m.from \in Clients /\ link[m.from] = "joining" /\ m.from \notin connections
    BY <1>1, <1>3 DEF Commanded, Registering
  <1>5. \A d \in Clients \ {m.from} : link'[d] = link[d]
    BY <1>1, <1>2 DEF TypeOK
  <1>6. Typed'
    BY <1>1, <1>2, <1>3, <1>4 DEF TypeOK, Typed, Links
  <1>7. Commanded'
    BY <1>1, <1>2, <1>3, <1>4, CommandedAdd
  <1>8. Queued' /\ Longer
    BY <1>1, <1>2, <1>4, <1>5, QueuedKept
  <1>9. Broadcasting' /\ CaughtUpOn'
    BY <1>1, <1>2, <1>4, <1>5 DEF Broadcasting, CaughtUpOn, TypeOK
  <1>10. Informed'
    <2>1. \A c \in answered : c \in Clients \ {m.from}
      BY <1>1, <1>4 DEF TypeOK
    <2>2. \A c \in answered' \ lagging' :
            c \in answered \ lagging /\ (link'[c] # "off" => link[c] # "off")
      BY <1>2, <1>5, <2>1
    <2> QED
      BY <1>1, <1>2, <1>8, <2>2, InformedKept
  <1>11. Forwarded'
    <2>1. \A c \in caught_up' \cap connections' : c \in caught_up \cap connections
      BY <1>1, <1>2, <1>4 DEF CaughtUpOn
    <2> QED
      BY <1>1, <1>2, <1>3, <2>1, ForwardedShifted
  <1> QED
    BY <1>6, <1>7, <1>8, <1>9, <1>10, <1>11, PartsNext

\* The commands that do not touch the document: an unregistration, an ignored
\* frame, a refusal, a rejection, a Close frame.
LEMMA QuietStep ==
    ASSUME IInv, NEW m,
           \/ RemoveConnection(m) \/ IgnoreFrame(m) \/ RefuseReadOnly(m)
           \/ RejectUpload(m) \/ CloseConnection(m)
    PROVE  IInv'
  <1>1. TypeOK /\ Commanded /\ Queued /\ Broadcasting /\ CaughtUpOn /\ Informed /\ Forwarded
    BY Parts
  <1>2. /\ \E kind \in CommandKinds \ {"peer"} : Take(kind, m)
        /\ UNCHANGED <<doc, base, link, lagging, replica>> /\ batch # << >>
        /\ connections' \subseteq connections /\ caught_up' \subseteq caught_up
        /\ answered' \subseteq answered
        /\ \A c \in answered' : c \in connections => c \in connections'
    BY DEF RemoveConnection, IgnoreFrame, RefuseReadOnly, RejectUpload, CloseConnection, Take,
           CommandKinds
  <1>3. /\ Shifted(1) /\ mailbox' \in Seq(Commands) /\ batch' \in Seq(Commands)
        /\ 1 \in 1..Len(Waiting) /\ m = Waiting[1] /\ m.kind # "peer"
    BY <1>1, <1>2, WaitingTake
  <1>4. m.from \in Clients
    BY <1>1, <1>3 DEF Commanded
  <1>5. lagging = {}
    BY <1>1, <1>2 DEF Broadcasting
  <1>6. Typed'
    BY <1>1, <1>2, <1>3, <1>5 DEF TypeOK, Typed
  <1>7. Commanded'
    BY <1>1, <1>2, <1>3, CommandedShifted
  <1>8. Queued' /\ Longer
    <2>1. CASE RemoveConnection(m) \/ IgnoreFrame(m)
      <3>1. outbound' = outbound
        BY <2>1 DEF RemoveConnection, IgnoreFrame
      <3> QED
        BY <1>1, <1>2, <3>1, QueuedKept
    <2>2. CASE RefuseReadOnly(m) \/ RejectUpload(m) \/ CloseConnection(m)
      <3>1. \E kind \in FrameKinds \ {"step1"} : Reply(m.from, << Frame(kind, {}) >>)
        BY <2>2 DEF RefuseReadOnly, RejectUpload, CloseConnection, Reply, FrameKinds
      <3> QED
        BY <1>1, <1>2, <1>4, <3>1, ReplyStep
    <2> QED
      BY <2>1, <2>2
  <1>9. Broadcasting' /\ CaughtUpOn'
    BY <1>1, <1>2, <1>5 DEF Broadcasting, CaughtUpOn
  <1>10. Informed'
    BY <1>1, <1>2, <1>8, InformedKept
  <1>11. Forwarded'
    <2>1. m.kind = "upload" => m.from \notin (caught_up' \cap connections') \ ReadOnly
      <3>1. CASE RemoveConnection(m) \/ CloseConnection(m)
        BY <3>1 DEF RemoveConnection, CloseConnection, Take
      <3>2. CASE IgnoreFrame(m)
        BY <3>2 DEF IgnoreFrame
      <3>3. CASE RefuseReadOnly(m)
        BY <3>3 DEF RefuseReadOnly
      <3>4. CASE RejectUpload(m)
        BY <3>4 DEF RejectUpload
      <3> QED
        BY <3>1, <3>2, <3>3, <3>4
    <2> QED
      BY <1>1, <1>2, <1>3, <2>1, ForwardedShifted
  <1> QED
    BY <1>6, <1>7, <1>8, <1>9, <1>10, <1>11, PartsNext

\* SyncStep1 of a client: from here on its connection misses nothing.
LEMMA Step1Step ==
    ASSUME IInv, NEW m, HandleStep1(m) PROVE IInv'
  <1> DEFINE c == m.from
             f1 == Frame("step2", doc \ m.edits)
             f2 == Frame("step1", doc)
             fs == << f1, f2 >>
  <1>1. TypeOK /\ Commanded /\ Queued /\ Broadcasting /\ CaughtUpOn /\ Informed /\ Forwarded
    BY Parts
  <1>2. /\ Take("step1", m) /\ c \in connections /\ Reply(c, fs) /\ batch # << >>
        /\ UNCHANGED <<doc, link, connections, base, caught_up, lagging, replica>>
    BY DEF HandleStep1, Take
  <1>3. /\ Shifted(1) /\ mailbox' \in Seq(Commands) /\ batch' \in Seq(Commands)
        /\ 1 \in 1..Len(Waiting) /\ m = Waiting[1] /\ m.kind = "step1"
    BY <1>1, <1>2, WaitingTake
  <1>4. c \in Clients /\ link[c] \in {"on", "off"} /\ m.edits \subseteq replica[c]
    BY <1>1, <1>3 DEF Commanded, Asking
  <1>5. answered' = IF Full(c) \/ link[c] = "off" THEN answered ELSE answered \cup {c}
    BY DEF HandleStep1
  <1>6. /\ f1 \in Frames /\ f1.kind = "step2" /\ f1.edits = doc \ m.edits
        /\ f2 \in Frames /\ f2.kind = "step1" /\ f2.edits = doc
    BY <1>1 DEF TypeOK, Frame, Frames, FrameKinds
  <1> HIDE DEF f1, f2
  <1>7. fs \in Seq(Frames) /\ Len(fs) = 2 /\ fs[1] = f1 /\ fs[2] = f2
    BY <1>6
  <1>8. \A i \in 1..Len(fs) : fs[i].edits \subseteq doc'
    BY <1>2, <1>6, <1>7
  <1> HIDE DEF fs, c
  <1>9. Queued' /\ Longer
    BY <1>1, <1>2, <1>4, <1>7, <1>8, QueuedReply
  <1>10. lagging = {}
    BY <1>1, <1>2 DEF Broadcasting
  <1>11. Typed'
    BY <1>1, <1>2, <1>3, <1>5 DEF TypeOK, Typed
  <1>12. Commanded'
    BY <1>1, <1>2, <1>3, CommandedShifted
  <1>13. Broadcasting' /\ CaughtUpOn'
    BY <1>1, <1>2, <1>10 DEF Broadcasting, CaughtUpOn
  <1>14. Informed'
    <2> SUFFICES ASSUME NEW d \in answered' \ lagging', link'[d] # "off", NEW e \in doc'
                 PROVE  \/ e \in replica'[d] \/ Down(outbound'[d], e)
                        \/ (base' # None /\ e \notin base')
      BY DEF Informed
    <2>1. CASE d \in answered
      <3>1. e \in replica[d] \/ Down(outbound[d], e) \/ (base # None /\ e \notin base)
        BY <1>1, <1>2, <2>1 DEF Informed
      <3>2. d \in Clients
        BY <1>1, <2>1 DEF TypeOK
      <3> QED
        BY <1>1, <1>2, <1>9, <3>1, <3>2, DownLonger
    <2>2. CASE d \notin answered
      <3>1. d = c /\ ~Full(c) /\ link[c] # "off"
        BY <1>5, <2>2
      <3>2. outbound'[c] = Pushed(c, fs)
        BY <1>1, <1>2, <1>4 DEF Reply, Queued
      <3>3. e \in m.edits \/ e \in fs[1].edits
        BY <1>2, <1>6, <1>7
      <3>4. e \in fs[1].edits => Down(outbound'[c], e)
        BY <1>1, <1>4, <1>6, <1>7, <3>1, <3>2, DownPushed
      <3> QED
        BY <1>2, <1>4, <3>1, <3>3, <3>4
    <2> QED
      BY <2>1, <2>2
  <1>15. Forwarded'
    BY <1>1, <1>2, <1>3, ForwardedShifted
  <1> QED
    BY <1>9, <1>11, <1>12, <1>13, <1>14, <1>15, PartsNext

\* An update of a client that may write, or of a peer.
LEMMA ApplyStep ==
    ASSUME IInv, NEW m, HandleUpload(m) \/ HandlePeer(m) PROVE IInv'
  <1>1. TypeOK /\ Commanded /\ Queued /\ Broadcasting /\ CaughtUpOn /\ Informed /\ Forwarded
    BY Parts
  <1>2. /\ \E kind \in CommandKinds : Take(kind, m)
        /\ Apply(m.edits) /\ batch # << >>
        /\ UNCHANGED <<link, connections, answered, caught_up, lagging, replica>>
    BY DEF HandleUpload, HandlePeer, Take, CommandKinds
  <1>3. /\ Shifted(1) /\ mailbox' \in Seq(Commands) /\ batch' \in Seq(Commands)
        /\ 1 \in 1..Len(Waiting) /\ m = Waiting[1] /\ m \in Commands
    BY <1>1, <1>2, WaitingTake
  <1>4. m.edits \subseteq Edits /\ doc \subseteq Edits
    BY <1>1, <1>3 DEF Commands, TypeOK
  <1>5. doc' = doc \cup m.edits /\ base' = IF base = None THEN doc ELSE base
    BY <1>2 DEF Apply
  <1>6. lagging = {}
    BY <1>1, <1>2 DEF Broadcasting
  <1>7. Typed'
    BY <1>1, <1>2, <1>3, <1>4, <1>5 DEF TypeOK, Typed
  <1>8. Commanded'
    BY <1>1, <1>2, <1>3, CommandedShifted
  <1>9. doc \subseteq doc' /\ m.edits \subseteq doc'
    BY <1>5
  <1>10. Queued' /\ Longer
    <2>1. CASE HandlePeer(m)
      <3>1. outbound' = outbound
        BY <2>1 DEF HandlePeer
      <3> QED
        BY <1>1, <1>2, <1>9, <3>1, QueuedKept
    <2>2. CASE HandleUpload(m)
      <3>1. /\ Reply(m.from, << Frame("status", {}) >>) /\ "status" \in FrameKinds \ {"step1"}
            /\ m.from \in Clients
        BY <1>1, <2>2 DEF HandleUpload, FrameKinds, TypeOK
      <3> QED
        BY <1>1, <1>2, <1>9, <3>1, ReplyStep
    <2> QED
      BY <2>1, <2>2
  <1>11. Broadcasting' /\ CaughtUpOn'
    <2>1. base' \subseteq doc'
      BY <1>1, <1>5 DEF Broadcasting
    <2> QED
      BY <1>1, <1>2, <1>6, <2>1 DEF Broadcasting, CaughtUpOn
  <1>12. Informed'
    BY <1>1, <1>2, <1>10, InformedApply
  <1>13. Forwarded'
    BY <1>1, <1>2, <1>3, <1>9, ForwardedShifted
  <1> QED
    BY <1>7, <1>8, <1>10, <1>11, <1>12, <1>13, PartsNext

\* The merged broadcast: every connection that is not full gets it.
LEMMA FlushStep ==
    ASSUME IInv, Flush PROVE IInv'
  <1> DEFINE f == Frame("update", doc \ base)
             fs == << f >>
  <1>1. TypeOK /\ Commanded /\ Queued /\ Broadcasting /\ CaughtUpOn /\ Informed /\ Forwarded
    BY Parts
  <1>2. /\ UNCHANGED <<doc, replica, link, caught_up, mailbox, batch, connections, answered>>
        /\ base # None /\ base' = None /\ batch = << >>
        /\ lagging' = {c \in connections : Full(c)}
        /\ outbound' = [c \in Clients |-> IF c \in connections THEN Pushed(c, fs)
                                          ELSE outbound[c]]
    BY DEF Flush, client
  <1>3. Shifted(0) /\ mailbox' \in Seq(Commands) /\ batch' \in Seq(Commands)
    BY <1>1, <1>2, WaitingSame
  <1>4. f \in Frames /\ f.kind = "update" /\ f.edits = doc \ base
    BY <1>1 DEF TypeOK, Frame, Frames, FrameKinds
  <1> HIDE DEF f
  <1>5. fs \in Seq(Frames) /\ Len(fs) = 1 /\ fs[1] = f
    BY <1>4
  <1>6. \A i \in 1..Len(fs) : fs[i].edits \subseteq doc' /\ fs[i].kind # "step1"
    BY <1>2, <1>4, <1>5
  <1> HIDE DEF fs
  <1>7. Queued' /\ Longer
    BY <1>1, <1>2, <1>5, <1>6, QueuedPushed
  <1>8. Typed'
    BY <1>1, <1>2, <1>3 DEF TypeOK, Typed
  <1>9. Commanded'
    BY <1>1, <1>2, <1>3, CommandedShifted
  <1>10. Broadcasting' /\ CaughtUpOn'
    BY <1>1, <1>2 DEF Broadcasting, CaughtUpOn
  <1>11. Informed'
    <2> SUFFICES ASSUME NEW c \in answered' \ lagging', link'[c] # "off", NEW e \in doc'
                 PROVE  e \in replica'[c] \/ Down(outbound'[c], e)
      BY DEF Informed
    <2>1. c \in answered /\ c \in connections /\ c \in Clients /\ ~Full(c)
      BY <1>1, <1>2 DEF TypeOK
    <2>2. c \notin lagging /\ link[c] # "off"
      BY <1>1, <1>2 DEF Broadcasting
    <2>3. e \in replica[c] \/ Down(outbound[c], e) \/ e \notin base
      BY <1>1, <1>2, <2>1, <2>2 DEF Informed
    <2>4. CASE e \in replica[c] \/ Down(outbound[c], e)
      BY <1>1, <1>2, <1>7, <2>1, <2>4, DownLonger
    <2>5. CASE e \notin base
      <3>1. outbound'[c] = Pushed(c, fs)
        BY <1>2, <2>1
      <3>2. e \in fs[1].edits /\ fs[1].kind = "update"
        BY <1>2, <1>4, <1>5, <2>5
      <3> QED
        BY <1>1, <1>5, <2>1, <2>2, <3>1, <3>2, DownPushed
    <2> QED
      BY <2>3, <2>4, <2>5
  <1>12. Forwarded'
    BY <1>1, <1>2, <1>3, ForwardedShifted
  <1> QED
    BY <1>7, <1>8, <1>9, <1>10, <1>11, <1>12, PartsNext

\* A lagging connection is evicted.
LEMMA EvictStep ==
    ASSUME IInv, NEW c, Evict(c) PROVE IInv'
  <1>1. TypeOK /\ Commanded /\ Queued /\ Broadcasting /\ CaughtUpOn /\ Informed /\ Forwarded
    BY Parts
  <1>2. /\ UNCHANGED <<doc, replica, link, caught_up, mailbox, batch, base>>
        /\ c \in lagging /\ lagging' = lagging \ {c} /\ connections' = connections \ {c}
        /\ answered' = answered \ {c} /\ Reply(c, << Frame("close", {}) >>)
    BY DEF Evict, client, Reply
  <1>3. c \in Clients /\ "close" \in FrameKinds \ {"step1"}
    BY <1>1, <1>2 DEF TypeOK, FrameKinds
  <1>4. Shifted(0) /\ mailbox' \in Seq(Commands) /\ batch' \in Seq(Commands)
    BY <1>1, <1>2, WaitingSame
  <1>5. Queued' /\ Longer
    BY <1>1, <1>2, <1>3, ReplyStep
  <1>6. Typed'
    BY <1>1, <1>2, <1>4 DEF TypeOK, Typed
  <1>7. Commanded'
    BY <1>1, <1>2, <1>4, CommandedShifted
  <1>8. Broadcasting' /\ CaughtUpOn'
    BY <1>1, <1>2 DEF Broadcasting, CaughtUpOn
  <1>9. Informed'
    BY <1>1, <1>2, <1>5, InformedKept
  <1>10. Forwarded'
    BY <1>1, <1>2, <1>4, ForwardedShifted
  <1> QED
    BY <1>5, <1>6, <1>7, <1>8, <1>9, <1>10, PartsNext

\* A client joins.
LEMMA JoinStep ==
    ASSUME IInv, NEW c \in Clients, Join(c) PROVE IInv'
  <1> DEFINE m == Command("add", c, {})
             s == << m >>
  <1>1. TypeOK /\ Commanded /\ Queued /\ Broadcasting /\ CaughtUpOn /\ Informed /\ Forwarded
    BY Parts
  <1>2. /\ UNCHANGED <<doc, batch, connections, base, lagging, replica, caught_up, outbound,
                       answered>>
        /\ link[c] = "off" /\ c \notin connections
        /\ link' = [link EXCEPT ![c] = "joining"] /\ mailbox' = Append(mailbox, m)
    BY DEF Join, server
  <1>3. m \in Commands
    BY DEF Command, Commands, CommandKinds
  <1> HIDE DEF m
  <1>4. Grown(s) /\ mailbox' \in Seq(Commands) /\ batch' \in Seq(Commands) /\ s \in Seq(Commands)
    BY <1>1, <1>2, <1>3, WaitingAppend
  <1> HIDE DEF s
  <1>5. \A d \in Clients \ {c} : link'[d] = link[d]
    BY <1>1, <1>2 DEF TypeOK
  <1>6. Typed'
    BY <1>1, <1>2, <1>4 DEF TypeOK, Typed, Links
  <1>7. Commanded'
    BY <1>1, CommandedJoin
  <1>8. Queued' /\ Longer
    BY <1>1, <1>2, <1>5, QueuedKept
  <1>9. Broadcasting' /\ CaughtUpOn'
    BY <1>1, <1>2, <1>5 DEF Broadcasting, CaughtUpOn, TypeOK
  <1>10. Informed'
    <2>1. \A d \in answered : d \in Clients \ {c}
      BY <1>1, <1>2 DEF TypeOK
    <2>2. \A d \in answered' \ lagging' :
            d \in answered \ lagging /\ (link'[d] # "off" => link[d] # "off")
      BY <1>2, <1>5, <2>1
    <2> QED
      BY <1>1, <1>2, <1>8, <2>2, InformedKept
  <1>11. Forwarded'
    BY <1>1, <1>2, <1>4, ForwardedGrown
  <1> QED
    BY <1>6, <1>7, <1>8, <1>9, <1>10, <1>11, PartsNext

\* It starts to sync.
LEMMA StartSyncStep ==
    ASSUME IInv, NEW c \in Clients, StartSync(c) PROVE IInv'
  <1> DEFINE m == Command("step1", c, replica[c])
             s == << m >>
  <1>1. TypeOK /\ Commanded /\ Queued /\ Broadcasting /\ CaughtUpOn /\ Informed /\ Forwarded
    BY Parts
  <1>2. /\ UNCHANGED <<doc, batch, connections, base, lagging, replica, caught_up, outbound,
                       answered>>
        /\ link[c] = "acked"
        /\ link' = [link EXCEPT ![c] = "on"] /\ mailbox' = Append(mailbox, m)
    BY DEF StartSync, server
  <1>3. m \in Commands /\ m.kind = "step1" /\ m.from = c /\ m.edits = replica[c]
    BY <1>1 DEF Command, Commands, CommandKinds, TypeOK
  <1> HIDE DEF m
  <1>4. /\ Grown(s) /\ mailbox' \in Seq(Commands) /\ batch' \in Seq(Commands)
        /\ s \in Seq(Commands) /\ Len(s) = 1 /\ s[1] = m
    BY <1>1, <1>2, <1>3, WaitingAppend
  <1> HIDE DEF s
  <1>5. link'[c] = "on" /\ \A d \in Clients \ {c} : link'[d] = link[d]
    BY <1>1, <1>2 DEF TypeOK
  <1>6. Typed'
    BY <1>1, <1>2, <1>4 DEF TypeOK, Typed, Links
  <1>7. Commanded'
    <2>1. \A i \in 1..Len(s) :
            /\ s[i].kind # "add"
            /\ s[i].kind # "peer" => s[i].from \in Clients
            /\ s[i].kind = "step1" => /\ link'[s[i].from] = "on"
                                      /\ s[i].edits \subseteq replica'[s[i].from]
      BY <1>2, <1>3, <1>4, <1>5
    <2>2. \A d \in Clients : /\ link[d] = "joining" => link'[d] = "joining"
                             /\ link[d] \in {"on", "off"} => link'[d] \in {"on", "off"}
                             /\ replica[d] \subseteq replica'[d]
      BY <1>2, <1>5
    <2> QED
      BY <1>1, <1>2, <1>4, <2>1, <2>2, CommandedGrown
  <1>8. Queued' /\ Longer
    BY <1>1, <1>2, <1>5, QueuedKept
  <1>9. Broadcasting' /\ CaughtUpOn'
    BY <1>1, <1>2, <1>5 DEF Broadcasting, CaughtUpOn, TypeOK
  <1>10. Informed'
    <2>1. \A d \in answered' \ lagging' :
            d \in answered \ lagging /\ (link'[d] # "off" => link[d] # "off")
      BY <1>1, <1>2, <1>5 DEF TypeOK
    <2> QED
      BY <1>1, <1>2, <1>8, <2>1, InformedKept
  <1>11. Forwarded'
    BY <1>1, <1>2, <1>4, ForwardedGrown
  <1> QED
    BY <1>6, <1>7, <1>8, <1>9, <1>10, <1>11, PartsNext

\* An edit of a client or of a peer.
LEMMA EditStep ==
    ASSUME IInv, NEW e \in Edits, Edit(e) \/ PeerEdit(e) PROVE IInv'
  <1>1. TypeOK /\ Commanded /\ Queued /\ Broadcasting /\ CaughtUpOn /\ Informed /\ Forwarded
    BY Parts
  <1>2. /\ UNCHANGED <<doc, batch, connections, base, lagging, link, caught_up, outbound,
                       answered>>
    BY DEF Edit, PeerEdit, server, client
  <1>3. \E s \in Seq(Commands) :
          /\ mailbox' = mailbox \o s
          /\ \A i \in 1..Len(s) : /\ s[i].kind \notin {"add", "step1"}
                                  /\ s[i].kind # "peer" => s[i].from \in Clients
          /\ \A c \in Clients : /\ replica[c] \subseteq replica'[c]
                                /\ replica'[c] \subseteq Edits
                                /\ \A x \in replica'[c] : \/ x \in replica[c] \/ Up(s, c, x)
                                                          \/ link[c] # "on"
    <2>0. mailbox \in Seq(Commands) /\ replica \in [Clients -> SUBSET Edits]
      BY <1>1 DEF TypeOK
    <2>1. CASE PeerEdit(e)
      <3> DEFINE m == Command("peer", None, {e})
      <3>1. m \in Commands /\ m.kind = "peer"
        BY DEF Command, Commands, CommandKinds
      <3>2. mailbox' = Append(mailbox, m) /\ replica' = replica
        BY <2>1 DEF PeerEdit, client
      <3> HIDE DEF m
      <3>3. mailbox' = mailbox \o << m >> /\ << m >> \in Seq(Commands)
        BY <2>0, <3>1, <3>2, AppendIsConcat
      <3>4. \A i \in 1..Len(<< m >>) : << m >>[i].kind = "peer"
        BY <3>1
      <3>5. \A c \in Clients : replica'[c] = replica[c] /\ replica[c] \subseteq Edits
        BY <2>0, <3>2
      <3> QED
        BY <3>3, <3>4, <3>5
    <2>2. CASE Edit(e) /\ link[Author[e]] = "on"
      <3> DEFINE c == Author[e]
                 m == Command("upload", c, {e})
      <3>1. c \in Clients
        BY <2>2, FanoutAssumption DEF Edit
      <3>2. /\ mailbox' = Append(mailbox, m)
            /\ replica' = [replica EXCEPT ![c] = @ \cup {e}]
        BY <2>2 DEF Edit
      <3>3. m \in Commands /\ m.kind = "upload" /\ m.from = c /\ m.edits = {e}
        BY <3>1 DEF Command, Commands, CommandKinds
      <3> HIDE DEF m
      <3>4. mailbox' = mailbox \o << m >> /\ << m >> \in Seq(Commands)
        BY <2>0, <3>2, <3>3, AppendIsConcat
      <3>5. \A i \in 1..Len(<< m >>) : << m >>[i].kind = "upload" /\ << m >>[i].from \in Clients
        BY <3>1, <3>3
      <3>6. Up(<< m >>, c, e)
        BY <3>3 DEF Up
      <3> HIDE DEF c
      <3>7. /\ replica'[c] = replica[c] \cup {e}
            /\ \A d \in Clients \ {c} : replica'[d] = replica[d]
            /\ \A d \in Clients : replica[d] \subseteq Edits
        BY <2>0, <3>1, <3>2
      <3>8. \A d \in Clients : /\ replica[d] \subseteq replica'[d] /\ replica'[d] \subseteq Edits
                               /\ \A x \in replica'[d] : x \in replica[d] \/ Up(<< m >>, d, x)
        BY <3>6, <3>7
      <3> QED
        BY <3>4, <3>5, <3>8
    <2>3. CASE Edit(e) /\ link[Author[e]] # "on"
      <3> DEFINE c == Author[e]
      <3>1. c \in Clients
        BY <2>3, FanoutAssumption DEF Edit
      <3>2. /\ mailbox' = mailbox /\ replica' = [replica EXCEPT ![c] = @ \cup {e}]
            /\ link[c] # "on"
        BY <2>3 DEF Edit
      <3> HIDE DEF c
      <3>3. mailbox' = mailbox \o << >> /\ << >> \in Seq(Commands)
        BY <2>0, <3>2, ConcatEmptySeq
      <3>4. /\ replica'[c] = replica[c] \cup {e}
            /\ \A d \in Clients \ {c} : replica'[d] = replica[d]
            /\ \A d \in Clients : replica[d] \subseteq Edits
        BY <2>0, <3>1, <3>2
      <3>5. \A d \in Clients : /\ replica[d] \subseteq replica'[d] /\ replica'[d] \subseteq Edits
                               /\ \A x \in replica'[d] : x \in replica[d] \/ link[d] # "on"
        BY <3>2, <3>4
      <3>6. \A i \in 1..Len(<< >>) : FALSE
        OBVIOUS
      <3> QED
        BY <3>3, <3>5, <3>6
    <2> QED
      BY <2>1, <2>2, <2>3
  <1>4. PICK s \in Seq(Commands) :
          /\ mailbox' = mailbox \o s
          /\ \A i \in 1..Len(s) : /\ s[i].kind \notin {"add", "step1"}
                                  /\ s[i].kind # "peer" => s[i].from \in Clients
          /\ \A c \in Clients : /\ replica[c] \subseteq replica'[c]
                                /\ replica'[c] \subseteq Edits
                                /\ \A x \in replica'[c] : \/ x \in replica[c] \/ Up(s, c, x)
                                                          \/ link[c] # "on"
    BY <1>3
  <1>5. Grown(s) /\ mailbox' \in Seq(Commands) /\ batch' \in Seq(Commands)
    BY <1>1, <1>2, <1>4, WaitingGrows
  <1>6. replica' \in [Clients -> SUBSET Edits]
    <2>1. replica \in [Clients -> SUBSET Edits]
      BY <1>1 DEF TypeOK
    <2>2. replica' = replica \/ replica' = [replica EXCEPT ![Author[e]] = @ \cup {e}]
      BY DEF Edit, PeerEdit, client
    <2> QED
      BY <2>1, <2>2
  <1>7. Typed'
    BY <1>1, <1>2, <1>5, <1>6 DEF TypeOK, Typed
  <1>8. Commanded'
    BY <1>1, <1>2, <1>4, <1>5, CommandedGrown
  <1>9. Queued' /\ Longer
    BY <1>1, <1>2, QueuedKept
  <1>10. Broadcasting' /\ CaughtUpOn'
    BY <1>1, <1>2 DEF Broadcasting, CaughtUpOn
  <1>11. Informed'
    BY <1>1, <1>2, <1>4, <1>9, InformedKept
  <1>12. Forwarded'
    <2>1. \A c \in caught_up' : \A x \in replica'[c] :
            (c \in caught_up /\ x \in replica[c]) \/ x \in doc \/ Up(s, c, x)
      BY <1>1, <1>2, <1>4 DEF CaughtUpOn, TypeOK
    <2> QED
      BY <1>1, <1>2, <1>5, <2>1, ForwardedGrown
  <1> QED
    BY <1>7, <1>8, <1>9, <1>10, <1>11, <1>12, PartsNext

\* The socket of a client ends.
LEMMA HangUpStep ==
    ASSUME IInv, NEW c \in Clients, NEW last \in {<< >>, << Command("close", c, {}) >>},
           HangUp(c, last), link[c] \in {"acked", "on"}
    PROVE  IInv'
  <1> DEFINE m == Command("remove", c, {})
             s == Append(last, m)
  <1>1. TypeOK /\ Commanded /\ Queued /\ Broadcasting /\ CaughtUpOn /\ Informed /\ Forwarded
    BY Parts
  <1>2. /\ UNCHANGED <<doc, batch, connections, base, lagging, replica, answered>>
        /\ link' = [link EXCEPT ![c] = "off"] /\ outbound' = [outbound EXCEPT ![c] = << >>]
        /\ mailbox' = mailbox \o s /\ caught_up' = caught_up \ {c}
    BY DEF HangUp, server
  <1>3. /\ m \in Commands /\ m.kind = "remove" /\ m.from = c
        /\ Command("close", c, {}) \in Commands
        /\ Command("close", c, {}).kind = "close" /\ Command("close", c, {}).from = c
    BY DEF Command, Commands, CommandKinds
  <1>4. /\ s \in Seq(Commands)
        /\ \A i \in 1..Len(s) : s[i].kind \in {"remove", "close"} /\ s[i].from = c
    <2> HIDE DEF m
    <2>1. /\ last \in Seq(Commands)
          /\ \A i \in 1..Len(last) : last[i].kind = "close" /\ last[i].from = c
      <3>1. CASE last = << >>
        BY <3>1
      <3>2. CASE last = << Command("close", c, {}) >>
        <4>1. PICK x \in Commands : last = << x >> /\ x.kind = "close" /\ x.from = c
          BY <1>3, <3>2
        <4> QED
          BY <4>1
      <3> QED
        BY <3>1, <3>2
    <2>2. /\ s \in Seq(Commands) /\ Len(s) = Len(last) + 1 /\ Len(last) \in Nat
          /\ \A i \in 1..Len(last) : s[i] = last[i]
          /\ s[Len(last) + 1] = m
      BY <1>3, <2>1, AppendProperties, LenProperties
    <2> HIDE DEF s
    <2>3. \A i \in 1..Len(s) : i \in 1..Len(last) \/ i = Len(last) + 1
      BY <2>2
    <2> QED
      BY <1>3, <2>1, <2>2, <2>3
  <1> HIDE DEF s
  <1>5. Grown(s) /\ mailbox' \in Seq(Commands) /\ batch' \in Seq(Commands)
    BY <1>1, <1>2, <1>4, WaitingGrows
  <1>6. link'[c] = "off" /\ \A d \in Clients \ {c} : link'[d] = link[d]
    BY <1>1, <1>2 DEF TypeOK
  <1>7. outbound'[c] = << >> /\ \A d \in Clients \ {c} : outbound'[d] = outbound[d]
    BY <1>1, <1>2 DEF Queued
  <1>8. Typed'
    BY <1>1, <1>2, <1>5 DEF TypeOK, Typed, Links
  <1>9. Commanded'
    <2>1. \A d \in Clients : /\ link[d] = "joining" => link'[d] = "joining"
                             /\ link[d] \in {"on", "off"} => link'[d] \in {"on", "off"}
                             /\ replica[d] \subseteq replica'[d]
      BY <1>2, <1>6
    <2> QED
      BY <1>1, <1>2, <1>4, <1>5, <2>1, CommandedGrown
  <1>10. Queued'
    <2>1. << >> \in Seq(Frames) /\ Len(<< >>) = 0 /\ 0 <= Capacity
      BY FanoutAssumption
    <2>2. outbound' \in [Clients -> Seq(Frames)]
      BY <1>1, <1>2, <2>1 DEF Queued
    <2>3. \A d \in Clients : Len(outbound'[d]) <= Capacity
      BY <1>1, <1>7, <2>1 DEF Queued
    <2>4. FramesKnown'
      BY <1>1, <1>2, <1>6, <1>7, <2>1 DEF Queued, FramesKnown
    <2> QED
      BY <2>2, <2>3, <2>4 DEF Queued
  <1>11. Broadcasting' /\ CaughtUpOn'
    BY <1>1, <1>2, <1>6 DEF Broadcasting, CaughtUpOn, TypeOK
  <1>12. Informed'
    BY <1>1, <1>2, <1>6, <1>7 DEF Informed, TypeOK
  <1>13. Forwarded'
    BY <1>1, <1>2, <1>4, <1>5, ForwardedGrown
  <1> QED
    BY <1>8, <1>9, <1>10, <1>11, <1>12, <1>13, PartsNext

\* The frame that a client takes from its queue.
LEMMA Received ==
    ASSUME TypeOK, Queued, NEW c \in Clients, outbound[c] # << >>,
           outbound' = [outbound EXCEPT ![c] = Tail(@)], UNCHANGED <<doc, link>>
    PROVE  /\ Queued'
           /\ Head(outbound[c]).edits \subseteq doc
           /\ Head(outbound[c]).kind = "step1" => link[c] = "on"
           /\ \A e : Down(outbound[c], e) =>
                \/ Down(outbound'[c], e)
                \/ /\ Head(outbound[c]).kind \in {"step2", "update"}
                   /\ e \in Head(outbound[c]).edits
           /\ \A d \in Clients \ {c} : outbound'[d] = outbound[d]
  <1> DEFINE q == outbound[c]
             r == Tail(q)
  <1>1. q \in Seq(Frames) /\ q # << >> /\ Len(q) \in Nat /\ Len(q) > 0 /\ Head(q) = q[1]
    BY LenProperties, EmptySeq DEF TypeOK
  <1>2. /\ r \in Seq(Frames) /\ Len(r) = Len(q) - 1
        /\ \A i \in 1..Len(r) : r[i] = q[i + 1]
    BY <1>1, HeadTailProperties
  <1>3. outbound'[c] = r /\ \A d \in Clients \ {c} : outbound'[d] = outbound[d]
    BY DEF Queued
  <1>4. \A i \in 1..Len(q) : /\ q[i].edits \subseteq doc
                             /\ q[i].kind = "step1" => link[c] = "on"
    BY DEF Queued, FramesKnown
  <1>5. Len(q) <= Capacity /\ Capacity \in Nat
    BY FanoutAssumption DEF Queued
  <1>6. outbound' \in [Clients -> Seq(Frames)]
    BY <1>2 DEF Queued
  <1> HIDE DEF r, q
  <1>7. \A i \in 1..Len(r) : i + 1 \in 1..Len(q)
    BY <1>1, <1>2
  <1>8. FramesKnown'
    <2>1. \A i \in 1..Len(r) : /\ r[i].edits \subseteq doc
                               /\ r[i].kind = "step1" => link[c] = "on"
      BY <1>2, <1>4, <1>7
    <2> QED
      BY <1>3, <2>1 DEF Queued, FramesKnown
  <1>9. \A d \in Clients : Len(outbound'[d]) <= Capacity
    BY <1>1, <1>2, <1>3, <1>5 DEF Queued
  <1>10. ASSUME NEW e, Down(q, e)
         PROVE  Down(r, e) \/ (Head(q).kind \in {"step2", "update"} /\ e \in Head(q).edits)
    <2>1. PICK i \in 1..Len(q) : q[i].kind \in {"step2", "update"} /\ e \in q[i].edits
      BY <1>10 DEF Down
    <2>2. CASE i = 1
      BY <1>1, <2>1, <2>2
    <2>3. CASE i # 1
      <3>1. i - 1 \in 1..Len(r) /\ (i - 1) + 1 = i
        BY <1>1, <1>2, <2>3
      <3>2. r[i - 1] = q[i]
        BY <1>2, <3>1
      <3> QED
        BY <2>1, <3>1, <3>2 DEF Down
    <2> QED
      BY <2>2, <2>3
  <1>11. 1 \in 1..Len(q)
    BY <1>1
  <1>12. Queued'
    BY <1>6, <1>8, <1>9 DEF Queued
  <1>13. \A e : Down(q, e) =>
           Down(outbound'[c], e) \/ (Head(q).kind \in {"step2", "update"} /\ e \in Head(q).edits)
    BY <1>3, <1>10
  <1>14. Head(q).edits \subseteq doc /\ (Head(q).kind = "step1" => link[c] = "on")
    BY <1>1, <1>4, <1>11
  <1> QED
    BY <1>3, <1>12, <1>13, <1>14 DEF q

\* A client receives edits or a status.
LEMMA DeliverEditsStep ==
    ASSUME IInv, NEW c \in Clients, outbound[c] # << >>,
           Head(outbound[c]).kind \in {"step2", "update", "status"},
           replica' = [replica EXCEPT ![c] = @ \cup Head(outbound[c]).edits],
           outbound' = [outbound EXCEPT ![c] = Tail(@)],
           UNCHANGED <<server, link, mailbox, answered, caught_up>>
    PROVE  IInv'
  <1>1. TypeOK /\ Commanded /\ Queued /\ Broadcasting /\ CaughtUpOn /\ Informed /\ Forwarded
    BY Parts
  <1>2. UNCHANGED <<doc, batch, connections, base, lagging, link, mailbox, answered, caught_up>>
    BY DEF server
  <1> DEFINE f == Head(outbound[c])
  <1>3. /\ Queued' /\ f.edits \subseteq doc
        /\ \A e : Down(outbound[c], e) => Down(outbound'[c], e) \/ e \in f.edits
        /\ \A d \in Clients \ {c} : outbound'[d] = outbound[d]
    BY <1>1, <1>2, Received
  <1> HIDE DEF f
  <1>4. /\ replica \in [Clients -> SUBSET Edits] /\ doc \subseteq Edits
        /\ replica' = [replica EXCEPT ![c] = @ \cup f.edits]
    BY <1>1 DEF TypeOK, f
  <1>5. /\ replica'[c] = replica[c] \cup f.edits
        /\ \A d \in Clients \ {c} : replica'[d] = replica[d]
    BY <1>4
  <1>6. \A d \in Clients : replica[d] \subseteq replica'[d]
    BY <1>5
  <1>7. replica' \in [Clients -> SUBSET Edits]
    <2>1. replica[c] \cup f.edits \in SUBSET Edits
      BY <1>3, <1>4
    <2> QED
      BY <1>4, <2>1
  <1>8. Typed'
    BY <1>1, <1>2, <1>7 DEF TypeOK, Typed
  <1>9. << >> \in Seq(Commands) /\ mailbox' = mailbox \o << >>
    BY <1>1, <1>2, ConcatEmptySeq DEF TypeOK
  <1>10. Grown(<< >>)
    BY <1>1, <1>2, <1>9, WaitingGrows
  <1>11. Commanded'
    <2>1. \A i \in 1..Len(<< >>) : FALSE
      OBVIOUS
    <2> QED
      BY <1>1, <1>2, <1>6, <1>9, <1>10, <2>1, CommandedGrown
  <1>12. Broadcasting' /\ CaughtUpOn'
    BY <1>1, <1>2 DEF Broadcasting, CaughtUpOn
  <1>13. Informed'
    <2> SUFFICES ASSUME NEW d \in answered \ lagging, link[d] # "off", NEW e \in doc
                 PROVE  e \in replica'[d] \/ Down(outbound'[d], e) \/ (base # None /\ e \notin base)
      BY <1>2 DEF Informed
    <2>1. e \in replica[d] \/ Down(outbound[d], e) \/ (base # None /\ e \notin base)
      BY <1>1 DEF Informed
    <2>2. d \in Clients
      BY <1>1 DEF TypeOK
    <2>3. CASE d = c
      BY <1>3, <1>5, <2>1, <2>3
    <2>4. CASE d # c
      BY <1>3, <1>5, <2>1, <2>2, <2>4
    <2> QED
      BY <2>3, <2>4
  <1>14. Forwarded'
    <2>1. \A d \in caught_up' : \A e \in replica'[d] :
            (d \in caught_up /\ e \in replica[d]) \/ e \in doc
      BY <1>1, <1>2, <1>3, <1>5 DEF TypeOK
    <2> QED
      BY <1>1, <1>2, <1>9, <1>10, <2>1, ForwardedGrown
  <1> QED
    BY <1>3, <1>8, <1>11, <1>12, <1>13, <1>14, PartsNext

\* A client receives the server's SyncStep1 and sends up what the server lacks.
LEMMA DeliverStep1Step ==
    ASSUME IInv, NEW c \in Clients, outbound[c] # << >>, Head(outbound[c]).kind = "step1",
           outbound' = [outbound EXCEPT ![c] = Tail(@)],
           mailbox' = Append(mailbox,
                             Command("upload", c, replica[c] \ Head(outbound[c]).edits)),
           caught_up' = caught_up \cup {c},
           UNCHANGED <<server, replica, link, answered>>
    PROVE  IInv'
  <1>1. TypeOK /\ Commanded /\ Queued /\ Broadcasting /\ CaughtUpOn /\ Informed /\ Forwarded
    BY Parts
  <1>2. UNCHANGED <<doc, batch, connections, base, lagging, replica, link, answered>>
    BY DEF server
  <1> DEFINE f == Head(outbound[c])
             m == Command("upload", c, replica[c] \ f.edits)
             s == << m >>
  <1>3. /\ Queued' /\ f.edits \subseteq doc /\ link[c] = "on"
        /\ \A e : Down(outbound[c], e) => Down(outbound'[c], e)
        /\ \A d \in Clients \ {c} : outbound'[d] = outbound[d]
    BY <1>1, <1>2, Received
  <1> HIDE DEF f
  <1>4. /\ m \in Commands /\ m.kind = "upload" /\ m.from = c /\ m.edits = replica[c] \ f.edits
    BY <1>1 DEF TypeOK, Command, Commands, CommandKinds
  <1>5. mailbox' = Append(mailbox, m)
    BY DEF f
  <1> HIDE DEF m
  <1>6. /\ Grown(s) /\ mailbox' \in Seq(Commands) /\ batch' \in Seq(Commands)
        /\ s \in Seq(Commands) /\ Len(s) = 1 /\ s[1] = m
    <2>1. m \in Commands /\ mailbox' = Append(mailbox, m) /\ batch' = batch
      BY <1>2, <1>4, <1>5
    <2>2. Grown(s) /\ mailbox' \in Seq(Commands) /\ batch' \in Seq(Commands)
      BY <1>1, <2>1, WaitingAppend
    <2>3. s \in Seq(Commands) /\ Len(s) = 1 /\ s[1] = m
      BY <2>1
    <2> QED
      BY <2>2, <2>3
  <1> HIDE DEF s
  <1>7. \A e \in replica[c] \ f.edits : Up(s, c, e)
    BY <1>4, <1>6 DEF Up
  <1>8. Typed'
    BY <1>1, <1>2, <1>6 DEF TypeOK, Typed
  <1>9. Commanded'
    <2>1. \A i \in 1..Len(s) : s[i].kind = "upload" /\ s[i].from \in Clients
      BY <1>4, <1>6
    <2> QED
      BY <1>1, <1>2, <1>6, <2>1, CommandedGrown
  <1>10. Broadcasting' /\ CaughtUpOn'
    BY <1>1, <1>2, <1>3 DEF Broadcasting, CaughtUpOn
  <1>11. Informed'
    <2> SUFFICES ASSUME NEW d \in answered \ lagging, link[d] # "off", NEW e \in doc
                 PROVE  e \in replica[d] \/ Down(outbound'[d], e) \/ (base # None /\ e \notin base)
      BY <1>2 DEF Informed
    <2>1. e \in replica[d] \/ Down(outbound[d], e) \/ (base # None /\ e \notin base)
      BY <1>1 DEF Informed
    <2>2. d \in Clients
      BY <1>1 DEF TypeOK
    <2> QED
      BY <1>3, <2>1, <2>2
  <1>12. Forwarded'
    <2>1. \A d \in caught_up' : \A e \in replica'[d] :
            (d \in caught_up /\ e \in replica[d]) \/ e \in doc \/ Up(s, d, e)
      BY <1>2, <1>3, <1>7
    <2> QED
      BY <1>1, <1>2, <1>6, <2>1, ForwardedGrown
  <1> QED
    BY <1>3, <1>8, <1>9, <1>10, <1>11, <1>12, PartsNext

-----------------------------------------------------------------------------

\* The first state.
LEMMA InitIInv == Init => IInv
  <1> SUFFICES ASSUME Init PROVE IInv
    OBVIOUS
  <1>1. << >> \in Seq(Commands) /\ << >> \in Seq(Frames) /\ Len(<< >>) = 0
    OBVIOUS
  <1>2. Waiting = << >>
    BY DEF Init, Waiting
  <1>3. TypeOK
    BY <1>1, FanoutAssumption DEF Init, TypeOK, Links
  <1>4. Shapes /\ Registering /\ Asking
    BY <1>1, <1>2 DEF Init, Shapes, Registering, Asking
  <1>5. FramesKnown /\ Broadcasting /\ CaughtUpOn /\ NothingMissed /\ NothingStranded
    BY DEF Init, FramesKnown, Broadcasting, CaughtUpOn, NothingMissed, NothingStranded
  <1> QED
    BY <1>3, <1>4, <1>5 DEF IInv

\* A step that changes nothing.
LEMMA StutterIInv == IInv /\ UNCHANGED vars => IInv'
  <1> SUFFICES ASSUME IInv, UNCHANGED vars PROVE IInv'
    OBVIOUS
  <1>1. Waiting' = Waiting
    BY DEF vars, Waiting
  <1>2. TypeOK' /\ Shapes' /\ Registering' /\ Asking'
    BY <1>1 DEF vars, IInv, TypeOK, Shapes, Registering, Asking
  <1>3. FramesKnown' /\ Broadcasting' /\ CaughtUpOn'
    BY DEF vars, IInv, FramesKnown, Broadcasting, CaughtUpOn
  <1>4. NothingMissed'
    BY DEF vars, IInv, NothingMissed, Downstream
  <1>5. NothingStranded'
    BY DEF vars, IInv, NothingStranded, Upstream
  <1> QED
    BY <1>2, <1>3, <1>4, <1>5 DEF IInv

\* Every step.
LEMMA NextIInv == IInv /\ [Next]_vars => IInv'
  <1> SUFFICES ASSUME IInv, [Next]_vars PROVE IInv'
    OBVIOUS
  <1>1. CASE ActorStep
    <2>1. ASSUME NEW m, HandleCommand(m) PROVE IInv'
      BY <2>1, AddStep, QuietStep, Step1Step, ApplyStep DEF HandleCommand
    <2> QED
      BY <1>1, <2>1, DrainStep, FlushStep, EvictStep DEF ActorStep
  <1>2. ASSUME NEW c \in Clients, Disconnect(c) PROVE IInv'
    BY <1>2, HangUpStep DEF Disconnect
  <1>3. ASSUME NEW c \in Clients, Deliver(c) PROVE IInv'
    <2>1. CASE HangUp(c, << >>)
      BY <1>3, <2>1, HangUpStep DEF Deliver
    <2>2. CASE ~HangUp(c, << >>)
      BY <1>3, <2>2, DeliverEditsStep, DeliverStep1Step DEF Deliver
    <2> QED
      BY <2>1, <2>2
  <1>4. CASE UNCHANGED vars
    BY <1>4, StutterIInv
  <1> QED
    BY <1>1, <1>2, <1>3, <1>4, JoinStep, StartSyncStep, EditStep DEF Next

-----------------------------------------------------------------------------

\* The invariant holds in every reachable state.
THEOREM FanoutInvariant == Spec => []IInv
  BY InitIInv, NextIInv, PTL DEF Spec

\* Every variable keeps its type, and no outbound queue exceeds its capacity,
\* whatever the actor, the writers and the clients do in between.
THEOREM FanoutTypes == Spec => []TypeOK
  <1>1. IInv => TypeOK
    BY DEF IInv
  <1> QED
    BY <1>1, FanoutInvariant, PTL

\* A connection whose SyncStep2 was sent misses nothing, with any number of
\* clients, of coalesced updates and of frames dropped by full queues.
THEOREM ClientsInformed == Spec => []NothingMissed
  <1>1. IInv => NothingMissed
    BY DEF IInv
  <1> QED
    BY <1>1, FanoutInvariant, PTL

\* What a registered client that may write has edited is in the document or on
\* its way, once it has answered the server's SyncStep1.
THEOREM EditsForwarded == Spec => []NothingStranded
  <1>1. IInv => NothingStranded
    BY DEF IInv
  <1> QED
    BY <1>1, FanoutInvariant, PTL
=============================================================================
