------------------------- MODULE RedisScalingProofs -------------------------
(***************************************************************************)
(* What RedisScaling guarantees for any number of nodes and edits, any     *)
(* number of loads, lossy delivery and failing stores.                     *)
(***************************************************************************)
EXTENDS RedisScaling, TLAPS

\* What node n has, is about to get, or may have missed.
Known(n) == doc[n] \cup OnWire(n) \cup gap[n]

\* What is on its way to some node is no news to the others that have the
\* document: each has it, has its own copy on the wire, or missed it.
WireKnown == \A n, p \in Nodes : Here(n) => OnWire(p) \subseteq Known(n)

\* Only nodes that have the document answer and are answered.
AnswersAmongResidents ==
    \A n, p \in Nodes : p \in answered[n] => Here(n) /\ Here(p)

\* A store carries what its node has, but for what the node has learnt since, which
\* makes it dirty; and an unload waits for its store.
SnapshotsOfDoc ==
    \A n \in Nodes : store[n] # "idle" =>
        /\ snapshot[n] \subseteq doc[n]
        /\ doc[n] = snapshot[n] \/ (phase[n] = "resident" /\ dirty[n])

\* Between taking the lock and giving it back a node holds it, unless it expired.
HolderOrOverrun ==
    \A n \in Nodes : store[n] \in {"writing", "written"} => lock = n \/ n \in overrun

\* What a node that has the document lacks of the storage is on the wire to it, was
\* missed by it, or is with a peer that has not answered it.
StorageKnown ==
    \A n \in Nodes : Here(n) => stored \subseteq Known(n) \cup Unanswered(n)

\* The inductive invariant.
IInv ==
    /\ TypeOK
    /\ WireKnown
    /\ AnswersAmongResidents
    /\ SnapshotsOfDoc
    /\ UnsavedIsRetried
    /\ HolderOrOverrun
    /\ Converges
    /\ StorageKnown

-----------------------------------------------------------------------------
(* The channel. *)

\* The edits that the frames of a set carry to node n.
Carried(wire, n) == UNION {f.edits : f \in {g \in wire : g.to = n /\ g.kind # "step1"}}

\* OnWire is what the channel carries, before and after a step.
LEMMA OnWireCarried ==
    ASSUME NEW n
    PROVE  OnWire(n) = Carried(channel, n) /\ OnWire(n)' = Carried(channel', n)
  BY DEF OnWire, Carried

\* An edit is carried by some frame.
LEMMA CarriedMember ==
    ASSUME NEW wire, NEW n, NEW e
    PROVE  e \in Carried(wire, n) <=>
               \E f \in wire : f.to = n /\ f.kind # "step1" /\ e \in f.edits
  BY DEF Carried

\* What is published is added to what was carried.
LEMMA CarriedUnion ==
    ASSUME NEW u, NEW w, NEW v, u = w \cup v, NEW n
    PROVE  Carried(u, n) = Carried(w, n) \cup Carried(v, n)
  <1>1. ASSUME NEW e PROVE e \in Carried(u, n) <=> e \in Carried(w, n) \cup Carried(v, n)
    BY CarriedMember
  <1> QED
    BY <1>1

\* A publication carries its edits to everybody but the publisher, a SyncStep1 none.
LEMMA CarriedPublished ==
    ASSUME NEW p \in Nodes, NEW n \in Nodes, NEW kind, NEW es
    PROVE  /\ kind # "step1" /\ n # p => Carried(Published(p, kind, es), n) = es
           /\ kind = "step1" \/ n = p => Carried(Published(p, kind, es), n) = {}
  <1>1. ASSUME NEW e
        PROVE  e \in Carried(Published(p, kind, es), n) <=> kind # "step1" /\ n # p /\ e \in es
    <2>1. ASSUME NEW f \in Published(p, kind, es)
          PROVE  f.to \in Nodes \ {p} /\ f.kind = kind /\ f.edits = es
      BY <2>1 DEF Published
    <2>2. n # p => /\ [from |-> p, to |-> n, kind |-> kind, edits |-> es] \in Published(p, kind, es)
                   /\ [from |-> p, to |-> n, kind |-> kind, edits |-> es].to = n
                   /\ [from |-> p, to |-> n, kind |-> kind, edits |-> es].kind = kind
                   /\ [from |-> p, to |-> n, kind |-> kind, edits |-> es].edits = es
      BY DEF Published
    <2> QED
      BY <2>1, <2>2, CarriedMember
  <1> QED
    BY <1>1

\* Taking a frame off the wire takes at most its edits, and only from its receiver.
LEMMA CarriedWithout ==
    ASSUME NEW u, NEW w, NEW f \in w, u = w \ {f}, NEW n
    PROVE  /\ Carried(u, n) \subseteq Carried(w, n)
           /\ Carried(w, n) \subseteq Carried(u, n) \cup f.edits
           /\ f.to # n \/ f.kind = "step1" => Carried(u, n) = Carried(w, n)
           /\ f.kind # "step1" => f.edits \subseteq Carried(w, f.to)
  <1>1. ASSUME NEW e
        PROVE  /\ e \in Carried(u, n) => e \in Carried(w, n)
               /\ e \in Carried(w, n) => e \in Carried(u, n) \cup f.edits
               /\ (f.to # n \/ f.kind = "step1") =>
                      (e \in Carried(w, n) => e \in Carried(u, n))
               /\ f.kind # "step1" => (e \in f.edits => e \in Carried(w, f.to))
    BY CarriedMember
  <1> QED
    BY <1>1

\* A step that takes a frame off the wire, in terms of OnWire.
LEMMA OnWireWithout ==
    ASSUME NEW f \in channel, channel' = channel \ {f}, NEW n
    PROVE  /\ OnWire(n)' \subseteq OnWire(n)
           /\ OnWire(n) \subseteq OnWire(n)' \cup f.edits
           /\ n # f.to \/ f.kind = "step1" => OnWire(n)' = OnWire(n)
  <1>1. OnWire(n) = Carried(channel, n) /\ OnWire(n)' = Carried(channel', n)
    BY OnWireCarried
  <1>2. ASSUME NEW e
        PROVE  /\ e \in OnWire(n)' => e \in OnWire(n)
               /\ e \in OnWire(n) => e \in OnWire(n)' \cup f.edits
               /\ n # f.to \/ f.kind = "step1" => (e \in OnWire(n) => e \in OnWire(n)')
    BY <1>1, CarriedMember
  <1> QED
    BY <1>2

\* Published frames are frames.
LEMMA PublishedType ==
    ASSUME NEW n \in Nodes, NEW kind \in FrameKinds, NEW es \in SUBSET Edits
    PROVE  Published(n, kind, es) \subseteq Frames
  BY DEF Published, Frames

-----------------------------------------------------------------------------
(* What a step does to what nodes know of each other. *)

\* The part of the invariant that relates the nodes' documents and the storage.
Shared == WireKnown /\ AnswersAmongResidents /\ Converges /\ StorageKnown

\* An edit is to be learnt from some peer.
LEMMA UnansweredMember ==
    ASSUME NEW n, NEW e
    PROVE  /\ e \in Unanswered(n) <=>
                  \E p \in Nodes \ {n} : Here(p) /\ p \notin answered[n] /\ e \in doc[p]
           /\ e \in Unanswered(n)' <=>
                  \E p \in Nodes \ {n} : Here(p)' /\ p \notin answered'[n] /\ e \in doc'[p]
  BY DEF Unanswered

\* What a node has is within reach of every other.
LEMMA DocsWithinReach ==
    ASSUME Converges, NEW n \in Nodes, NEW p \in Nodes, Here(n), Here(p)
    PROVE  doc[p] \subseteq Known(n) \cup Unanswered(n)
  <1>1. CASE p = n
    BY <1>1 DEF Known
  <1>2. CASE p # n /\ p \in answered[n]
    BY <1>2 DEF Converges, Known
  <1>3. CASE p # n /\ p \notin answered[n]
    BY <1>3, UnansweredMember
  <1> QED
    BY <1>1, <1>2, <1>3

\* A step that leaves the storage alone leaves it within reach of a node, if the
\* node forgets nothing and a peer that has not answered keeps its document or
\* leaves it behind with the node.
LEMMA ReachKept ==
    ASSUME StorageKnown, Converges', stored' = stored,
           NEW n \in Nodes, Here(n), Here(n)',
           Known(n) \subseteq Known(n)',
           \A p \in Nodes \ {n} : Here(p) /\ p \notin answered[n] =>
               doc[p] \subseteq Known(n)' \/ (Here(p)' /\ doc[p] \subseteq doc'[p])
    PROVE  stored' \subseteq Known(n)' \cup Unanswered(n)'
  <1> SUFFICES ASSUME NEW e \in stored PROVE e \in Known(n)' \cup Unanswered(n)'
    OBVIOUS
  <1>1. CASE e \in Known(n)
    BY <1>1
  <1>2. CASE e \in Unanswered(n)
    <2>1. PICK p \in Nodes \ {n} : Here(p) /\ p \notin answered[n] /\ e \in doc[p]
      BY <1>2, UnansweredMember
    <2>2. CASE Here(p)' /\ p \notin answered'[n] /\ e \in doc'[p]
      BY <2>2, UnansweredMember
    <2>3. CASE Here(p)' /\ p \in answered'[n] /\ e \in doc'[p]
      BY <2>3 DEF Converges, Known
    <2> QED
      BY <2>1, <2>2, <2>3
  <1> QED
    BY <1>1, <1>2 DEF StorageKnown

\* A step that leaves documents and channel alone and writes at most what some
\* node has.
LEMMA StorageStep ==
    ASSUME Shared,
           UNCHANGED <<doc, channel, answered, gap>>,
           \A n \in Nodes : Here(n)' <=> Here(n),
           stored' = stored \/ \E p \in Nodes : Here(p) /\ stored' \subseteq doc[p]
    PROVE  Shared'
  <1>1. \A n \in Nodes : OnWire(n)' = OnWire(n) /\ Known(n)' = Known(n)
    BY DEF OnWire, Known
  <1>2. WireKnown' /\ AnswersAmongResidents' /\ Converges'
    BY <1>1 DEF Shared, WireKnown, AnswersAmongResidents, Converges, Known
  <1>3. ASSUME NEW n \in Nodes PROVE Unanswered(n)' = Unanswered(n)
    BY DEF Unanswered
  <1>4. ASSUME NEW n \in Nodes, Here(n)
        PROVE  stored' \subseteq Known(n)' \cup Unanswered(n)'
    BY <1>1, <1>3, <1>4, DocsWithinReach DEF Shared, StorageKnown
  <1>5. StorageKnown'
    BY <1>4 DEF StorageKnown
  <1> QED
    BY <1>2, <1>5 DEF Shared

\* The document leaves a node: whoever it had not answered may have missed what it
\* had, the others have it all.
LEMMA GoneStep ==
    ASSUME TypeOK, Shared, NEW n \in Nodes, Gone(n), UNCHANGED <<channel, stored>>
    PROVE  Shared'
  <1>1. /\ ~Here(n)'
        /\ \A p \in Nodes \ {n} : (Here(p)' <=> Here(p)) /\ doc'[p] = doc[p]
        /\ answered'[n] = {}
        /\ \A p \in Nodes \ {n} : answered'[p] = answered[p] \ {n}
        /\ \A p \in Nodes \ {n} :
              gap'[p] = IF Here(p) /\ n \notin answered[p] THEN gap[p] \cup doc[n] ELSE gap[p]
    BY DEF Gone, TypeOK, Here
  <1>2. ASSUME NEW p \in Nodes \ {n}
        PROVE  /\ Known(p) \subseteq Known(p)'
               /\ Here(p) /\ n \notin answered[p] => doc[n] \subseteq Known(p)'
               /\ OnWire(p)' = OnWire(p)
    BY <1>1 DEF Known, OnWire
  <1>3. OnWire(n)' = OnWire(n)
    BY DEF OnWire
  <1>4. WireKnown' /\ AnswersAmongResidents'
    BY <1>1, <1>2, <1>3 DEF Shared, WireKnown, AnswersAmongResidents
  <1>5. Converges'
    <2> SUFFICES ASSUME NEW m \in Nodes, NEW p \in Nodes, Here(m)', Here(p)', p \in answered'[m]
                 PROVE  doc'[p] \subseteq Known(m)'
      BY DEF Converges, Known
    <2> QED
      BY <1>1, <1>2 DEF Shared, Converges, Known
  <1>6. StorageKnown'
    BY <1>1, <1>2, <1>5, ReachKept DEF Shared, StorageKnown
  <1> QED
    BY <1>4, <1>5, <1>6 DEF Shared

\* A step that only adds: every node that has the document keeps what it knows, the
\* wire and the answers stay within what nodes know, and the storage is left alone.
LEMMA GrowStep ==
    ASSUME Shared, stored' = stored,
           \A n \in Nodes : Here(n)' <=> Here(n),
           \A n \in Nodes : Here(n) => Known(n) \subseteq Known(n)' /\ doc[n] \subseteq doc'[n],
           WireKnown', AnswersAmongResidents', Converges'
    PROVE  Shared'
  BY ReachKept DEF Shared, StorageKnown

\* An edit made on a node is on the wire to every other one.
LEMMA EditStep ==
    ASSUME TypeOK, Shared, NEW n \in Nodes, NEW e \in Edits, Edit(n, e)
    PROVE  Shared'
  <1>1. /\ doc' = [doc EXCEPT ![n] = @ \cup {e}]
        /\ channel' = channel \cup Published(n, "update", {e})
        /\ UNCHANGED <<phase, stored, answered, gap>>
    BY DEF Edit, Apply, OnChange, storage, since
  <1>2. \A p \in Nodes : /\ doc'[p] = IF p = n THEN doc[p] \cup {e} ELSE doc[p]
                         /\ Here(p)' <=> Here(p)
    BY <1>1 DEF TypeOK, Here
  <1>3. ASSUME NEW p \in Nodes
        PROVE  OnWire(p)' = IF p = n THEN OnWire(p) ELSE OnWire(p) \cup {e}
    <2>0. PICK pub : pub = Published(n, "update", {e})
      OBVIOUS
    <2>1. OnWire(p) = Carried(channel, p) /\ OnWire(p)' = Carried(channel', p)
      BY OnWireCarried
    <2>2. Carried(channel', p) = Carried(channel, p) \cup Carried(pub, p)
      <3>1. channel' = channel \cup pub
        BY <1>1, <2>0
      <3> QED
        BY <3>1, CarriedUnion
    <2>3. Carried(pub, p) = IF p = n THEN {} ELSE {e}
      BY <2>0, CarriedPublished
    <2> QED
      BY <2>1, <2>2, <2>3
  <1>4. \A p \in Nodes : Known(p) \subseteq Known(p)' /\ e \in Known(p)'
    BY <1>1, <1>2, <1>3 DEF Known
  <1>5. WireKnown' /\ AnswersAmongResidents'
    <2>1. \A p \in Nodes : OnWire(p)' \subseteq OnWire(p) \cup {e}
      BY <1>3
    <2>2. WireKnown'
      BY <1>2, <1>4, <2>1 DEF Shared, WireKnown
    <2>3. AnswersAmongResidents'
      BY <1>1, <1>2 DEF Shared, AnswersAmongResidents
    <2> QED
      BY <2>2, <2>3
  <1>6. Converges'
    <2> SUFFICES ASSUME NEW m \in Nodes, NEW p \in Nodes, Here(m)', Here(p)', p \in answered'[m]
                 PROVE  doc'[p] \subseteq Known(m)'
      BY DEF Converges, Known
    <2>1. doc[p] \subseteq Known(m)
      BY <1>1, <1>2 DEF Shared, Converges, Known
    <2>2. doc'[p] \subseteq doc[p] \cup {e}
      BY <1>2
    <2> QED
      BY <1>4, <2>1, <2>2
  <1>7. \A p \in Nodes : doc[p] \subseteq doc'[p]
    BY <1>2
  <1> QED
    BY <1>1, <1>2, <1>4, <1>5, <1>6, <1>7, GrowStep

\* An update that is delivered is known to all already.
LEMMA ApplyFrameStep ==
    ASSUME TypeOK, Shared, NEW f \in channel, ApplyFrame(f)
    PROVE  Shared'
  <1>1. f \in Frames /\ f.to \in Nodes
    BY DEF TypeOK, Frames
  <1>2. /\ f.kind # "step1" /\ Here(f.to)
        /\ doc' = [doc EXCEPT ![f.to] = @ \cup f.edits]
        /\ channel' = channel \ {f}
        /\ UNCHANGED <<phase, stored, answered, gap>>
    BY DEF ApplyFrame, Apply, OnChange, storage, since, Here
  <1>3. \A p \in Nodes : /\ doc'[p] = IF p = f.to THEN doc[p] \cup f.edits ELSE doc[p]
                         /\ Here(p)' <=> Here(p)
    BY <1>2 DEF TypeOK, Here
  <1>4. \A p \in Nodes : /\ OnWire(p)' \subseteq OnWire(p)
                         /\ p # f.to => OnWire(p)' = OnWire(p)
                         /\ OnWire(p) \subseteq OnWire(p)' \cup f.edits
    <2> SUFFICES ASSUME NEW p \in Nodes
                 PROVE  /\ OnWire(p)' \subseteq OnWire(p)
                        /\ p # f.to => OnWire(p)' = OnWire(p)
                        /\ OnWire(p) \subseteq OnWire(p)' \cup f.edits
      OBVIOUS
    <2> QED
      BY <1>2, OnWireWithout
  <1>5. f.edits \subseteq OnWire(f.to)
    BY <1>2, OnWireCarried, CarriedWithout
  <1>6. \A p \in Nodes : Known(p) \subseteq Known(p)'
    BY <1>2, <1>3, <1>4 DEF Known
  <1>7. \A p \in Nodes : Here(p) => f.edits \subseteq Known(p)'
    BY <1>1, <1>2, <1>5, <1>6 DEF Shared, WireKnown
  <1>8. WireKnown' /\ AnswersAmongResidents'
    BY <1>2, <1>3, <1>4, <1>6 DEF Shared, WireKnown, AnswersAmongResidents
  <1>9. Converges'
    <2> SUFFICES ASSUME NEW m \in Nodes, NEW p \in Nodes, Here(m)', Here(p)', p \in answered'[m]
                 PROVE  doc'[p] \subseteq Known(m)'
      BY DEF Converges, Known
    <2>1. doc[p] \subseteq Known(m)
      BY <1>2, <1>3 DEF Shared, Converges, Known
    <2>2. doc'[p] \subseteq doc[p] \cup f.edits
      BY <1>3
    <2>3. f.edits \subseteq Known(m)'
      BY <1>3, <1>7
    <2>4. Known(m) \subseteq Known(m)'
      BY <1>6
    <2> QED
      BY <2>1, <2>2, <2>3, <2>4
  <1>10. \A p \in Nodes : doc[p] \subseteq doc'[p]
    BY <1>3
  <1> QED
    BY <1>2, <1>3, <1>6, <1>8, <1>9, <1>10, GrowStep

\* A peer that answers puts what it has on the wire to everybody.
LEMMA AnswerFrameStep ==
    ASSUME TypeOK, Shared, NEW f \in channel, AnswerFrame(f)
    PROVE  Shared'
  <1>1. f \in Frames /\ f.to \in Nodes /\ f.from \in Nodes
    BY DEF TypeOK, Frames
  <1> DEFINE new == doc[f.to] \ f.edits
  <1>2. /\ f.kind = "step1" /\ Here(f.to)
        /\ channel' = (channel \ {f}) \cup Published(f.to, "step2", new)
        /\ UNCHANGED <<phase, doc, stored, gap>>
    BY DEF AnswerFrame, storage, Here
  <1>3. \A n, p \in Nodes : p \in answered'[n] =>
            \/ p \in answered[n]
            \/ n = f.from /\ p = f.to /\ Here(n) /\ f.edits \subseteq doc[n]
    BY <1>1 DEF AnswerFrame, TypeOK
  <1>4. \A p \in Nodes : Here(p)' <=> Here(p)
    BY <1>2 DEF Here
  <1>5. \A p \in Nodes : OnWire(p)' = IF p = f.to THEN OnWire(p) ELSE OnWire(p) \cup new
    <2> SUFFICES ASSUME NEW p \in Nodes
                 PROVE  OnWire(p)' = IF p = f.to THEN OnWire(p) ELSE OnWire(p) \cup new
      OBVIOUS
    <2>1. OnWire(p) = Carried(channel, p) /\ OnWire(p)' = Carried(channel', p)
      BY OnWireCarried
    <2>2. Carried(channel', p) =
              Carried(channel \ {f}, p) \cup Carried(Published(f.to, "step2", new), p)
      BY <1>2, CarriedUnion, SMTT(30)
    <2>3. Carried(channel \ {f}, p) = Carried(channel, p)
      BY <1>2, CarriedWithout
    <2>4. Carried(Published(f.to, "step2", new), p) = IF p = f.to THEN {} ELSE new
      BY <1>1, CarriedPublished
    <2> QED
      BY <2>1, <2>2, <2>3, <2>4
  <1>6. \A p \in Nodes : Known(p) \subseteq Known(p)' /\ new \subseteq Known(p)'
    BY <1>2, <1>5 DEF Known
  <1>7. WireKnown'
    BY <1>1, <1>4, <1>5, <1>6 DEF Shared, WireKnown
  <1>8. AnswersAmongResidents'
    BY <1>1, <1>2, <1>3, <1>4 DEF Shared, AnswersAmongResidents
  <1>9. Converges'
    <2> SUFFICES ASSUME NEW m \in Nodes, NEW p \in Nodes, Here(m)', Here(p)', p \in answered'[m]
                 PROVE  doc'[p] \subseteq Known(m)'
      BY DEF Converges, Known
    <2>1. CASE p \in answered[m]
      BY <1>2, <1>4, <1>6, <2>1 DEF Shared, Converges, Known
    <2>2. CASE m = f.from /\ p = f.to /\ f.edits \subseteq doc[m]
      <3>1. doc'[p] \subseteq new \cup f.edits /\ f.edits \subseteq Known(m)
        BY <1>2, <2>2 DEF Known
      <3> QED
        BY <3>1, <1>6
    <2> QED
      BY <1>3, <2>1, <2>2
  <1> QED
    BY <1>2, <1>4, <1>6, <1>7, <1>8, <1>9, GrowStep

\* What a node that has the document misses is recorded.
LEMMA MissedStep ==
    ASSUME TypeOK, Shared, NEW f \in channel, Missed(f)
    PROVE  Shared'
  <1>1. f \in Frames /\ f.to \in Nodes
    BY DEF TypeOK, Frames
  <1>2. channel' = channel \ {f} /\ UNCHANGED <<phase, doc, stored, answered>>
    BY DEF Missed, storage
  <1>3. \A p \in Nodes : /\ gap[p] \subseteq gap'[p]
                         /\ p = f.to /\ Here(p) /\ f.kind # "step1" => f.edits \subseteq gap'[p]
    BY <1>1 DEF Missed, TypeOK
  <1>4. \A p \in Nodes : /\ OnWire(p)' \subseteq OnWire(p)
                         /\ p # f.to \/ f.kind = "step1" => OnWire(p)' = OnWire(p)
                         /\ OnWire(p) \subseteq OnWire(p)' \cup f.edits
    <2> SUFFICES ASSUME NEW p \in Nodes
                 PROVE  /\ OnWire(p)' \subseteq OnWire(p)
                        /\ p # f.to \/ f.kind = "step1" => OnWire(p)' = OnWire(p)
                        /\ OnWire(p) \subseteq OnWire(p)' \cup f.edits
      OBVIOUS
    <2> QED
      BY <1>2, OnWireWithout
  <1>5. \A p \in Nodes : Here(p)' <=> Here(p)
    BY <1>2 DEF Here
  <1>6. \A p \in Nodes : Here(p) => Known(p) \subseteq Known(p)'
    BY <1>2, <1>3, <1>4 DEF Known
  <1>7. WireKnown' /\ AnswersAmongResidents'
    BY <1>2, <1>4, <1>5, <1>6 DEF Shared, WireKnown, AnswersAmongResidents
  <1>8. Converges'
    <2> SUFFICES ASSUME NEW m \in Nodes, NEW p \in Nodes, Here(m)', Here(p)', p \in answered'[m]
                 PROVE  doc'[p] \subseteq Known(m)'
      BY DEF Converges, Known
    <2> QED
      BY <1>2, <1>5, <1>6 DEF Shared, Converges, Known
  <1> QED
    BY <1>2, <1>5, <1>6, <1>7, <1>8, GrowStep

\* A node that loads knows the storage, and all that is on the wire counts as missed.
LEMMA LoadStep ==
    ASSUME TypeOK, Shared, NEW n \in Nodes, Load(n)
    PROVE  Shared'
  <1>1. /\ ~Here(n)
        /\ phase' = [phase EXCEPT ![n] = "loading"]
        /\ doc' = [doc EXCEPT ![n] = stored]
        /\ gap' = [gap EXCEPT ![n] = UNION {OnWire(p) : p \in Nodes}]
        /\ channel' = channel \cup Published(n, "step1", stored)
        /\ UNCHANGED <<stored, answered>>
    BY DEF Load, storage, Here
  <1>2. /\ Here(n)' /\ doc'[n] = stored /\ \A p \in Nodes : OnWire(p) \subseteq gap'[n]
        /\ \A p \in Nodes \ {n} : (Here(p)' <=> Here(p)) /\ doc'[p] = doc[p] /\ gap'[p] = gap[p]
    BY <1>1 DEF TypeOK, Here
  <1>3. \A p \in Nodes : OnWire(p)' = OnWire(p)
    <2> SUFFICES ASSUME NEW p \in Nodes PROVE OnWire(p)' = OnWire(p)
      OBVIOUS
    <2>1. OnWire(p) = Carried(channel, p) /\ OnWire(p)' = Carried(channel', p)
      BY OnWireCarried
    <2>2. Carried(channel', p) = Carried(channel, p) \cup Carried(Published(n, "step1", stored), p)
      BY <1>1, CarriedUnion
    <2>3. Carried(Published(n, "step1", stored), p) = {}
      BY CarriedPublished
    <2> QED
      BY <2>1, <2>2, <2>3
  <1>4. /\ \A p \in Nodes \ {n} : Known(p)' = Known(p)
        /\ stored \subseteq Known(n)' /\ \A p \in Nodes : OnWire(p)' \subseteq Known(n)'
    BY <1>2, <1>3 DEF Known
  <1>5. WireKnown'
    BY <1>2, <1>3, <1>4 DEF Shared, WireKnown
  <1>6. \A m, p \in Nodes : p \in answered'[m] => m # n /\ p # n
    BY <1>1 DEF Shared, AnswersAmongResidents
  <1>7. AnswersAmongResidents'
    BY <1>1, <1>2, <1>6 DEF Shared, AnswersAmongResidents
  <1>8. Converges'
    <2> SUFFICES ASSUME NEW m \in Nodes, NEW p \in Nodes, Here(m)', Here(p)', p \in answered'[m]
                 PROVE  doc'[p] \subseteq Known(m)'
      BY DEF Converges, Known
    <2> QED
      BY <1>1, <1>2, <1>4, <1>6 DEF Shared, Converges, Known
  <1>9. ASSUME NEW m \in Nodes, Here(m)'
        PROVE  stored' \subseteq Known(m)' \cup Unanswered(m)'
    <2>1. CASE m = n
      BY <1>1, <1>4, <2>1
    <2>2. CASE m # n
      BY <1>1, <1>2, <1>4, <1>8, <1>9, <2>2, ReachKept DEF Shared
    <2> QED
      BY <2>1, <2>2
  <1> QED
    BY <1>5, <1>7, <1>8, <1>9 DEF Shared, StorageKnown

-----------------------------------------------------------------------------
(* The other parts of the invariant. *)

\* Types, and what is stored under which lock.
Local == TypeOK /\ SnapshotsOfDoc /\ UnsavedIsRetried /\ HolderOrOverrun

\* The steps that deliver, publish, load and register.
LEMMA DocumentLocal ==
    ASSUME Local,
           \/ \E f \in channel : FrameStep(f) \/ LoseFrame(f)
           \/ \E n \in Nodes, e \in Edits : Edit(n, e)
           \/ \E n \in Nodes : Load(n) \/ Register(n)
    PROVE  Local'
  <1>1. ASSUME NEW f \in channel, ApplyFrame(f) PROVE Local'
    <2>1. f \in Frames
      BY DEF Local, TypeOK
    <2>2. /\ f.kind # "step1" /\ phase[f.to] = "resident"
          /\ doc' = [doc EXCEPT ![f.to] = @ \cup f.edits]
          /\ dirty' = [dirty EXCEPT ![f.to] = TRUE]
          /\ channel' = channel \ {f}
          /\ UNCHANGED <<phase, store, snapshot, stored, lock, overrun, loads, made, answered, gap,
                         saved>>
      BY <1>1 DEF ApplyFrame, Apply, OnChange, storage, since
    <2>3. f.to \in Nodes /\ f.edits \subseteq Edits
      BY <2>1 DEF Frames
    <2>4. TypeOK'
      BY <2>2, <2>3 DEF Local, TypeOK
    <2> QED
      BY <2>2, <2>3, <2>4 DEF Local, TypeOK, SnapshotsOfDoc, UnsavedIsRetried, Here,
                              HolderOrOverrun
  <1>2. ASSUME NEW f \in channel, AnswerFrame(f) PROVE Local'
    <2>1. f \in Frames
      BY DEF Local, TypeOK
    <2>2. f.to \in Nodes /\ f.from \in Nodes
      BY <2>1 DEF Frames
    <2>3. channel' \subseteq Frames
      <3>1. doc[f.to] \ f.edits \in SUBSET Edits /\ "step2" \in FrameKinds
        BY <2>2 DEF Local, TypeOK, FrameKinds
      <3>2. Published(f.to, "step2", doc[f.to] \ f.edits) \subseteq Frames
        BY <2>2, <3>1, PublishedType
      <3> QED
        BY <1>2, <3>2 DEF AnswerFrame, Local, TypeOK
    <2>4. answered' \in [Nodes -> SUBSET Nodes]
      BY <1>2, <2>2 DEF AnswerFrame, Local, TypeOK
    <2>5. UNCHANGED <<phase, doc, dirty, store, snapshot, stored, lock, overrun, loads, made, gap,
                      saved>>
      BY <1>2 DEF AnswerFrame, storage
    <2> QED
      BY <2>3, <2>4, <2>5 DEF Local, TypeOK, SnapshotsOfDoc, UnsavedIsRetried, Here,
                              HolderOrOverrun
  <1>3. ASSUME NEW f \in channel, Missed(f) PROVE Local'
    <2>1. f \in Frames
      BY DEF Local, TypeOK
    <2>2. f.to \in Nodes /\ f.edits \subseteq Edits
      BY <2>1 DEF Frames
    <2>3. /\ channel' = channel \ {f} /\ gap' \in [Nodes -> SUBSET Edits]
          /\ UNCHANGED <<phase, doc, dirty, store, snapshot, stored, lock, overrun, loads, made,
                         answered, saved>>
      BY <1>3, <2>2 DEF Missed, storage, Local, TypeOK
    <2> QED
      BY <2>3 DEF Local, TypeOK, SnapshotsOfDoc, UnsavedIsRetried, Here,
                  HolderOrOverrun
  <1>4. ASSUME NEW n \in Nodes, NEW e \in Edits, Edit(n, e) PROVE Local'
    <2>1. /\ phase[n] = "resident"
          /\ doc' = [doc EXCEPT ![n] = @ \cup {e}]
          /\ dirty' = [dirty EXCEPT ![n] = TRUE]
          /\ channel' = channel \cup Published(n, "update", {e})
          /\ made' = made \cup {e}
          /\ UNCHANGED <<phase, store, snapshot, stored, lock, overrun, loads, answered, gap, saved>>
      BY <1>4 DEF Edit, Apply, OnChange, storage, since
    <2>2. Published(n, "update", {e}) \subseteq Frames
      BY PublishedType DEF FrameKinds
    <2>3. TypeOK'
      BY <2>1, <2>2 DEF Local, TypeOK
    <2>4. \A p \in Nodes : \/ doc'[p] = doc[p] /\ dirty'[p] = dirty[p]
                           \/ phase'[p] = "resident" /\ dirty'[p] /\ doc[p] \subseteq doc'[p]
      BY <2>1 DEF Local, TypeOK
    <2>5. SnapshotsOfDoc'
      BY <2>1, <2>4 DEF Local, SnapshotsOfDoc
    <2>6. UnsavedIsRetried' /\ HolderOrOverrun'
      BY <2>1, <2>4 DEF Local, UnsavedIsRetried, Here, HolderOrOverrun
    <2> QED
      BY <2>3, <2>5, <2>6 DEF Local
  <1>5. ASSUME NEW n \in Nodes, Load(n) PROVE Local'
    <2>1. /\ phase[n] = "absent" /\ loads < MaxLoads /\ loads' = loads + 1
          /\ phase' = [phase EXCEPT ![n] = "loading"]
          /\ doc' = [doc EXCEPT ![n] = stored] /\ saved' = [saved EXCEPT ![n] = stored]
          /\ gap' = [gap EXCEPT ![n] = UNION {OnWire(p) : p \in Nodes}]
          /\ channel' = channel \cup Published(n, "step1", stored)
          /\ UNCHANGED <<dirty, store, snapshot, stored, lock, overrun, made, answered>>
      BY <1>5 DEF Load, storage
    <2>2. Published(n, "step1", stored) \subseteq Frames
      BY PublishedType DEF FrameKinds, Local, TypeOK
    <2>3. \A p \in Nodes : OnWire(p) \subseteq Edits
      BY DEF OnWire, Local, TypeOK, Frames
    <2>4. UNION {OnWire(p) : p \in Nodes} \subseteq Edits
      BY <2>3
    <2>5. gap' \in [Nodes -> SUBSET Edits]
      BY <2>1, <2>4 DEF Local, TypeOK
    <2>6. loads' \in 0..MaxLoads
      BY <2>1, ScalingAssumption DEF Local, TypeOK
    <2>7. TypeOK'
      BY <2>1, <2>2, <2>5, <2>6 DEF Local, TypeOK, Phases
    <2> QED
      BY <2>1, <2>7 DEF Local, TypeOK, SnapshotsOfDoc, UnsavedIsRetried, Here,
                        HolderOrOverrun
  <1>6. ASSUME NEW n \in Nodes, Register(n) PROVE Local'
    <2>1. TypeOK'
      BY <1>6 DEF Register, storage, since, Local, TypeOK, Phases
    <2> QED
      BY <1>6, <2>1 DEF Register, storage, since, Local, SnapshotsOfDoc, UnsavedIsRetried, Here,
                        HolderOrOverrun
  <1> QED
    BY <1>1, <1>2, <1>3, <1>4, <1>5, <1>6 DEF FrameStep, DropFrame, LoseFrame

\* The document leaves a node and its store, if any, with it.
LEMMA GoneLocal ==
    ASSUME Local, NEW n \in Nodes, Gone(n),
           \/ store[n] = "idle" /\ UNCHANGED <<store, snapshot, overrun>>
           \/ /\ store' = [store EXCEPT ![n] = "idle"]
              /\ snapshot' = [snapshot EXCEPT ![n] = {}]
              /\ overrun' = overrun \ {n},
           lock' \in Nodes \cup {None},
           \A p \in Nodes \ {n} : lock = p => lock' = p,
           UNCHANGED <<stored, channel, loads, made>>
    PROVE  Local'
  <1>1. /\ phase' = [phase EXCEPT ![n] = "absent"]
        /\ doc' = [doc EXCEPT ![n] = {}]
        /\ dirty' = [dirty EXCEPT ![n] = FALSE]
        /\ saved' = [saved EXCEPT ![n] = {}]
    BY DEF Gone
  <1>2. answered' \in [Nodes -> SUBSET Nodes] /\ gap' \in [Nodes -> SUBSET Edits]
    BY DEF Gone, Local, TypeOK
  <1>3. /\ store' \in [Nodes -> StoreSteps] /\ snapshot' \in [Nodes -> SUBSET Edits]
        /\ overrun' \subseteq Nodes
        /\ store'[n] = "idle"
        /\ \A p \in Nodes \ {n} : /\ store'[p] = store[p] /\ snapshot'[p] = snapshot[p]
                                  /\ p \in overrun => p \in overrun'
    BY DEF Local, TypeOK, StoreSteps
  <1>4. TypeOK'
    BY <1>1, <1>2, <1>3 DEF Local, TypeOK, Phases
  <1>5. SnapshotsOfDoc' /\ UnsavedIsRetried'
    <2>1. ~Here(n)' /\ \A p \in Nodes \ {n} : /\ phase'[p] = phase[p] /\ doc'[p] = doc[p]
                                             /\ dirty'[p] = dirty[p] /\ saved'[p] = saved[p]
      BY <1>1 DEF Local, TypeOK, Here
    <2>2. SnapshotsOfDoc'
      BY <1>3, <2>1 DEF Local, SnapshotsOfDoc
    <2>3. UnsavedIsRetried'
      BY <1>3, <2>1 DEF Local, UnsavedIsRetried, Here
    <2> QED
      BY <2>2, <2>3
  <1>6. HolderOrOverrun'
    BY <1>3 DEF Local, HolderOrOverrun
  <1> QED
    BY <1>4, <1>5, <1>6 DEF Local

\* A store ends: the node goes with it if it was leaving, and stays as it is if not.
LEMMA StoreOverStep ==
    ASSUME Local, Shared, NEW n \in Nodes, NEW ok \in BOOLEAN, store[n] # "idle",
           ok => store[n] = "written", StoreOver(n, ok),
           lock' \in Nodes \cup {None},
           \A p \in Nodes \ {n} : lock = p => lock' = p
    PROVE  Local' /\ Shared'
  <1>1. /\ store' = [store EXCEPT ![n] = "idle"]
        /\ snapshot' = [snapshot EXCEPT ![n] = {}]
        /\ overrun' = overrun \ {n}
        /\ UNCHANGED <<stored, channel, loads, made>>
    BY DEF StoreOver
  <1>2. CASE phase[n] = "leaving"
    <2>1. Gone(n)
      BY <1>2 DEF StoreOver
    <2>2. Local'
      BY <1>1, <2>1, GoneLocal
    <2>3. Shared'
      BY <1>1, <2>1, GoneStep DEF Local
    <2> QED
      BY <2>2, <2>3
  <1>3. CASE phase[n] # "leaving"
    <2>1. dirty' = [dirty EXCEPT ![n] = @ \/ ~ok] /\ UNCHANGED <<phase, doc, answered, gap, saved>>
      BY <1>3 DEF StoreOver, since
    <2>2. Shared'
      BY <1>1, <2>1, StorageStep DEF Here
    <2>3. dirty' \in [Nodes -> BOOLEAN]
      BY <2>1 DEF Local, TypeOK
    <2>4. TypeOK'
      BY <1>1, <2>1, <2>3 DEF Local, TypeOK, StoreSteps
    <2>5. /\ store'[n] = "idle" /\ (~dirty'[n] => ~dirty[n] /\ store[n] = "written")
          /\ \A p \in Nodes \ {n} : /\ store'[p] = store[p] /\ snapshot'[p] = snapshot[p]
                                    /\ dirty'[p] = dirty[p] /\ (p \in overrun => p \in overrun')
      BY <1>1, <2>1 DEF Local, TypeOK
    <2>6. SnapshotsOfDoc' /\ HolderOrOverrun'
      BY <2>1, <2>5 DEF Local, SnapshotsOfDoc, HolderOrOverrun
    <2>7. UnsavedIsRetried'
      BY <2>1, <2>5 DEF Local, UnsavedIsRetried, Here
    <2> QED
      BY <2>2, <2>4, <2>6, <2>7 DEF Local
  <1> QED
    BY <1>2, <1>3

-----------------------------------------------------------------------------
(* Every step keeps the invariant. *)

\* The two halves make the invariant up.
LEMMA Halves == (IInv <=> Local /\ Shared) /\ (IInv' <=> Local' /\ Shared')
  BY DEF IInv, Local, Shared

\* The steps that take a lock, write, or let the lock expire.
LEMMA LockStep ==
    ASSUME IInv,
           \/ \E n \in Nodes : UnloadStore(n) \/ SpawnStore(n) \/ Acquire(n) \/ Write(n)
           \/ Expire
    PROVE  IInv'
  <1> USE Halves DEF Local
  <1>1. ASSUME NEW n \in Nodes, UnloadStore(n) PROVE IInv'
    <2>1. TypeOK'
      BY <1>1 DEF UnloadStore, since, TypeOK, Phases, StoreSteps
    <2>2. SnapshotsOfDoc' /\ UnsavedIsRetried' /\ HolderOrOverrun'
      BY <1>1 DEF UnloadStore, since, TypeOK, SnapshotsOfDoc, UnsavedIsRetried, Here,
                  HolderOrOverrun
    <2>3. \A p \in Nodes : Here(p)' <=> Here(p)
      BY <1>1 DEF UnloadStore, since, TypeOK, Here
    <2>4. Shared'
      BY <1>1, <2>3, StorageStep DEF UnloadStore, since
    <2> QED
      BY <2>1, <2>2, <2>4
  <1>2. ASSUME NEW n \in Nodes, SpawnStore(n) PROVE IInv'
    <2>1. TypeOK'
      BY <1>2 DEF SpawnStore, since, TypeOK, StoreSteps
    <2>2. SnapshotsOfDoc' /\ UnsavedIsRetried' /\ HolderOrOverrun'
      BY <1>2 DEF SpawnStore, since, TypeOK, SnapshotsOfDoc, UnsavedIsRetried, Here,
                  HolderOrOverrun
    <2>4. Shared'
      BY <1>2, StorageStep DEF SpawnStore, since, Here
    <2> QED
      BY <2>1, <2>2, <2>4
  <1>3. ASSUME NEW n \in Nodes, Acquire(n) PROVE IInv'
    <2>1. TypeOK'
      BY <1>3 DEF Acquire, since, TypeOK, StoreSteps
    <2>2. SnapshotsOfDoc' /\ UnsavedIsRetried' /\ HolderOrOverrun'
      BY <1>3, ScalingAssumption DEF Acquire, since, TypeOK, SnapshotsOfDoc, UnsavedIsRetried, Here,
                                     HolderOrOverrun
    <2>4. Shared'
      BY <1>3, StorageStep DEF Acquire, since, Here
    <2> QED
      BY <2>1, <2>2, <2>4
  <1>4. ASSUME NEW n \in Nodes, Write(n) PROVE IInv'
    <2>1. TypeOK'
      BY <1>4 DEF Write, TypeOK, StoreSteps
    <2>2. SnapshotsOfDoc' /\ UnsavedIsRetried' /\ HolderOrOverrun'
      BY <1>4 DEF Write, TypeOK, SnapshotsOfDoc, UnsavedIsRetried, Here,
                  HolderOrOverrun
    <2>3. Here(n) /\ stored' \subseteq doc[n]
      BY <1>4 DEF Write, Here, TypeOK, SnapshotsOfDoc
    <2>4. Shared'
      BY <1>4, <2>3, StorageStep DEF Write, Here
    <2> QED
      BY <2>1, <2>2, <2>4
  <1>5. ASSUME Expire PROVE IInv'
    <2>1. lock \in Nodes
      BY <1>5 DEF Expire, since, TypeOK
    <2>2. TypeOK'
      BY <1>5, <2>1 DEF Expire, since, TypeOK
    <2>3. SnapshotsOfDoc' /\ UnsavedIsRetried' /\ HolderOrOverrun'
      BY <1>5, <2>1 DEF Expire, since, TypeOK, SnapshotsOfDoc, UnsavedIsRetried, Here,
                        HolderOrOverrun
    <2>4. Shared'
      BY <1>5, StorageStep DEF Expire, since, Here
    <2> QED
      BY <2>2, <2>3, <2>4
  <1> QED
    BY <1>1, <1>2, <1>3, <1>4, <1>5

\* The first state.
LEMMA InitIInv == Init => IInv
  <1> SUFFICES ASSUME Init PROVE IInv
    OBVIOUS
  <1>1. TypeOK
    BY ScalingAssumption DEF Init, TypeOK, Phases, StoreSteps
  <1>2. \A n \in Nodes : ~Here(n) /\ answered[n] = {}
    BY DEF Init, Here
  <1> QED
    BY <1>1, <1>2 DEF Init, IInv, WireKnown, AnswersAmongResidents, SnapshotsOfDoc,
                      UnsavedIsRetried, HolderOrOverrun, Converges, StorageKnown

\* Every step.
LEMMA NextIInv == IInv /\ [Next]_vars => IInv'
  <1> SUFFICES ASSUME IInv, [Next]_vars PROVE IInv'
    OBVIOUS
  <1>0. Local /\ Shared /\ TypeOK
    BY Halves DEF IInv
  <1>1. ASSUME NEW f \in channel, FrameStep(f) \/ LoseFrame(f) PROVE IInv'
    <2>1. Local'
      BY <1>0, <1>1, DocumentLocal
    <2>2. Shared'
      BY <1>0, <1>1, ApplyFrameStep, AnswerFrameStep, MissedStep
         DEF FrameStep, DropFrame, LoseFrame
    <2> QED
      BY <2>1, <2>2, Halves
  <1>2. ASSUME NEW n \in Nodes, NEW e \in Edits, Edit(n, e) PROVE IInv'
    BY <1>0, <1>2, DocumentLocal, EditStep, Halves
  <1>3. ASSUME NEW n \in Nodes, Load(n) PROVE IInv'
    BY <1>0, <1>3, DocumentLocal, LoadStep, Halves
  <1>4. ASSUME NEW n \in Nodes, Register(n) PROVE IInv'
    <2>1. Local'
      BY <1>0, <1>4, DocumentLocal
    <2>2. \A p \in Nodes : Here(p)' <=> Here(p)
      BY <1>0, <1>4 DEF Register, since, TypeOK, Here
    <2>3. Shared'
      BY <1>0, <1>4, <2>2, StorageStep DEF Register, since, storage
    <2> QED
      BY <2>1, <2>3, Halves
  <1>5. ASSUME NEW n \in Nodes, Unload(n) PROVE IInv'
    <2>1. Gone(n) /\ store[n] = "idle"
          /\ UNCHANGED <<store, snapshot, stored, lock, overrun, channel, loads, made>>
      BY <1>5 DEF Unload, storage
    <2>2. Local'
      <3>1. lock' \in Nodes \cup {None} /\ \A p \in Nodes \ {n} : lock = p => lock' = p
        BY <1>0, <2>1 DEF TypeOK
      <3> QED
        BY <1>0, <2>1, <3>1, GoneLocal
    <2>3. Shared'
      BY <1>0, <2>1, GoneStep
    <2> QED
      BY <2>2, <2>3, Halves
  <1>6. ASSUME NEW n \in Nodes, Crash(n) PROVE IInv'
    <2>1. Gone(n) /\ UNCHANGED <<stored, lock, channel, loads, made>>
          /\ store' = [store EXCEPT ![n] = "idle"]
          /\ snapshot' = [snapshot EXCEPT ![n] = {}]
          /\ overrun' = overrun \ {n}
      BY <1>6 DEF Crash
    <2>2. Local'
      <3>1. lock' \in Nodes \cup {None} /\ \A p \in Nodes \ {n} : lock = p => lock' = p
        BY <1>0, <2>1 DEF TypeOK
      <3> QED
        BY <1>0, <2>1, <3>1, GoneLocal
    <2>3. Shared'
      BY <1>0, <2>1, GoneStep
    <2> QED
      BY <2>2, <2>3, Halves
  <1>7. ASSUME NEW n \in Nodes, Refused(n) \/ StoreFails(n) \/ FinishStore(n) PROVE IInv'
    <2>1. /\ store[n] # "idle"
          /\ (store[n] = "written" /\ StoreOver(n, TRUE)) \/ StoreOver(n, FALSE)
      BY <1>7 DEF Refused, StoreFails, FinishStore
    <2>2. /\ lock' \in Nodes \cup {None}
          /\ \A p \in Nodes \ {n} : lock = p => lock' = p
      BY <1>0, <1>7, ScalingAssumption DEF Refused, StoreFails, FinishStore, Release, TypeOK
    <2>3. Local' /\ Shared'
      BY <1>0, <2>1, <2>2, StoreOverStep
    <2> QED
      BY <2>3, Halves
  <1>8. CASE UNCHANGED vars
    <2>1. UNCHANGED <<phase, doc, dirty, store, snapshot, stored, lock, overrun, channel, loads,
                      made, answered, gap, saved>>
      BY <1>8 DEF vars, storage, since
    <2>2. Local'
      BY <1>0, <2>1 DEF Local, TypeOK, SnapshotsOfDoc, UnsavedIsRetried, Here,
                        HolderOrOverrun
    <2>3. Shared'
      BY <1>0, <2>1, StorageStep DEF Here
    <2> QED
      BY <2>2, <2>3, Halves
  <1> QED
    BY <1>1, <1>2, <1>3, <1>4, <1>5, <1>6, <1>7, <1>8, LockStep DEF Next, StoreStep

-----------------------------------------------------------------------------
(* The theorems. *)

\* The inductive invariant holds in every reachable state, for any set of nodes.
THEOREM ScalingInvariant == Spec => []IInv
  BY InitIInv, NextIInv, PTL DEF Spec

\* Every variable of the nodes, of Redis and of the storage keeps its type, and a
\* node without a registered document runs no store.
THEOREM ScalingTypes == Spec => []TypeOK
  <1>1. IInv => TypeOK
    BY DEF IInv
  <1> QED
    BY <1>1, ScalingInvariant, PTL

\* handle_external_sync and on_change: a node that a peer answered since its load has
\* all the peer has, on the wire at least, but for what it was never delivered.
THEOREM PeersConverge == Spec => []Converges
  <1>1. IInv => Converges
    BY DEF IInv
  <1> QED
    BY <1>1, ScalingInvariant, PTL

\* spawn_store and on_store_document: what the snapshot of a store under way lacks of
\* the storage that it overwrites, its node either has, and then is dirty and stores
\* again, or has not been told by its peers.
THEOREM StoresTakeBack == Spec => []StoreTakesBack
  <1>1. IInv => StoreTakesBack
    <2> SUFFICES ASSUME IInv, NEW n \in Nodes, store[n] \in {"locking", "writing"}
                 PROVE  stored \subseteq snapshot[n] \cup OnWire(n) \cup gap[n] \cup Unanswered(n)
                            \cup (IF phase[n] = "resident" /\ dirty[n] THEN doc[n] ELSE {})
      BY DEF StoreTakesBack
    <2>1. stored \subseteq doc[n] \cup OnWire(n) \cup gap[n] \cup Unanswered(n)
      BY DEF IInv, TypeOK, Here, StorageKnown, Known
    <2>2. doc[n] = snapshot[n] \/ (phase[n] = "resident" /\ dirty[n])
      BY DEF IInv, SnapshotsOfDoc
    <2> QED
      BY <2>1, <2>2
  <1> QED
    BY <1>1, ScalingInvariant, PTL

\* on_store_document, spawn_store and the result of a store: no edit of a node counts
\* as stored that the node has neither fetched nor written nor is writing.
THEOREM UnsavedRetried == Spec => []UnsavedIsRetried
  <1>1. IInv => UnsavedIsRetried
    BY DEF IInv
  <1> QED
    BY <1>1, ScalingInvariant, PTL

\* on_store_document and after_store_document: two nodes are between taking the lock
\* and giving it back only if the lock of one has expired meanwhile.
THEOREM WritesExclusive == Spec => []ExclusiveUnlessOverrun
  <1>1. IInv => ExclusiveUnlessOverrun
    BY DEF IInv, HolderOrOverrun, ExclusiveUnlessOverrun
  <1> QED
    BY <1>1, ScalingInvariant, PTL

=============================================================================
