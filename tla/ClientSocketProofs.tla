-------------------------- MODULE ClientSocketProofs --------------------------
(***************************************************************************)
(* What ClientSocket guarantees for any number of documents and frames,    *)
(* and any limits.                                                         *)
(***************************************************************************)
EXTENDS ClientSocket, DataInduction, SequenceTheorems

Waiting == [number : 1..MaxSent, size : Sizes]

\* Every key has its queue and its history, and only what was sent is refused.
Shapes ==
    /\ queue \in [Keys -> Seq(Waiting)]
    /\ delivered \in [Keys -> Seq(1..MaxSent)]
    /\ \A k \in Keys : refused[k] \subseteq 1..sent[k]

\* While a document is authenticated its key is pending, and not established;
\* from the admission on it is granted.
Authenticating ==
    /\ reader \in {"hooks", "registering", "acked"} => pending \in Keys \ established
    /\ reader \in {"registering", "acked"} => pending \in granted
    /\ established \subseteq granted

\* Nothing waits for the authentication of an established document.
Drained == \A k \in established : queue[k] = << >>

\* The inductive invariant.
IInv ==
    /\ TypeOK /\ Shapes /\ Authenticating /\ Drained
    /\ QueueAccounted /\ DeliveredInOrder /\ NothingBeforeAdmission /\ RegistrationOwned

-----------------------------------------------------------------------------
(* The counters. *)

\* The sum of these numbers over the keys is that of a function of DataInduction.
AnyOf == [s \in SUBSET Keys |-> CHOOSE k \in s : TRUE]

\* It takes an element of each set.
LEMMA FirstPicks == Picks(AnyOf, Keys)
  BY DEF Picks, AnyOf

\* The messages of all queues are such a sum.
LEMMA MessagesSum ==
    ASSUME NEW q \in [Keys -> Seq(Waiting)]
    PROVE  \E f : /\ IsSum(f, [k \in Keys |-> Len(q[k])], AnyOf, Keys)
                  /\ MapThenSumSet(LAMBDA k : Len(q[k]), Keys) = f[Keys]
  <1> DEFINE g == [k \in Keys |-> Len(q[k])]
             Step(f) == [s \in SUBSET Keys |->
                          IF s = {} THEN 0
                          ELSE Len(q[CHOOSE k \in s : TRUE]) + f[s \ {CHOOSE k \in s : TRUE}]]
             F == CHOOSE f : f = Step(f)
  <1>1. g \in [Keys -> Nat]
    BY LenProperties
  <1>2. ASSUME NEW f PROVE Step(f) = [s \in SUBSET Keys |-> Added(f, g, AnyOf, s)]
    <2>1. ASSUME NEW s \in SUBSET Keys
          PROVE  Step(f)[s] = Added(f, g, AnyOf, s)
      <3>1. CASE s = {}
        BY <3>1 DEF Added
      <3>2. CASE s # {}
        <4> DEFINE x == CHOOSE k \in s : TRUE
        <4>1. x \in s /\ x \in Keys /\ AnyOf[s] = x
          BY <3>2 DEF AnyOf
        <4>2. g[x] = Len(q[x])
          BY <4>1
        <4>3. Step(f)[s] = Len(q[x]) + f[s \ {x}]
          BY <3>2
        <4> HIDE DEF x, g
        <4>4. Added(f, g, AnyOf, s) = g[x] + f[s \ {x}]
          BY <3>2, <4>1 DEF Added
        <4> QED
          BY <4>2, <4>3, <4>4
      <3> QED
        BY <3>1, <3>2
    <2> HIDE DEF g
    <2> QED
      BY <2>1
  <1>3. PICK f : IsSum(f, g, AnyOf, Keys)
    <2> HIDE DEF g
    <2> QED
      BY <1>1, FirstPicks, SumExists, SocketAssumption
  <1>4. f = Step(f)
    <2> HIDE DEF g, Step
    <2> QED
      BY <1>2, <1>3 DEF IsSum
  <1>5. F = Step(F)
    <2> HIDE DEF Step
    <2> QED
      BY <1>4
  <1>6. MapThenSumSet(LAMBDA k : Len(q[k]), Keys) = F[Keys]
    BY DEF MapThenSumSet, MapThenFoldSet
  <1> HIDE DEF F
  <1>7. IsSum(F, g, AnyOf, Keys)
    <2> HIDE DEF g, Step
    <2> QED
      BY <1>2, <1>5 DEF IsSum
  <1> QED
    BY <1>6, <1>7

\* The bytes of a queue are what such a function gives for all its positions.
Sized(q) == [i \in DOMAIN q |-> q[i].size]

\* The positions of a queue, and the sizes there.
LEMMA Positions ==
    ASSUME NEW q \in Seq(Waiting)
    PROVE  /\ DOMAIN q = 1..Len(q) /\ Len(q) \in Nat /\ IsFiniteSet(DOMAIN q)
           /\ Sized(q) \in [DOMAIN q -> Nat]
           /\ Picks(Lasts(q), DOMAIN q)
  <1>1. /\ DOMAIN q = 1..Len(q) /\ Len(q) \in Nat /\ IsFiniteSet(DOMAIN q)
        /\ Picks(Lasts(q), DOMAIN q) /\ \A i \in DOMAIN q : q[i] \in Waiting
    BY LastsPick
  <1>2. Sized(q) \in [DOMAIN q -> Nat]
    BY <1>1, SocketAssumption DEF Sized, Waiting
  <1> QED
    BY <1>1, <1>2

\* The fold behind Bytes is such a sum.
LEMMA BytesFold ==
    ASSUME NEW q \in Seq(Waiting)
    PROVE  \E f : IsSum(f, Sized(q), Lasts(q), DOMAIN q) /\ Bytes(q) = f[DOMAIN q]
  <1> DEFINE S == DOMAIN q
             Step(f) == [s \in SUBSET S |->
                          IF s = {} THEN 0 ELSE q[Max(s)].size + f[s \ {Max(s)}]]
             F == CHOOSE f : f = Step(f)
  <1>1. IsFiniteSet(S) /\ Sized(q) \in [S -> Nat] /\ Picks(Lasts(q), S)
    BY Positions
  <1>2. ASSUME NEW f
        PROVE  Step(f) = [s \in SUBSET S |-> Added(f, Sized(q), Lasts(q), s)]
    <2>1. ASSUME NEW s \in SUBSET S
          PROVE  Step(f)[s] = Added(f, Sized(q), Lasts(q), s)
      <3>1. CASE s = {}
        BY <3>1 DEF Added
      <3>2. CASE s # {}
        <4> DEFINE x == Max(s)
        <4>1. Lasts(q)[s] = x /\ x \in s /\ x \in S
          BY <1>1, <3>2 DEF Lasts, Picks
        <4>2. Sized(q)[x] = q[x].size
          BY <4>1 DEF Sized
        <4>3. Step(f)[s] = q[x].size + f[s \ {x}]
          BY <3>2
        <4> HIDE DEF x
        <4>4. Added(f, Sized(q), Lasts(q), s) = Sized(q)[x] + f[s \ {x}]
          BY <3>2, <4>1 DEF Added
        <4> QED
          BY <4>2, <4>3, <4>4
      <3> QED
        BY <3>1, <3>2
    <2> QED
      BY <2>1
  <1>3. PICK f : IsSum(f, Sized(q), Lasts(q), S)
    BY <1>1, SumExists
  <1>4. f = Step(f)
    <2> HIDE DEF Step
    <2> QED
      BY <1>2, <1>3 DEF IsSum
  <1>5. F = Step(F)
    <2> HIDE DEF Step
    <2> QED
      BY <1>4
  <1>6. Bytes(q) = F[S]
    BY DEF Bytes, FoldLeft, MapThenFoldSet
  <1> HIDE DEF F
  <1>7. IsSum(F, Sized(q), Lasts(q), S)
    <2> HIDE DEF Step
    <2> QED
      BY <1>2, <1>5 DEF IsSum
  <1> QED
    BY <1>6, <1>7

\* Bytes is a number.
LEMMA BytesType ==
    ASSUME NEW q \in Seq(Waiting) PROVE Bytes(q) \in Nat
  <1>1. PICK f : IsSum(f, Sized(q), Lasts(q), DOMAIN q) /\ Bytes(q) = f[DOMAIN q]
    BY BytesFold
  <1> QED
    BY <1>1, Positions, SumType

\* An empty queue has none.
LEMMA BytesEmpty == Bytes(<< >>) = 0
  <1> DEFINE q == << >>
  <1>1. q \in Seq(Waiting) /\ DOMAIN q = {}
    OBVIOUS
  <1>2. PICK f : IsSum(f, Sized(q), Lasts(q), DOMAIN q) /\ Bytes(q) = f[DOMAIN q]
    BY <1>1, BytesFold
  <1> HIDE DEF q
  <1>3. DOMAIN q \in SUBSET DOMAIN q
    OBVIOUS
  <1>4. f[DOMAIN q] = 0
    BY <1>1, <1>2, <1>3, Zenon DEF IsSum, Added
  <1> QED
    BY <1>2, <1>4 DEF q

\* The bytes of the first positions, one more at a time.
LEMMA BytesPrefix ==
    ASSUME NEW q \in Seq(Waiting), NEW f, IsSum(f, Sized(q), Lasts(q), DOMAIN q),
           NEW n \in 1..Len(q)
    PROVE  f[1..n] = q[n].size + f[1..n - 1]
  <1>1. /\ 1..n \in SUBSET DOMAIN q /\ 1..n # {} /\ (1..n) \ {n} = 1..n - 1
        /\ Lasts(q)[1..n] = n
    BY LastsPrefix
  <1>2. Sized(q)[n] = q[n].size
    BY Positions DEF Sized
  <1>3. f[1..n] = Added(f, Sized(q), Lasts(q), 1..n)
    BY <1>1 DEF IsSum
  <1> QED
    BY <1>1, <1>2, <1>3 DEF Added

\* A frame adds its size.
LEMMA BytesAppend ==
    ASSUME NEW q \in Seq(Waiting), NEW m \in Waiting
    PROVE  Bytes(Append(q, m)) = Bytes(q) + m.size
  <1> DEFINE r == Append(q, m)
  <1>1. /\ r \in Seq(Waiting) /\ Len(q) \in Nat /\ Len(r) = Len(q) + 1
        /\ \A i \in 1..Len(q) : r[i] = q[i]
        /\ r[Len(q) + 1] = m
    BY AppendProperties, LenProperties
  <1> HIDE DEF r
  <1>2. PICK f : IsSum(f, Sized(q), Lasts(q), DOMAIN q) /\ Bytes(q) = f[DOMAIN q]
    BY BytesFold
  <1>3. PICK e : IsSum(e, Sized(r), Lasts(r), DOMAIN r) /\ Bytes(r) = e[DOMAIN r]
    BY <1>1, BytesFold
  <1>4. DOMAIN q = 1..Len(q) /\ DOMAIN r = 1..Len(q) + 1
    BY <1>1, Positions
  <1> DEFINE T == {n \in Nat : n <= Len(q) => e[1..n] = f[1..n]}
  <1>5. 0 \in T
    <2>1. 1..0 = {} /\ {} \in SUBSET DOMAIN q /\ {} \in SUBSET DOMAIN r
      OBVIOUS
    <2>2. e[{}] = 0 /\ f[{}] = 0
      BY <1>2, <1>3, <2>1, Zenon DEF IsSum, Added
    <2> QED
      BY <2>1, <2>2
  <1>6. ASSUME NEW n \in Nat, n \in T PROVE n + 1 \in T
    <2> SUFFICES ASSUME n + 1 <= Len(q) PROVE e[1..n + 1] = f[1..n + 1]
      OBVIOUS
    <2>1. n + 1 \in 1..Len(q) /\ n + 1 \in 1..Len(r) /\ (n + 1) - 1 = n /\ n <= Len(q)
      BY <1>1
    <2>2. f[1..n + 1] = q[n + 1].size + f[1..n]
      BY <1>2, <2>1, BytesPrefix
    <2>3. e[1..n + 1] = r[n + 1].size + e[1..n]
      BY <1>1, <1>3, <2>1, BytesPrefix
    <2>4. e[1..n] = f[1..n]
      BY <1>6, <2>1
    <2> QED
      BY <1>1, <2>1, <2>2, <2>3, <2>4
  <1>7. e[1..Len(q)] = f[1..Len(q)]
    <2>1. \A n \in Nat : n \in T
      <3> HIDE DEF T
      <3> QED
        BY <1>5, <1>6, SetInduction
    <2> QED
      BY <1>1, <2>1
  <1>8. e[1..Len(q) + 1] = m.size + e[1..Len(q)]
    <2>1. Len(q) + 1 \in 1..Len(r) /\ (Len(q) + 1) - 1 = Len(q)
      BY <1>1
    <2> QED
      BY <1>1, <1>3, <2>1, BytesPrefix
  <1>9. m.size \in Nat /\ Bytes(q) \in Nat
    BY BytesType, SocketAssumption DEF Waiting
  <1>10. Bytes(r) = Bytes(q) + m.size
    BY <1>2, <1>3, <1>4, <1>7, <1>8, <1>9
  <1> QED
    BY <1>10 DEF r

\* The bytes of all queues are such a sum.
LEMMA BytesSum ==
    ASSUME NEW q \in [Keys -> Seq(Waiting)]
    PROVE  \E f : /\ IsSum(f, [k \in Keys |-> Bytes(q[k])], AnyOf, Keys)
                  /\ MapThenSumSet(LAMBDA k : Bytes(q[k]), Keys) = f[Keys]
  <1> DEFINE g == [k \in Keys |-> Bytes(q[k])]
             Step(f) == [s \in SUBSET Keys |->
                          IF s = {} THEN 0
                          ELSE Bytes(q[CHOOSE k \in s : TRUE]) + f[s \ {CHOOSE k \in s : TRUE}]]
             F == CHOOSE f : f = Step(f)
  <1>1. g \in [Keys -> Nat]
    BY BytesType
  <1>2. ASSUME NEW f PROVE Step(f) = [s \in SUBSET Keys |-> Added(f, g, AnyOf, s)]
    <2>1. ASSUME NEW s \in SUBSET Keys
          PROVE  Step(f)[s] = Added(f, g, AnyOf, s)
      <3>1. CASE s = {}
        BY <3>1 DEF Added
      <3>2. CASE s # {}
        <4> DEFINE x == CHOOSE k \in s : TRUE
        <4>1. x \in s /\ x \in Keys /\ AnyOf[s] = x
          BY <3>2 DEF AnyOf
        <4>2. g[x] = Bytes(q[x])
          BY <4>1
        <4>3. Step(f)[s] = Bytes(q[x]) + f[s \ {x}]
          BY <3>2
        <4> HIDE DEF x, g
        <4>4. Added(f, g, AnyOf, s) = g[x] + f[s \ {x}]
          BY <3>2, <4>1 DEF Added
        <4> QED
          BY <4>2, <4>3, <4>4
      <3> QED
        BY <3>1, <3>2
    <2> HIDE DEF g
    <2> QED
      BY <2>1
  <1>3. PICK f : IsSum(f, g, AnyOf, Keys)
    <2> HIDE DEF g
    <2> QED
      BY <1>1, FirstPicks, SumExists, SocketAssumption
  <1>4. f = Step(f)
    <2> HIDE DEF g, Step
    <2> QED
      BY <1>2, <1>3 DEF IsSum
  <1>5. F = Step(F)
    <2> HIDE DEF Step
    <2> QED
      BY <1>4
  <1>6. MapThenSumSet(LAMBDA k : Bytes(q[k]), Keys) = F[Keys]
    BY DEF MapThenSumSet, MapThenFoldSet
  <1> HIDE DEF F
  <1>7. IsSum(F, g, AnyOf, Keys)
    <2> HIDE DEF g, Step
    <2> QED
      BY <1>2, <1>5 DEF IsSum
  <1> QED
    BY <1>6, <1>7

\* The two totals, and how they change with the queue of one key.
Messages(q) == MapThenSumSet(LAMBDA k : Len(q[k]), Keys)
TotalBytes(q) == MapThenSumSet(LAMBDA k : Bytes(q[k]), Keys)

\* They change by what is added to or taken from the queue of one key.
LEMMA TotalsChange ==
    ASSUME NEW q \in [Keys -> Seq(Waiting)], NEW r \in [Keys -> Seq(Waiting)],
           NEW k \in Keys, \A d \in Keys \ {k} : r[d] = q[d]
    PROVE  /\ Messages(q) \in Nat /\ Messages(q) >= Len(q[k])
           /\ Messages(r) = (Messages(q) - Len(q[k])) + Len(r[k])
           /\ TotalBytes(q) \in Nat /\ TotalBytes(q) >= Bytes(q[k])
           /\ TotalBytes(r) = (TotalBytes(q) - Bytes(q[k])) + Bytes(r[k])
  <1>1. /\ Messages(q) \in Nat /\ Messages(q) >= Len(q[k])
        /\ Messages(r) = (Messages(q) - Len(q[k])) + Len(r[k])
    <2> DEFINE g == [d \in Keys |-> Len(q[d])]
               h == [d \in Keys |-> Len(r[d])]
    <2>1. g \in [Keys -> Nat] /\ h \in [Keys -> Nat]
      BY LenProperties
    <2>2. g[k] = Len(q[k]) /\ h[k] = Len(r[k]) /\ \A d \in Keys \ {k} : h[d] = g[d]
      OBVIOUS
    <2>3. PICK f : IsSum(f, g, AnyOf, Keys) /\ Messages(q) = f[Keys]
      BY MessagesSum DEF Messages
    <2>4. PICK e : IsSum(e, h, AnyOf, Keys) /\ Messages(r) = e[Keys]
      BY MessagesSum DEF Messages
    <2> HIDE DEF g, h
    <2>5. f[Keys] \in Nat /\ f[Keys] >= g[k] /\ e[Keys] = (f[Keys] - g[k]) + h[k]
      <3>1. IsFiniteSet(Keys) /\ Picks(AnyOf, Keys)
        BY FirstPicks, SocketAssumption
      <3>2. IsSum(f, g, AnyOf, Keys) /\ IsSum(e, h, AnyOf, Keys)
        BY <2>3, <2>4
      <3>3. \A d \in Keys \ {k} : h[d] = g[d]
        BY <2>2
      <3>4. TwoSums(f, g, e, h, k, AnyOf, Keys)
        BY <2>1, <3>1, <3>2, <3>3 DEF TwoSums
      <3> QED
        BY <3>4, TwoSumsDiffer
    <2> QED
      BY <2>2, <2>3, <2>4, <2>5
  <1>2. /\ TotalBytes(q) \in Nat /\ TotalBytes(q) >= Bytes(q[k])
        /\ TotalBytes(r) = (TotalBytes(q) - Bytes(q[k])) + Bytes(r[k])
    <2> DEFINE g == [d \in Keys |-> Bytes(q[d])]
               h == [d \in Keys |-> Bytes(r[d])]
    <2>1. g \in [Keys -> Nat] /\ h \in [Keys -> Nat]
      BY BytesType
    <2>2. g[k] = Bytes(q[k]) /\ h[k] = Bytes(r[k]) /\ \A d \in Keys \ {k} : h[d] = g[d]
      OBVIOUS
    <2>3. PICK f : IsSum(f, g, AnyOf, Keys) /\ TotalBytes(q) = f[Keys]
      BY BytesSum DEF TotalBytes
    <2>4. PICK e : IsSum(e, h, AnyOf, Keys) /\ TotalBytes(r) = e[Keys]
      BY BytesSum DEF TotalBytes
    <2> HIDE DEF g, h
    <2>5. f[Keys] \in Nat /\ f[Keys] >= g[k] /\ e[Keys] = (f[Keys] - g[k]) + h[k]
      <3>1. IsFiniteSet(Keys) /\ Picks(AnyOf, Keys)
        BY FirstPicks, SocketAssumption
      <3>2. IsSum(f, g, AnyOf, Keys) /\ IsSum(e, h, AnyOf, Keys)
        BY <2>3, <2>4
      <3>3. \A d \in Keys \ {k} : h[d] = g[d]
        BY <2>2
      <3>4. TwoSums(f, g, e, h, k, AnyOf, Keys)
        BY <2>1, <3>1, <3>2, <3>3 DEF TwoSums
      <3> QED
        BY <3>4, TwoSumsDiffer
    <2> QED
      BY <2>2, <2>3, <2>4, <2>5
  <1> QED
    BY <1>1, <1>2

\* Nothing is queued at first.
LEMMA TotalsEmpty ==
    ASSUME NEW q \in [Keys -> Seq(Waiting)], \A k \in Keys : q[k] = << >>
    PROVE  Messages(q) = 0 /\ TotalBytes(q) = 0
  <1> DEFINE T == {n \in Nat : \A s \in SUBSET Keys : Cardinality(s) = n =>
                     \A f : IsSum(f, [k \in Keys |-> 0], AnyOf, Keys) => f[s] = 0}
             g == [k \in Keys |-> 0]
  <1>1. 0 \in T
    <2> SUFFICES ASSUME NEW s \in SUBSET Keys, Cardinality(s) = 0, NEW f,
                        IsSum(f, g, AnyOf, Keys)
                 PROVE  f[s] = 0
      OBVIOUS
    <2>1. IsFiniteSet(s)
      BY SocketAssumption, FS_Subset
    <2>2. s = {}
      BY <2>1, FS_EmptySet
    <2> QED
      BY <2>2, Zenon DEF IsSum, Added
  <1>2. ASSUME NEW n \in Nat, n \in T PROVE n + 1 \in T
    <2> SUFFICES ASSUME NEW s \in SUBSET Keys, Cardinality(s) = n + 1, NEW f,
                        IsSum(f, g, AnyOf, Keys)
                 PROVE  f[s] = 0
      OBVIOUS
    <2>1. s # {}
      <3>1. Cardinality({}) = 0 /\ n + 1 # 0
        BY FS_EmptySet
      <3> QED
        BY <3>1
    <2> DEFINE x == AnyOf[s]
               r == s \ {x}
    <2>2. x \in Keys /\ r \in SUBSET Keys /\ Cardinality(r) = n
      BY <2>1, PickSmaller, FirstPicks, SocketAssumption
    <2>3. f[s] = g[x] + f[r]
      <3>1. f[s] = Added(f, g, AnyOf, s)
        BY DEF IsSum
      <3> HIDE DEF g
      <3> QED
        BY <2>1, <3>1 DEF Added
    <2>4. f[r] = 0
      <3> HIDE DEF r
      <3> QED
        BY <1>2, <2>2
    <2>5. g[x] = 0
      BY <2>2
    <2> HIDE DEF g, r, x
    <2> QED
      BY <2>3, <2>4, <2>5
  <1>3. Cardinality(Keys) \in T
    <2> HIDE DEF T
    <2>1. \A n \in Nat : n \in T
      BY <1>1, <1>2, SetInduction
    <2> QED
      BY <2>1, FS_CardinalityType, SocketAssumption
  <1>4. \A f : IsSum(f, g, AnyOf, Keys) => f[Keys] = 0
    <2>1. Keys \in SUBSET Keys
      OBVIOUS
    <2> QED
      BY <1>3, <2>1
  <1>5. [k \in Keys |-> Len(q[k])] = g /\ [k \in Keys |-> Bytes(q[k])] = g
    BY BytesEmpty
  <1> HIDE DEF g
  <1>6. Messages(q) = 0
    BY <1>4, <1>5, MessagesSum DEF Messages
  <1>7. TotalBytes(q) = 0
    BY <1>4, <1>5, BytesSum DEF TotalBytes
  <1> QED
    BY <1>6, <1>7

-----------------------------------------------------------------------------
(* The order of the frames. *)

\* The numbers of the frames of a queue.
LEMMA NumbersType ==
    ASSUME NEW q \in Seq(Waiting)
    PROVE  /\ Numbers(q) \in Seq(1..MaxSent) /\ Len(Numbers(q)) = Len(q) /\ Len(q) \in Nat
           /\ \A i \in 1..Len(q) : Numbers(q)[i] = q[i].number
  <1>1. DOMAIN q = 1..Len(q) /\ Len(q) \in Nat
    BY LenProperties
  <1>2. \A i \in 1..Len(q) : q[i] \in Waiting
    BY ElementOfSeq
  <1>3. \A i \in 1..Len(q) : Numbers(q)[i] = q[i].number /\ q[i].number \in 1..MaxSent
    BY <1>1, <1>2 DEF Numbers, Waiting
  <1>4. Numbers(q) \in [1..Len(q) -> 1..MaxSent]
    BY <1>1, <1>3 DEF Numbers
  <1> QED
    BY <1>1, <1>3, <1>4, FunctionSeq

\* What has arrived of a document's frames.
Arrived(d, q) == d \o Numbers(q)

\* First those delivered, then those queued.
LEMMA ArrivedType ==
    ASSUME NEW d \in Seq(1..MaxSent), NEW q \in Seq(Waiting)
    PROVE  /\ Arrived(d, q) \in Seq(1..MaxSent)
           /\ Len(Arrived(d, q)) = Len(d) + Len(q) /\ Len(d) \in Nat /\ Len(q) \in Nat
           /\ \A i \in 1..Len(d) : Arrived(d, q)[i] = d[i]
           /\ \A i \in 1..Len(q) : Arrived(d, q)[Len(d) + i] = q[i].number
  <1> DEFINE t == Numbers(q)
  <1>1. /\ t \in Seq(1..MaxSent) /\ Len(t) = Len(q) /\ Len(q) \in Nat /\ Len(d) \in Nat
        /\ \A i \in 1..Len(q) : t[i] = q[i].number
    BY NumbersType, LenProperties
  <1> HIDE DEF t
  <1>2. /\ d \o t \in Seq(1..MaxSent) /\ Len(d \o t) = Len(d) + Len(t)
        /\ \A i \in 1..Len(d) + Len(t) :
             (d \o t)[i] = IF i <= Len(d) THEN d[i] ELSE t[i - Len(d)]
    BY <1>1, ConcatProperties
  <1>3. Arrived(d, q) = d \o t
    BY DEF Arrived, t
  <1>4. \A i \in 1..Len(d) : (d \o t)[i] = d[i]
    BY <1>1, <1>2
  <1>5. ASSUME NEW i \in 1..Len(q) PROVE (d \o t)[Len(d) + i] = q[i].number
    <2>1. /\ Len(d) + i \in 1..Len(d) + Len(t) /\ ~(Len(d) + i <= Len(d))
          /\ (Len(d) + i) - Len(d) = i
      BY <1>1
    <2> QED
      BY <1>1, <1>2, <2>1
  <1> QED
    BY <1>1, <1>2, <1>3, <1>4, <1>5

\* A sequence holds the numbers up to n that were not refused, in order.
Ordered(a, n, r) ==
    /\ Range(a) = (1..n) \ r
    /\ \A i, j \in DOMAIN a : i < j => a[i] < a[j]

\* The next frame is kept: it comes last.
LEMMA OrderedAppend ==
    ASSUME NEW a \in Seq(1..MaxSent), NEW b \in Seq(1..MaxSent), NEW n \in Nat,
           NEW r \in SUBSET (1..n), Ordered(a, n, r), n + 1 \in 1..MaxSent,
           Len(b) = Len(a) + 1, \A i \in 1..Len(a) : b[i] = a[i], b[Len(a) + 1] = n + 1
    PROVE  Ordered(b, n + 1, r)
  <1>1. DOMAIN a = 1..Len(a) /\ DOMAIN b = 1..Len(a) + 1 /\ Len(a) \in Nat
    BY LenProperties
  <1>2. ASSUME NEW i \in 1..Len(a) PROVE a[i] \in (1..n) \ r
    BY <1>1, <1>2 DEF Ordered, Range
  <1>3. ASSUME NEW x \in 1..n, x \notin r PROVE \E i \in 1..Len(a) : a[i] = x
    BY <1>1, <1>3 DEF Ordered, Range
  <1>4. ASSUME NEW x \in Range(b) PROVE x \in (1..n + 1) \ r
    <2>1. PICK i \in 1..Len(a) + 1 : b[i] = x
      BY <1>1 DEF Range
    <2>2. CASE i = Len(a) + 1
      <3>1. n + 1 \notin 1..n /\ n + 1 \in 1..n + 1
        OBVIOUS
      <3> QED
        BY <2>1, <2>2, <3>1
    <2>3. CASE i # Len(a) + 1
      <3>1. i \in 1..Len(a)
        BY <1>1, <2>1, <2>3
      <3>2. x \in 1..n /\ x \notin r
        BY <1>2, <2>1, <3>1
      <3> QED
        BY <3>2
    <2> QED
      BY <2>2, <2>3
  <1>5. ASSUME NEW x \in 1..n + 1, x \notin r PROVE x \in Range(b)
    <2>1. \E i \in 1..Len(a) + 1 : b[i] = x
      <3>1. CASE x = n + 1
        BY <1>1, <3>1
      <3>2. CASE x # n + 1
        <4>1. x \in 1..n
          BY <3>2
        <4>2. PICK i \in 1..Len(a) : a[i] = x
          BY <1>3, <1>5, <4>1
        <4> QED
          BY <1>1, <4>2
      <3> QED
        BY <3>1, <3>2
    <2> QED
      BY <1>1, <2>1 DEF Range
  <1>6. Range(b) = (1..n + 1) \ r
    BY <1>4, <1>5
  <1>7. ASSUME NEW i \in DOMAIN b, NEW j \in DOMAIN b, i < j PROVE b[i] < b[j]
    <2>1. i \in 1..Len(a) /\ j \in 1..Len(a) + 1
      BY <1>1, <1>7
    <2>2. CASE j = Len(a) + 1
      <3>1. b[i] \in 1..n /\ b[j] = n + 1
        BY <1>2, <2>1, <2>2
      <3> QED
        BY <3>1
    <2>3. CASE j # Len(a) + 1
      <3>1. j \in 1..Len(a)
        BY <1>1, <2>1, <2>3
      <3> QED
        BY <1>1, <1>7, <2>1, <3>1 DEF Ordered
    <2> QED
      BY <2>2, <2>3
  <1> QED
    BY <1>6, <1>7 DEF Ordered

\* The next frame is refused.
LEMMA OrderedRefused ==
    ASSUME NEW a, NEW n \in Nat, NEW r \in SUBSET (1..n), Ordered(a, n, r)
    PROVE  Ordered(a, n + 1, r \cup {n + 1})
  <1>1. \A x : x \in (1..n + 1) \ (r \cup {n + 1}) <=> x \in (1..n) \ r
    OBVIOUS
  <1>2. (1..n + 1) \ (r \cup {n + 1}) = (1..n) \ r
    BY <1>1
  <1> QED
    BY <1>2 DEF Ordered

-----------------------------------------------------------------------------
(* The invariant in parts: the frames of the client, and the rest. *)

Counted ==
    /\ Shapes
    /\ queued_messages \in 0..MaxMessages /\ queued_bytes \in 0..MaxBytes
    /\ max_pending_documents \in DocumentLimits
    /\ Cardinality(PendingDocuments) <= max_pending_documents
    /\ sent \in [Keys -> 0..MaxSent] /\ refused \in [Keys -> SUBSET (1..MaxSent)]
    /\ queued_messages = Messages(queue) /\ queued_bytes = TotalBytes(queue)
    /\ \A k \in Keys : Ordered(Arrived(delivered[k], queue[k]), sent[k], refused[k])

Looped ==
    /\ reader \in Readers /\ pending \in Keys \cup {None}
    /\ established \subseteq Keys /\ authenticated \in BOOLEAN
    /\ opened_age \in 0..Timeout /\ idle_age \in 0..Timeout
    /\ writer \in {"running", "ended"} /\ told \in BOOLEAN
    /\ registered \subseteq Keys /\ leaving \subseteq Keys /\ granted \subseteq Keys

Bounded == outbound \in Seq(OutFrames) /\ Len(outbound) <= Capacity

Admitted == Authenticating /\ NothingBeforeAdmission /\ RegistrationOwned

\* The parts follow from the invariant ...
LEMMA Parts == IInv => Counted /\ Looped /\ Bounded /\ Admitted /\ Drained
  <1> SUFFICES ASSUME IInv PROVE Counted /\ Looped /\ Bounded /\ Admitted /\ Drained
    OBVIOUS
  <1>1. \A k \in Keys : Ordered(Arrived(delivered[k], queue[k]), sent[k], refused[k])
    BY DEF IInv, DeliveredInOrder, Ordered, Arrived
  <1>2. queued_messages = Messages(queue) /\ queued_bytes = TotalBytes(queue)
    BY DEF IInv, QueueAccounted, Messages, TotalBytes
  <1> QED
    BY <1>1, <1>2 DEF IInv, TypeOK, Counted, Looped, Bounded, Admitted

\* ... and give it back ...
LEMMA Whole == Counted /\ Looped /\ Bounded /\ Admitted /\ Drained => IInv
  <1> SUFFICES ASSUME Counted, Looped, Bounded, Admitted, Drained PROVE IInv
    OBVIOUS
  <1>1. DeliveredInOrder
    BY DEF Counted, DeliveredInOrder, Ordered, Arrived
  <1>2. QueueAccounted
    BY DEF Counted, QueueAccounted, Messages, TotalBytes
  <1>3. TypeOK
    BY DEF Counted, Shapes, Waiting, Looped, Bounded, TypeOK
  <1> QED
    BY <1>1, <1>2, <1>3 DEF IInv, Counted, Admitted

\* ... also after a step.
LEMMA WholeNext ==
    ASSUME Counted', Looped', Bounded', Admitted', Drained' PROVE IInv'
  <1>1. (Counted /\ Looped /\ Bounded /\ Admitted /\ Drained)'
    OBVIOUS
  <1> QED
    BY <1>1, Whole, PTL

\* Most steps leave the frames of the client alone.
LEMMA CountedSame ==
    ASSUME Counted, UNCHANGED <<waiting, sent, refused, delivered>> PROVE Counted'
  <1>1. /\ queue' = queue /\ queued_messages' = queued_messages /\ queued_bytes' = queued_bytes
        /\ max_pending_documents' = max_pending_documents
        /\ sent' = sent /\ refused' = refused /\ delivered' = delivered
    BY DEF waiting
  <1>2. PendingDocuments' = PendingDocuments
    BY <1>1 DEF PendingDocuments
  <1>3. Messages(queue)' = Messages(queue) /\ TotalBytes(queue)' = TotalBytes(queue)
    BY <1>1
  <1>4. Shapes'
    BY <1>1 DEF Shapes, Counted
  <1>5. \A k \in Keys :
          (Ordered(Arrived(delivered[k], queue[k]), sent[k], refused[k]))'
    BY <1>1 DEF Counted
  <1> QED
    BY <1>1, <1>2, <1>3, <1>4, <1>5 DEF Counted

\* The outbound queue never exceeds its capacity.
LEMMA PushedBounded ==
    ASSUME Bounded, NEW fs \in Seq(OutFrames), outbound' = Pushed(fs) PROVE Bounded'
  <1> DEFINE room == Capacity - Len(outbound)
             n == IF Len(fs) < room THEN Len(fs) ELSE room
             t == SubSeq(fs, 1, n)
  <1>1. Len(outbound) \in Nat /\ Len(fs) \in Nat /\ Capacity \in Nat
    BY LenProperties, SocketAssumption DEF Bounded
  <1>2. room \in Nat /\ Len(outbound) + room = Capacity
    BY <1>1 DEF Bounded
  <1>3. n \in Nat /\ n <= Len(fs) /\ n <= room
    <2> HIDE DEF room
    <2> QED
      BY <1>1, <1>2
  <1> HIDE DEF n
  <1>4. t \in Seq(OutFrames) /\ Len(t) = n
    <2>1. \A i \in 1..n : fs[i] \in OutFrames
      BY <1>1, <1>3, ElementOfSeq
    <2>2. /\ t \in Seq(OutFrames)
          /\ Len(t) = IF 1 <= n THEN (n - 1) + 1 ELSE 0
      BY <1>3, <2>1, SubSeqProperties
    <2> QED
      BY <1>3, <2>2
  <1> HIDE DEF t, room
  <1>5. outbound \o t \in Seq(OutFrames) /\ Len(outbound \o t) = Len(outbound) + n
    BY <1>4, ConcatProperties DEF Bounded
  <1>6. CASE writer # "running"
    BY <1>6 DEF Pushed, Bounded
  <1>7. CASE writer = "running"
    <2>1. outbound' = outbound \o t
      BY <1>7 DEF Pushed, t, n, room
    <2> QED
      BY <1>1, <1>2, <1>3, <1>5, <2>1 DEF Bounded
  <1> QED
    BY <1>6, <1>7

\* What is sent to the client.
LEMMA FramesTyped ==
    /\ << "frame" >> \in Seq(OutFrames) /\ << "close" >> \in Seq(OutFrames)
    /\ << "frame", "close" >> \in Seq(OutFrames)
  BY DEF OutFrames

-----------------------------------------------------------------------------
(* The frames of the client. *)

\* What holds of a key's frames when another key's change.
LEMMA OrderedElsewhere ==
    ASSUME Counted, NEW k \in Keys,
           \A d \in Keys \ {k} : /\ queue'[d] = queue[d] /\ delivered'[d] = delivered[d]
                                 /\ sent'[d] = sent[d] /\ refused'[d] = refused[d],
           Ordered(Arrived(delivered'[k], queue'[k]), sent'[k], refused'[k])
    PROVE  \A d \in Keys : Ordered(Arrived(delivered'[d], queue'[d]), sent'[d], refused'[d])
  <1> SUFFICES ASSUME NEW d \in Keys
               PROVE  Ordered(Arrived(delivered'[d], queue'[d]), sent'[d], refused'[d])
    OBVIOUS
  <1>1. CASE d = k
    BY <1>1
  <1>2. CASE d # k
    <2>1. /\ queue'[d] = queue[d] /\ delivered'[d] = delivered[d]
          /\ sent'[d] = sent[d] /\ refused'[d] = refused[d]
      BY <1>2
    <2> QED
      BY <2>1 DEF Counted
  <1> QED
    BY <1>1, <1>2

\* What a step has to keep of the frames.
LEMMA CountedNext ==
    ASSUME Shapes', queued_messages' \in 0..MaxMessages, queued_bytes' \in 0..MaxBytes,
           max_pending_documents' \in DocumentLimits,
           Cardinality(PendingDocuments') <= max_pending_documents',
           sent' \in [Keys -> 0..MaxSent], refused' \in [Keys -> SUBSET (1..MaxSent)],
           queued_messages' = Messages(queue'), queued_bytes' = TotalBytes(queue'),
           \A k \in Keys : Ordered(Arrived(delivered'[k], queue'[k]), sent'[k], refused'[k])
    PROVE  Counted'
  BY DEF Counted

\* The client sends the next frame for k.
Sent(k) == sent[k] < MaxSent /\ sent' = [sent EXCEPT ![k] = @ + 1]

\* The number of the next frame is new.
LEMMA SentNext ==
    ASSUME Counted, NEW k \in Keys, Sent(k)
    PROVE  /\ sent' \in [Keys -> 0..MaxSent] /\ sent'[k] = sent[k] + 1 /\ sent[k] \in Nat
           /\ sent[k] + 1 \in 1..MaxSent /\ \A d \in Keys \ {k} : sent'[d] = sent[d]
           /\ refused[k] \in SUBSET (1..sent[k])
  <1>1. MaxSent \in Nat
    BY SocketAssumption
  <1>2. sent[k] \in 0..MaxSent /\ sent[k] < MaxSent
    BY DEF Counted, Sent
  <1>3. sent[k] + 1 \in 0..MaxSent /\ sent[k] + 1 \in 1..MaxSent /\ sent[k] \in Nat
    BY <1>1, <1>2
  <1>4. sent'[k] = sent[k] + 1 /\ \A d \in Keys \ {k} : sent'[d] = sent[d]
    BY DEF Counted, Sent
  <1>5. sent' \in [Keys -> 0..MaxSent]
    BY <1>3 DEF Counted, Sent
  <1> QED
    BY <1>3, <1>4, <1>5 DEF Counted, Shapes

\* It goes to the actor: nothing of the document waits any more.
LEMMA RoutedCounted ==
    ASSUME Counted, NEW k \in Keys, Sent(k), queue[k] = << >>,
           delivered' = [delivered EXCEPT ![k] = Append(@, sent'[k])],
           UNCHANGED <<waiting, refused>>
    PROVE  Counted'
  <1>1. /\ queue' = queue /\ queued_messages' = queued_messages /\ queued_bytes' = queued_bytes
        /\ max_pending_documents' = max_pending_documents /\ refused' = refused
    BY DEF waiting
  <1>2. PendingDocuments' = PendingDocuments
    BY <1>1 DEF PendingDocuments
  <1> DEFINE n == sent[k]
             a == delivered[k]
             b == Append(a, n + 1)
  <1>3. /\ sent' \in [Keys -> 0..MaxSent] /\ sent'[k] = n + 1 /\ n \in Nat
        /\ n + 1 \in 1..MaxSent /\ \A d \in Keys \ {k} : sent'[d] = sent[d]
        /\ refused[k] \in SUBSET (1..n)
    BY SentNext
  <1>4. a \in Seq(1..MaxSent)
    BY DEF Counted, Shapes
  <1>5. delivered'[k] = b /\ \A d \in Keys \ {k} : delivered'[d] = delivered[d]
    BY <1>3 DEF Counted, Shapes
  <1> HIDE DEF n, a
  <1>6. /\ b \in Seq(1..MaxSent) /\ Len(b) = Len(a) + 1
        /\ \A i \in 1..Len(a) : b[i] = a[i]
        /\ b[Len(a) + 1] = n + 1
    BY <1>3, <1>4, AppendProperties
  <1>7. delivered' \in [Keys -> Seq(1..MaxSent)]
    BY <1>3, <1>6 DEF Counted, Shapes, a, n
  <1> HIDE DEF b
  <1>8. \A s \in Seq(1..MaxSent) : Arrived(s, << >>) = s
    <2> SUFFICES ASSUME NEW s \in Seq(1..MaxSent) PROVE Arrived(s, << >>) = s
      OBVIOUS
    <2>1. Numbers(<< >>) \in Seq(1..MaxSent) /\ Len(Numbers(<< >>)) = 0
      BY NumbersType, EmptySeq
    <2>2. Numbers(<< >>) = << >>
      BY <2>1, EmptySeq
    <2> QED
      BY <2>2, ConcatEmptySeq DEF Arrived
  <1>9. Ordered(a, n, refused[k])
    BY <1>4, <1>8 DEF Counted, a, n
  <1>10. Ordered(b, n + 1, refused[k])
    BY <1>3, <1>4, <1>6, <1>9, OrderedAppend
  <1>11. Ordered(Arrived(delivered'[k], queue'[k]), sent'[k], refused'[k])
    BY <1>1, <1>3, <1>5, <1>6, <1>8, <1>10
  <1>12. \A d \in Keys : Ordered(Arrived(delivered'[d], queue'[d]), sent'[d], refused'[d])
    BY <1>1, <1>3, <1>5, <1>11, OrderedElsewhere
  <1>13. Shapes'
    <2>1. ASSUME NEW d \in Keys PROVE refused'[d] \subseteq 1..sent'[d]
      <3>1. CASE d = k
        BY <1>1, <1>3, <3>1
      <3>2. CASE d # k
        BY <1>1, <1>3, <3>2 DEF Counted, Shapes
      <3> QED
        BY <3>1, <3>2
    <2> QED
      BY <1>1, <1>7, <2>1 DEF Counted, Shapes
  <1> QED
    BY <1>1, <1>2, <1>3, <1>12, <1>13, CountedNext DEF Counted

\* It is refused.
LEMMA RefusedCounted ==
    ASSUME Counted, NEW k \in Keys, Sent(k),
           refused' = [refused EXCEPT ![k] = @ \cup {sent'[k]}],
           UNCHANGED <<waiting, delivered>>
    PROVE  Counted'
  <1>1. /\ queue' = queue /\ queued_messages' = queued_messages /\ queued_bytes' = queued_bytes
        /\ max_pending_documents' = max_pending_documents /\ delivered' = delivered
    BY DEF waiting
  <1>2. PendingDocuments' = PendingDocuments
    BY <1>1 DEF PendingDocuments
  <1> DEFINE n == sent[k]
             r == refused[k]
             a == Arrived(delivered[k], queue[k])
  <1>3. /\ sent' \in [Keys -> 0..MaxSent] /\ sent'[k] = n + 1 /\ n \in Nat
        /\ n + 1 \in 1..MaxSent /\ \A d \in Keys \ {k} : sent'[d] = sent[d]
        /\ r \in SUBSET (1..n)
    BY SentNext
  <1>4. refused'[k] = r \cup {n + 1} /\ \A d \in Keys \ {k} : refused'[d] = refused[d]
    BY <1>3 DEF Counted
  <1>5. refused' \in [Keys -> SUBSET (1..MaxSent)]
    BY <1>3 DEF Counted
  <1>6. Ordered(a, n, r)
    BY DEF Counted
  <1> HIDE DEF n, r, a
  <1>7. Ordered(a, n + 1, r \cup {n + 1})
    BY <1>3, <1>6, OrderedRefused
  <1>8. Ordered(Arrived(delivered'[k], queue'[k]), sent'[k], refused'[k])
    BY <1>1, <1>3, <1>4, <1>7 DEF a
  <1>9. \A d \in Keys : Ordered(Arrived(delivered'[d], queue'[d]), sent'[d], refused'[d])
    BY <1>1, <1>3, <1>4, <1>8, OrderedElsewhere
  <1>10. Shapes'
    <2>1. ASSUME NEW d \in Keys PROVE refused'[d] \subseteq 1..sent'[d]
      <3>1. CASE d = k
        <4>1. \A x \in r \cup {n + 1} : x \in 1..n + 1
          BY <1>3
        <4> QED
          BY <1>3, <1>4, <3>1, <4>1
      <3>2. CASE d # k
        BY <1>3, <1>4, <3>2 DEF Counted, Shapes
      <3> QED
        BY <3>1, <3>2
    <2> QED
      BY <1>1, <2>1 DEF Counted, Shapes
  <1> QED
    BY <1>1, <1>2, <1>3, <1>5, <1>9, <1>10, CountedNext DEF Counted

\* It is kept, within the limits.
LEMMA KeptCounted ==
    ASSUME Counted, NEW k \in Keys, NEW size \in Sizes, Sent(k), WithinLimits(k, size),
           queue' = [queue EXCEPT ![k] = Append(@, [number |-> sent'[k], size |-> size])],
           queued_messages' = queued_messages + 1,
           queued_bytes' = queued_bytes + size,
           UNCHANGED <<max_pending_documents, refused, delivered>>
    PROVE  Counted'
  <1> DEFINE n == sent[k]
             m == [number |-> n + 1, size |-> size]
             q == queue[k]
             p == Append(q, m)
             a == Arrived(delivered[k], q)
             b == Arrived(delivered[k], p)
  <1>1. /\ sent' \in [Keys -> 0..MaxSent] /\ sent'[k] = n + 1 /\ n \in Nat
        /\ n + 1 \in 1..MaxSent /\ \A d \in Keys \ {k} : sent'[d] = sent[d]
        /\ refused[k] \in SUBSET (1..n)
    BY SentNext
  <1>2. m \in Waiting /\ m.size = size /\ m.number = n + 1 /\ size \in Nat
    BY <1>1, SocketAssumption DEF Waiting
  <1>3. queue \in [Keys -> Seq(Waiting)] /\ q \in Seq(Waiting) /\ delivered[k] \in Seq(1..MaxSent)
    BY DEF Counted, Shapes
  <1>4. queue'[k] = p /\ \A d \in Keys \ {k} : queue'[d] = queue[d]
    BY <1>1, <1>3
  <1> HIDE DEF m
  <1>5. /\ p \in Seq(Waiting) /\ p # << >> /\ Len(p) = Len(q) + 1 /\ Len(q) \in Nat
        /\ \A i \in 1..Len(q) : p[i] = q[i]
        /\ p[Len(q) + 1] = m
    BY <1>2, <1>3, AppendProperties, LenProperties
  <1>6. queue' \in [Keys -> Seq(Waiting)]
    BY <1>1, <1>3, <1>5 DEF m
  <1>7. Bytes(p) = Bytes(q) + size /\ Bytes(q) \in Nat
    BY <1>2, <1>3, BytesAppend, BytesType
  <1> HIDE DEF p, q
  <1>8. /\ Messages(queue) \in Nat /\ Messages(queue) >= Len(q)
        /\ Messages(queue') = (Messages(queue) - Len(q)) + Len(p)
        /\ TotalBytes(queue) \in Nat /\ TotalBytes(queue) >= Bytes(q)
        /\ TotalBytes(queue') = (TotalBytes(queue) - Bytes(q)) + Bytes(p)
    BY <1>3, <1>4, <1>6, TotalsChange, ZenonT(30) DEF q
  <1>9. queued_messages' = Messages(queue') /\ queued_bytes' = TotalBytes(queue')
    <2>1. queued_messages = Messages(queue) /\ queued_bytes = TotalBytes(queue)
      BY DEF Counted
    <2> QED
      BY <1>2, <1>5, <1>7, <1>8, <2>1
  <1>10. queued_messages' \in 0..MaxMessages /\ queued_bytes' \in 0..MaxBytes
    BY <1>2, SocketAssumption DEF Counted, WithinLimits
  <1>11. Cardinality(PendingDocuments') <= max_pending_documents'
    <2> DEFINE D == PendingDocuments
    <2>1. IsFiniteSet(D) /\ Cardinality(D) \in Nat
      BY SocketAssumption, FS_Subset, FS_CardinalityType DEF PendingDocuments
    <2>2. \A d : d \in PendingDocuments' <=> d \in D \cup {k}
      BY <1>4, <1>5 DEF PendingDocuments
    <2>3. PendingDocuments' = D \cup {k}
      BY <2>2
    <2>4. k \in D <=> q # << >>
      BY DEF PendingDocuments, q
    <2>5. /\ Cardinality(D) <= max_pending_documents
          /\ k \notin D => Cardinality(D) + 1 <= max_pending_documents
      BY <2>4 DEF Counted, WithinLimits, q
    <2> HIDE DEF D
    <2>6. Cardinality(D \cup {k}) = IF k \in D THEN Cardinality(D) ELSE Cardinality(D) + 1
      BY <2>1, FS_AddElement
    <2> QED
      BY <2>3, <2>5, <2>6
  <1>12. Ordered(b, n + 1, refused[k])
    <2>1. /\ a \in Seq(1..MaxSent) /\ Len(a) = Len(delivered[k]) + Len(q)
          /\ Len(delivered[k]) \in Nat
          /\ \A i \in 1..Len(delivered[k]) : a[i] = delivered[k][i]
          /\ \A i \in 1..Len(q) : a[Len(delivered[k]) + i] = q[i].number
      BY <1>3, ArrivedType
    <2>2. /\ b \in Seq(1..MaxSent) /\ Len(b) = Len(delivered[k]) + Len(p)
          /\ \A i \in 1..Len(delivered[k]) : b[i] = delivered[k][i]
          /\ \A i \in 1..Len(p) : b[Len(delivered[k]) + i] = p[i].number
      BY <1>3, <1>5, ArrivedType
    <2>3. Ordered(a, n, refused[k])
      BY DEF Counted, q
    <2> HIDE DEF a, b, n
    <2> DEFINE x == Len(delivered[k])
               y == Len(q)
    <2>4. /\ x \in Nat /\ y \in Nat /\ Len(p) = y + 1
          /\ Len(a) = x + y /\ Len(b) = x + Len(p)
      BY <1>5, <2>1, <2>2
    <2>5. Len(b) = Len(a) + 1
      <3> HIDE DEF x, y
      <3> QED
        BY <2>4
    <2>6. b[Len(a) + 1] = n + 1
      <3>1. y + 1 \in 1..Len(p) /\ Len(a) + 1 = x + (y + 1)
        <4> HIDE DEF x, y
        <4> QED
          BY <2>4
      <3> QED
        BY <1>2, <1>5, <2>2, <3>1
    <2>7. ASSUME NEW i \in 1..Len(a) PROVE b[i] = a[i]
      <3>1. CASE i <= Len(delivered[k])
        BY <2>1, <2>2, <3>1
      <3>2. CASE i > Len(delivered[k])
        <4>1. /\ i - Len(delivered[k]) \in 1..Len(q) /\ i - Len(delivered[k]) \in 1..Len(p)
              /\ Len(delivered[k]) + (i - Len(delivered[k])) = i
          BY <1>5, <2>1, <3>2
        <4> DEFINE j == i - Len(delivered[k])
        <4>2. a[i] = q[j].number /\ b[i] = p[j].number /\ p[j] = q[j]
          <5> HIDE DEF j
          <5> QED
            BY <1>5, <2>1, <2>2, <4>1, ZenonT(30) DEF j
        <4> QED
          BY <4>2
      <3> QED
        BY <2>1, <3>1, <3>2
    <2> QED
      BY <1>1, <2>1, <2>2, <2>3, <2>5, <2>6, <2>7, OrderedAppend
  <1>13. \A d \in Keys : Ordered(Arrived(delivered'[d], queue'[d]), sent'[d], refused'[d])
    <2>1. Ordered(Arrived(delivered'[k], queue'[k]), sent'[k], refused'[k])
      BY <1>1, <1>4, <1>12
    <2> QED
      BY <1>1, <1>4, <2>1, OrderedElsewhere
  <1>14. Shapes'
    <2>1. ASSUME NEW d \in Keys PROVE refused'[d] \subseteq 1..sent'[d]
      <3>1. CASE d = k
        BY <1>1, <3>1
      <3>2. CASE d # k
        BY <1>1, <3>2 DEF Counted, Shapes
      <3> QED
        BY <3>1, <3>2
    <2> QED
      BY <1>6, <2>1 DEF Counted, Shapes
  <1> QED
    BY <1>1, <1>9, <1>10, <1>11, <1>13, <1>14, CountedNext DEF Counted

\* What waited for the document goes to its actor.
LEMMA DrainedCounted ==
    ASSUME Counted, NEW k \in Keys, DrainQueue(k),
           UNCHANGED <<max_pending_documents, sent, refused>>
    PROVE  Counted' /\ queue'[k] = << >> /\ \A d \in Keys \ {k} :
                         queue'[d] = queue[d] /\ delivered'[d] = delivered[d]
  <1> DEFINE q == queue[k]
             a == Arrived(delivered[k], q)
  <1>1. queue \in [Keys -> Seq(Waiting)] /\ q \in Seq(Waiting) /\ delivered[k] \in Seq(1..MaxSent)
    BY DEF Counted, Shapes
  <1>2. << >> \in Seq(Waiting) /\ Len(<< >>) = 0
    BY EmptySeq
  <1>3. /\ queue' \in [Keys -> Seq(Waiting)] /\ queue'[k] = << >>
        /\ \A d \in Keys \ {k} : queue'[d] = queue[d]
    BY <1>1, <1>2 DEF DrainQueue
  <1>4. a \in Seq(1..MaxSent)
    BY <1>1, ArrivedType
  <1>5. delivered'[k] = a /\ \A d \in Keys \ {k} : delivered'[d] = delivered[d]
    BY DEF Counted, Shapes, DrainQueue, Arrived
  <1>6. delivered' \in [Keys -> Seq(1..MaxSent)]
    BY <1>4 DEF Counted, Shapes, DrainQueue, Arrived
  <1> HIDE DEF q
  <1>7. /\ Messages(queue) \in Nat /\ Messages(queue) >= Len(q)
        /\ Messages(queue') = (Messages(queue) - Len(q)) + Len(queue'[k])
        /\ TotalBytes(queue) \in Nat /\ TotalBytes(queue) >= Bytes(q)
        /\ TotalBytes(queue') = (TotalBytes(queue) - Bytes(q)) + Bytes(queue'[k])
    BY <1>1, <1>3, TotalsChange DEF q
  <1>8. Len(queue'[k]) = 0 /\ Bytes(queue'[k]) = 0 /\ Len(q) \in Nat /\ Bytes(q) \in Nat
    BY <1>1, <1>2, <1>3, BytesEmpty, BytesType, LenProperties
  <1>9. /\ queued_messages = Messages(queue) /\ queued_bytes = TotalBytes(queue)
        /\ queued_messages' = SaturatingSub(queued_messages, Len(q))
        /\ queued_bytes' = SaturatingSub(queued_bytes, Bytes(q))
    BY DEF Counted, DrainQueue, q
  <1>10. queued_messages' = Messages(queue') /\ queued_bytes' = TotalBytes(queue')
    BY <1>7, <1>8, <1>9 DEF SaturatingSub
  <1>11. queued_messages' \in 0..MaxMessages /\ queued_bytes' \in 0..MaxBytes
    <2>1. /\ MaxMessages \in Nat /\ MaxBytes \in Nat
          /\ queued_messages \in 0..MaxMessages /\ queued_bytes \in 0..MaxBytes
      BY SocketAssumption DEF Counted
    <2> QED
      BY <1>7, <1>8, <1>9, <1>10, <2>1, SMTT(30)
  <1>12. Cardinality(PendingDocuments') <= max_pending_documents'
    <2>1. IsFiniteSet(PendingDocuments) /\ Cardinality(PendingDocuments) \in Nat
      BY SocketAssumption, FS_Subset, FS_CardinalityType DEF PendingDocuments
    <2>2. PendingDocuments' \in SUBSET PendingDocuments
      BY <1>3 DEF PendingDocuments
    <2> DEFINE D == PendingDocuments'
    <2>3. Cardinality(D) <= Cardinality(PendingDocuments) /\ Cardinality(D) \in Nat
      <3> HIDE DEF D
      <3> QED
        BY <2>1, <2>2, FS_Subset, FS_CardinalityType DEF D
    <2>4. /\ max_pending_documents' = max_pending_documents
          /\ max_pending_documents \in Nat
          /\ Cardinality(PendingDocuments) <= max_pending_documents
      BY SocketAssumption DEF Counted
    <2> QED
      BY <2>1, <2>3, <2>4
  <1>13. Arrived(a, << >>) = a
    <2>1. Numbers(<< >>) \in Seq(1..MaxSent) /\ Len(Numbers(<< >>)) = 0
      BY <1>2, NumbersType
    <2>2. Numbers(<< >>) = << >>
      BY <2>1, EmptySeq
    <2> HIDE DEF a
    <2> QED
      BY <1>4, <2>2, ConcatEmptySeq DEF Arrived
  <1>14. Ordered(Arrived(delivered'[k], queue'[k]), sent'[k], refused'[k])
    <2>1. Ordered(a, sent[k], refused[k])
      BY DEF Counted, q
    <2> QED
      BY <1>3, <1>5, <1>13, <2>1
  <1>15. \A d \in Keys : Ordered(Arrived(delivered'[d], queue'[d]), sent'[d], refused'[d])
    BY <1>3, <1>5, <1>14, OrderedElsewhere
  <1>16. Shapes'
    BY <1>3, <1>6 DEF Counted, Shapes
  <1> QED
    BY <1>3, <1>5, <1>10, <1>11, <1>12, <1>15, <1>16, CountedNext DEF Counted

-----------------------------------------------------------------------------
(* The steps of the read loop. *)

\* A frame for a document.
LEMMA DataStep == ASSUME IInv, NEW k \in Keys, NEW size \in Sizes, Data(k, size) PROVE IInv'
  <1>1. Counted /\ Looped /\ Bounded /\ Admitted /\ Drained
    BY Parts
  <1>2. /\ Sent(k) /\ idle_age' = 0 /\ opened_age' = opened_age
        /\ writer' = writer /\ told' = told /\ granted' = granted
        /\ reader' = reader /\ pending' = pending /\ established' = established
        /\ authenticated' = authenticated /\ registered' = registered /\ leaving' = leaving
    BY DEF Data, Sent, loop, actors
  <1>3. Looped'
    BY <1>1, <1>2, SocketAssumption DEF Looped
  <1>4. CASE Routed(k) /\ delivered' = [delivered EXCEPT ![k] = Append(@, sent'[k])]
             /\ UNCHANGED <<waiting, outbound, refused>>
    <2>1. k \in established /\ k \in granted
      BY <1>1, <1>4 DEF Routed, Admitted, Authenticating
    <2>2. Counted'
      <3>1. queue[k] = << >>
        BY <1>1, <2>1 DEF Drained
      <3> QED
        BY <1>1, <1>2, <1>4, <3>1, RoutedCounted
    <2>3. Bounded' /\ Drained'
      BY <1>1, <1>2, <1>4 DEF Bounded, Drained, waiting
    <2>4. Admitted'
      <3>1. \A d \in Keys \ {k} : delivered'[d] = delivered[d]
        BY <1>1, <1>4 DEF Counted, Shapes
      <3>2. NothingBeforeAdmission'
        BY <1>1, <1>2, <2>1, <3>1 DEF Admitted, NothingBeforeAdmission
      <3> QED
        BY <1>1, <1>2, <3>2 DEF Admitted, Authenticating, RegistrationOwned
    <2> QED
      BY <1>3, <2>2, <2>3, <2>4, WholeNext
  <1>5. CASE ~Routed(k) /\ Enqueue(k, sent'[k], size) /\ UNCHANGED delivered
    <2>1. Admitted'
      BY <1>1, <1>2, <1>5
         DEF Admitted, Authenticating, NothingBeforeAdmission, RegistrationOwned
    <2>2. CASE /\ WithinLimits(k, size)
               /\ queue' = [queue EXCEPT ![k] = Append(@, [number |-> sent'[k], size |-> size])]
               /\ queued_messages' = queued_messages + 1
               /\ queued_bytes' = queued_bytes + size
               /\ UNCHANGED <<max_pending_documents, outbound, refused>>
      <3>1. Counted'
        BY <1>1, <1>2, <1>5, <2>2, KeptCounted
      <3>2. Bounded'
        BY <1>1, <2>2 DEF Bounded
      <3>3. Drained'
        <4>1. k \notin established
          BY <1>5 DEF Routed
        <4>2. \A d \in Keys \ {k} : queue'[d] = queue[d]
          BY <1>1, <2>2 DEF Counted, Shapes
        <4> QED
          BY <1>1, <1>2, <4>1, <4>2 DEF Drained, Looped
      <3> QED
        BY <1>3, <2>1, <3>1, <3>2, <3>3, WholeNext
    <2>3. CASE /\ outbound' = Pushed(<< "close" >>)
               /\ refused' = [refused EXCEPT ![k] = @ \cup {sent'[k]}]
               /\ UNCHANGED waiting
      <3>1. Counted'
        BY <1>1, <1>2, <1>5, <2>3, RefusedCounted
      <3>2. Bounded'
        BY <1>1, <2>3, FramesTyped, PushedBounded
      <3>3. Drained'
        BY <1>1, <1>2, <2>3 DEF Drained, waiting
      <3> QED
        BY <1>3, <2>1, <3>1, <3>2, <3>3, WholeNext
    <2> QED
      BY <1>5, <2>2, <2>3 DEF Enqueue
  <1> QED
    BY <1>4, <1>5 DEF Data

\* The queue of a document that is established is emptied.
LEMMA EstablishStep == ASSUME IInv, Establish PROVE IInv'
  <1>1. Counted /\ Looped /\ Bounded /\ Admitted /\ Drained
    BY Parts
  <1>2. /\ reader = "acked" /\ reader' = "reading" /\ pending' = None
        /\ established' = established \cup {pending} /\ DrainQueue(pending)
        /\ authenticated' = authenticated /\ max_pending_documents' = max_pending_documents
        /\ opened_age' = opened_age /\ idle_age' = idle_age /\ outbound' = outbound
        /\ writer' = writer /\ told' = told /\ registered' = registered /\ leaving' = leaving
        /\ sent' = sent /\ refused' = refused /\ granted' = granted
    BY DEF Establish, ages, output, actors
  <1>3. pending \in Keys /\ pending \in granted
    BY <1>1, <1>2 DEF Admitted, Authenticating
  <1>4. Counted' /\ queue'[pending] = << >> /\ \A d \in Keys \ {pending} :
                        queue'[d] = queue[d] /\ delivered'[d] = delivered[d]
    BY <1>1, <1>2, <1>3, DrainedCounted
  <1>5. Looped'
    BY <1>1, <1>2, <1>3 DEF Looped, Readers
  <1>6. Bounded'
    BY <1>1, <1>2 DEF Bounded
  <1>7. Drained'
    BY <1>1, <1>2, <1>4 DEF Drained, Looped
  <1>8. Admitted'
    <2>1. Authenticating'
      BY <1>1, <1>2, <1>3 DEF Admitted, Authenticating
    <2>2. NothingBeforeAdmission'
      BY <1>1, <1>2, <1>3, <1>4 DEF Admitted, NothingBeforeAdmission
    <2>3. RegistrationOwned'
      BY <1>1, <1>2 DEF Admitted, RegistrationOwned
    <2> QED
      BY <2>1, <2>2, <2>3 DEF Admitted
  <1> QED
    BY <1>4, <1>5, <1>6, <1>7, <1>8, WholeNext

\* The other steps leave the client's frames, and what was established, alone.
LEMMA QuietStep ==
    ASSUME IInv, UNCHANGED <<waiting, sent, refused, delivered>>, Looped', Bounded',
           established' \subseteq established, granted \subseteq granted',
           Authenticating', RegistrationOwned'
    PROVE  IInv'
  <1>1. Counted /\ Looped /\ Bounded /\ Admitted /\ Drained
    BY Parts
  <1>2. Counted'
    BY <1>1, CountedSame
  <1>3. Drained'
    BY <1>1 DEF Drained, waiting
  <1>4. NothingBeforeAdmission'
    BY <1>1 DEF Admitted, NothingBeforeAdmission
  <1> QED
    BY <1>2, <1>3, <1>4, WholeNext DEF Admitted

\* A token comes.
LEMMA AuthStep == ASSUME IInv, NEW k \in Keys, Auth(k) PROVE IInv'
  <1>1. Looped /\ Bounded /\ Admitted
    BY Parts
  <1>2. /\ reader = "reading" /\ k \notin established /\ reader' = "hooks" /\ pending' = k
        /\ idle_age' = 0 /\ established' = established /\ authenticated' = authenticated
        /\ UNCHANGED <<waiting, sent, refused, delivered>> /\ granted' = granted
        /\ opened_age' = opened_age /\ outbound' = outbound /\ writer' = writer
        /\ told' = told /\ registered' = registered /\ leaving' = leaving
    BY DEF Auth, output, actors, history
  <1>3. Looped' /\ Bounded'
    BY <1>1, <1>2, SocketAssumption DEF Looped, Bounded, Readers
  <1>4. Authenticating' /\ RegistrationOwned'
    BY <1>1, <1>2 DEF Admitted, Authenticating, RegistrationOwned
  <1> QED
    BY <1>2, <1>3, <1>4, QuietStep

\* The authentication ends without a document.
LEMMA GiveUpStep == ASSUME IInv, Deny \/ RegistrationFails PROVE IInv'
  <1>1. Looped /\ Bounded /\ Admitted
    BY Parts
  <1>2. /\ reader \in {"hooks", "registering"} /\ reader' = "reading" /\ pending' = None
        /\ outbound' = Pushed(<< "frame", "close" >>) \/ outbound' = Pushed(<< "close" >>)
        /\ idle_age' = idle_age /\ established' = established /\ authenticated' = authenticated
        /\ UNCHANGED <<waiting, sent, refused, delivered>> /\ granted' = granted
        /\ opened_age' = opened_age /\ writer' = writer
        /\ told' = told /\ registered' = registered /\ leaving' = leaving
    BY DEF Deny, RegistrationFails, ages, actors, history
  <1>3. Bounded'
    BY <1>1, <1>2, FramesTyped, PushedBounded
  <1>4. Looped'
    BY <1>1, <1>2 DEF Looped, Readers
  <1>5. Authenticating' /\ RegistrationOwned'
    BY <1>1, <1>2 DEF Admitted, Authenticating, RegistrationOwned
  <1> QED
    BY <1>2, <1>3, <1>4, <1>5, QuietStep

\* All hooks admit the client.
LEMMA AdmitStep == ASSUME IInv, Admit PROVE IInv'
  <1>1. Looped /\ Bounded /\ Admitted
    BY Parts
  <1>2. /\ reader = "hooks" /\ reader' = "registering" /\ pending' = pending
        /\ outbound' = Pushed(<< "frame" >>) /\ granted' = granted \cup {pending}
        /\ idle_age' = idle_age /\ established' = established /\ authenticated' = TRUE
        /\ UNCHANGED <<waiting, sent, refused, delivered>>
        /\ opened_age' = opened_age /\ writer' = writer
        /\ told' = told /\ registered' = registered /\ leaving' = leaving
    BY DEF Admit, ages, actors
  <1>3. Bounded'
    BY <1>1, <1>2, FramesTyped, PushedBounded
  <1>4. pending \in Keys \ established
    BY <1>1, <1>2 DEF Admitted, Authenticating
  <1>5. Looped'
    BY <1>1, <1>2, <1>4 DEF Looped, Readers
  <1>6. Authenticating' /\ RegistrationOwned'
    BY <1>1, <1>2, <1>4 DEF Admitted, Authenticating, RegistrationOwned
  <1> QED
    BY <1>2, <1>3, <1>5, <1>6, QuietStep

\* The actor takes the connection.
LEMMA AddConnectionStep == ASSUME IInv, AddConnection PROVE IInv'
  <1>1. Looped /\ Bounded /\ Admitted
    BY Parts
  <1>2. /\ reader = "registering" /\ reader' = "acked" /\ pending' = pending
        /\ registered' = registered \cup {pending} /\ granted' = granted
        /\ idle_age' = idle_age /\ established' = established
        /\ authenticated' = authenticated
        /\ UNCHANGED <<waiting, sent, refused, delivered>> /\ outbound' = outbound
        /\ opened_age' = opened_age /\ writer' = writer /\ told' = told /\ leaving' = leaving
    BY DEF AddConnection, ages, output, history
  <1>3. pending \in Keys \ established /\ pending \in granted
    BY <1>1, <1>2 DEF Admitted, Authenticating
  <1>4. Looped' /\ Bounded'
    BY <1>1, <1>2, <1>3 DEF Looped, Readers, Bounded
  <1>5. Authenticating' /\ RegistrationOwned'
    BY <1>1, <1>2, <1>3 DEF Admitted, Authenticating, RegistrationOwned
  <1> QED
    BY <1>2, <1>4, <1>5, QuietStep

\* The loop ends.
LEMMA CloseStep == ASSUME IInv, ClientCloses \/ Deadline PROVE IInv'
  <1>1. Looped /\ Bounded /\ Admitted
    BY Parts
  <1>2. /\ reader = "reading" /\ reader' = "closing" /\ pending' = pending
        /\ outbound' = outbound \/ outbound' = Pushed(<< "close" >>)
        /\ idle_age' = idle_age /\ established' = established /\ authenticated' = authenticated
        /\ UNCHANGED <<waiting, sent, refused, delivered>> /\ granted' = granted
        /\ opened_age' = opened_age /\ writer' = writer
        /\ told' = told /\ registered' = registered /\ leaving' = leaving
    BY DEF ClientCloses, Deadline, ages, output, actors, history
  <1>3. Bounded'
    <2>1. CASE outbound' = outbound
      BY <1>1, <2>1 DEF Bounded
    <2>2. CASE outbound' = Pushed(<< "close" >>)
      BY <1>1, <2>2, FramesTyped, PushedBounded
    <2> QED
      BY <1>2, <2>1, <2>2
  <1>4. Looped'
    BY <1>1, <1>2 DEF Looped, Readers
  <1>5. Authenticating' /\ RegistrationOwned'
    BY <1>1, <1>2 DEF Admitted, Authenticating, RegistrationOwned
  <1> QED
    BY <1>2, <1>3, <1>4, <1>5, QuietStep

\* cleanup, and the end of the writer.
LEMMA FinishStep == ASSUME IInv, Finish PROVE IInv'
  <1>1. Looped /\ Bounded /\ Admitted
    BY Parts
  <1>2. /\ reader = "closing" /\ reader' = "done" /\ pending' = pending
        /\ leaving' = leaving \cup established /\ established' = {}
        /\ outbound' = << >> /\ writer' = "ended"
        /\ idle_age' = idle_age /\ authenticated' = authenticated
        /\ UNCHANGED <<waiting, sent, refused, delivered>> /\ granted' = granted
        /\ opened_age' = opened_age /\ told' = told /\ registered' = registered
    BY DEF Finish, ages, history
  <1>3. Bounded'
    BY <1>2, EmptySeq, SocketAssumption DEF Bounded
  <1>4. Looped'
    BY <1>1, <1>2 DEF Looped, Readers
  <1>5. Authenticating' /\ RegistrationOwned'
    BY <1>1, <1>2 DEF Admitted, Authenticating, RegistrationOwned
  <1> QED
    BY <1>2, <1>3, <1>4, <1>5, QuietStep

-----------------------------------------------------------------------------
(* The steps around the read loop. *)

\* Time passes, or a frame that only resets the idle timer comes.
LEMMA TimeStep == ASSUME IInv, Ping \/ Tick PROVE IInv'
  <1>1. Looped /\ Bounded /\ Admitted
    BY Parts
  <1>2. /\ reader' = reader /\ pending' = pending /\ established' = established
        /\ authenticated' = authenticated /\ outbound' = outbound /\ writer' = writer
        /\ UNCHANGED <<waiting, sent, refused, delivered>> /\ granted' = granted
        /\ told' = told /\ registered' = registered /\ leaving' = leaving
    BY DEF Ping, Tick, loop, output, actors, history
  <1>3. opened_age' \in 0..Timeout /\ idle_age' \in 0..Timeout
    BY <1>1, SocketAssumption DEF Looped, Ping, Tick, Older
  <1>4. Looped' /\ Bounded'
    BY <1>1, <1>2, <1>3 DEF Looped, Bounded
  <1>5. Authenticating' /\ RegistrationOwned'
    BY <1>1, <1>2 DEF Admitted, Authenticating, RegistrationOwned
  <1> QED
    BY <1>2, <1>4, <1>5, QuietStep

\* The writer sends a frame.
LEMMA WriteStep == ASSUME IInv, Write PROVE IInv'
  <1>1. Looped /\ Bounded /\ Admitted
    BY Parts
  <1>2. /\ reader' = reader /\ pending' = pending /\ established' = established
        /\ authenticated' = authenticated /\ outbound # << >>
        /\ \/ outbound' = Tail(outbound) /\ writer' = writer /\ told' = told
           \/ outbound' = << >> /\ writer' = "ended" /\ told' = TRUE
        /\ UNCHANGED <<waiting, sent, refused, delivered>> /\ granted' = granted
        /\ registered' = registered /\ leaving' = leaving
        /\ opened_age' = opened_age /\ idle_age' = idle_age
    BY DEF Write, loop, ages, actors, history
  <1>3. /\ Tail(outbound) \in Seq(OutFrames) /\ Len(Tail(outbound)) = Len(outbound) - 1
        /\ Len(outbound) \in Nat /\ << >> \in Seq(OutFrames) /\ Len(<< >>) = 0
    BY <1>1, <1>2, HeadTailProperties, LenProperties, EmptySeq DEF Bounded
  <1>4. Bounded'
    <2>1. CASE outbound' = Tail(outbound)
      BY <1>1, <1>3, <2>1, SocketAssumption DEF Bounded
    <2>2. CASE outbound' = << >>
      BY <1>3, <2>2, SocketAssumption DEF Bounded
    <2> QED
      BY <1>2, <2>1, <2>2
  <1>5. Looped'
    BY <1>1, <1>2 DEF Looped
  <1>6. Authenticating' /\ RegistrationOwned'
    BY <1>1, <1>2 DEF Admitted, Authenticating, RegistrationOwned
  <1> QED
    BY <1>2, <1>4, <1>5, <1>6, QuietStep

\* The actor of a document sends to the connection, or drops it.
LEMMA ActorStep ==
    ASSUME IInv, NEW k \in Keys,
           Broadcast(k) \/ Evict(k) \/ CloseConnection(k) \/ RemoveConnection(k)
    PROVE  IInv'
  <1>1. Looped /\ Bounded /\ Admitted
    BY Parts
  <1>2. /\ reader' = reader /\ pending' = pending /\ established' = established
        /\ authenticated' = authenticated /\ writer' = writer /\ told' = told
        /\ UNCHANGED <<waiting, sent, refused, delivered>> /\ granted' = granted
        /\ opened_age' = opened_age /\ idle_age' = idle_age
        /\ \/ registered' \subseteq registered /\ leaving' = leaving
           \/ registered' = registered \ {k} /\ leaving' = leaving \ {k}
    BY DEF Broadcast, Evict, CloseConnection, RemoveConnection, loop, ages, output, actors,
           history
  <1>3. Bounded'
    <2>1. CASE outbound' = outbound
      BY <1>1, <2>1 DEF Bounded
    <2>2. CASE \E fs \in Seq(OutFrames) : outbound' = Pushed(fs)
      BY <1>1, <2>2, PushedBounded
    <2>3. CASE Full /\ outbound' = Append(Tail(outbound), "close")
      <3>1. outbound # << >> /\ Len(outbound) \in Nat /\ Len(outbound) = Capacity
        <4>1. Len(outbound) = Capacity /\ Capacity # 0
          BY <2>3, SocketAssumption DEF Full
        <4> QED
          BY <1>1, <4>1, EmptySeq, LenProperties DEF Bounded
      <3> DEFINE t == Tail(outbound)
      <3>2. t \in Seq(OutFrames) /\ Len(t) = Len(outbound) - 1
        BY <1>1, <3>1, HeadTailProperties DEF Bounded
      <3> HIDE DEF t
      <3>3. Append(t, "close") \in Seq(OutFrames) /\ Len(Append(t, "close")) = Len(t) + 1
        BY <3>2, AppendProperties DEF OutFrames
      <3> QED
        BY <2>3, <3>1, <3>2, <3>3 DEF Bounded, t
    <2> QED
      BY <2>1, <2>2, <2>3, FramesTyped
         DEF Broadcast, Evict, CloseConnection, RemoveConnection, output
  <1>4. Looped'
    BY <1>1, <1>2 DEF Looped
  <1>5. Authenticating'
    BY <1>1, <1>2 DEF Admitted, Authenticating
  <1>6. RegistrationOwned'
    BY <1>1, <1>2 DEF Admitted, RegistrationOwned
  <1> QED
    BY <1>2, <1>3, <1>4, <1>5, <1>6, QuietStep

-----------------------------------------------------------------------------

\* The first state.
LEMMA InitIInv == Init => IInv
  <1> SUFFICES ASSUME Init PROVE IInv
    OBVIOUS
  <1>1. << >> \in Seq(Waiting) /\ << >> \in Seq(1..MaxSent) /\ << >> \in Seq(OutFrames)
        /\ Len(<< >>) = 0
    BY EmptySeq
  <1>2. \A k \in Keys : /\ queue[k] = << >> /\ delivered[k] = << >>
                        /\ sent[k] = 0 /\ refused[k] = {}
    BY DEF Init
  <1>3. Shapes
    BY <1>1 DEF Init, Shapes
  <1>4. queued_messages = Messages(queue) /\ queued_bytes = TotalBytes(queue)
    BY <1>2, <1>3, TotalsEmpty DEF Init, Shapes
  <1>5. Cardinality(PendingDocuments) <= max_pending_documents
    <2>1. PendingDocuments = {}
      BY <1>2 DEF PendingDocuments
    <2>2. max_pending_documents \in Nat
      BY SocketAssumption DEF Init
    <2> QED
      BY <2>1, <2>2, FS_EmptySet
  <1>6. \A k \in Keys : Ordered(Arrived(delivered[k], queue[k]), sent[k], refused[k])
    <2> DEFINE a == Arrived(<< >>, << >>)
    <2>1. a \in Seq(1..MaxSent) /\ Len(a) = 0
      <3>1. Arrived(<< >>, << >>) \in Seq(1..MaxSent)
        BY <1>1, ArrivedType
      <3>2. Len(Arrived(<< >>, << >>)) = Len(<< >>) + Len(<< >>)
        BY <1>1, ArrivedType
      <3> QED
        BY <1>1, <3>1, <3>2
    <2> HIDE DEF a
    <2>2. DOMAIN a = {} /\ 1..0 = {}
      BY <2>1, LenProperties
    <2>3. Range(a) = {} /\ (1..0) \ {} = {}
      BY <2>2 DEF Range
    <2>4. Ordered(a, 0, {})
      BY <2>2, <2>3 DEF Ordered
    <2> QED
      BY <1>2, <2>4 DEF a
  <1>7. Counted
    BY <1>1, <1>3, <1>4, <1>5, <1>6, SocketAssumption DEF Init, Counted
  <1>8. Looped /\ Bounded /\ Drained
    <2>1. Capacity \in Nat /\ Timeout \in Nat
      BY SocketAssumption
    <2>2. Looped
      <3>1. opened_age \in 0..Timeout /\ idle_age \in 0..Timeout
        BY <2>1 DEF Init
      <3>2. authenticated \in BOOLEAN /\ told \in BOOLEAN
        BY Zenon DEF Init
      <3> QED
        BY <3>1, <3>2 DEF Init, Looped, Readers
    <2>3. Bounded
      BY <1>1, <2>1 DEF Init, Bounded
    <2> QED
      BY <2>2, <2>3 DEF Init, Drained
  <1>9. Admitted
    BY <1>2 DEF Init, Admitted, Authenticating, NothingBeforeAdmission, RegistrationOwned
  <1> QED
    BY <1>7, <1>8, <1>9, Whole

\* A step that changes nothing.
LEMMA StutterIInv == ASSUME IInv, UNCHANGED vars PROVE IInv'
  <1>1. Looped /\ Bounded /\ Admitted
    BY Parts
  <1>2. UNCHANGED <<waiting, sent, refused, delivered>>
    BY DEF vars, history
  <1>3. Looped' /\ Bounded'
    BY <1>1 DEF vars, loop, ages, output, actors, history, Looped, Bounded
  <1>4. Authenticating' /\ RegistrationOwned'
    BY <1>1 DEF vars, loop, actors, history, Admitted, Authenticating, RegistrationOwned
  <1>5. established' = established /\ granted' = granted
    BY DEF vars, loop, history
  <1> QED
    BY <1>2, <1>3, <1>4, <1>5, QuietStep

\* Every step.
LEMMA NextIInv == IInv /\ [Next]_vars => IInv'
  <1> SUFFICES ASSUME IInv, [Next]_vars PROVE IInv'
    OBVIOUS
  <1>1. CASE ReaderStep
    BY <1>1, GiveUpStep, AdmitStep, AddConnectionStep, EstablishStep, FinishStep
       DEF ReaderStep
  <1>2. CASE Ping \/ Tick \/ ClientCloses \/ Deadline \/ Write
    BY <1>2, TimeStep, CloseStep, WriteStep
  <1>3. CASE UNCHANGED vars
    BY <1>3, StutterIInv
  <1> QED
    BY <1>1, <1>2, <1>3, DataStep, AuthStep, ActorStep DEF Next

-----------------------------------------------------------------------------

\* The invariant holds in every reachable state.
THEOREM SocketInvariant == Spec => []IInv
  BY InitIInv, NextIInv, PTL DEF Spec

\* Every variable keeps its type, what waits for an authentication stays within
\* the three limits of the configuration, and the outbound queue within its
\* capacity, for any limits, sizes and number of documents.
THEOREM SocketTypes == Spec => []TypeOK
  <1>1. IInv => TypeOK
    BY DEF IInv
  <1> QED
    BY <1>1, SocketInvariant, PTL

\* The counters that the limits are compared with are those of the queues: the
\* saturating subtractions of a drained document never lose any.
THEOREM CountersExact == Spec => []QueueAccounted
  <1>1. IInv => QueueAccounted
    BY DEF IInv
  <1> QED
    BY <1>1, SocketInvariant, PTL

\* A document gets the frames sent for it in their order, each once, whether they
\* came before, during or after its authentication.
THEOREM FramesInOrder == Spec => []DeliveredInOrder
  <1>1. IInv => DeliveredInOrder
    BY DEF IInv
  <1> QED
    BY <1>1, SocketInvariant, PTL

\* No frame reaches a document whose hooks did not admit the client.
THEOREM AdmittedFirst == Spec => []NothingBeforeAdmission
  <1>1. IInv => NothingBeforeAdmission
    BY DEF IInv
  <1> QED
    BY <1>1, SocketInvariant, PTL

\* No actor keeps a connection that its socket has forgotten.
THEOREM NoneLeftBehind == Spec => []RegistrationOwned
  <1>1. IInv => RegistrationOwned
    BY DEF IInv
  <1> QED
    BY <1>1, SocketInvariant, PTL
=============================================================================
