--------------------------- MODULE AdmissionProofs ---------------------------
(***************************************************************************)
(* What Admission guarantees for any number of sockets, any cap and any    *)
(* settings of the throttle.                                               *)
(***************************************************************************)
EXTENDS Admission, DataInduction

Ages == 0..Considered

\* The handshakes under way are counted against the cap as well: the last request
\* that was let through saw fewer sockets open than the cap, and everything else
\* under way is at most the peak.
CapReserved ==
    max > 0 => Cardinality(In("open")) + Cardinality(In("handshake")) <= (max + peak) - 1

\* The number of attempts younger than c among the first n.
Younger(ages, n, c) == Cardinality({i \in 1..n : ages[i] < c})

\* What was let through is recorded: however young, there are as many attempts.
Recorded ==
    \A c \in Ages : Younger(admitted, Len(admitted), c) <= Younger(entry, Len(entry), c)

\* While the address is banned nothing is recorded: the attempts are no younger
\* than the ban, as far as their age is followed.
Silent ==
    banned # None => \A i \in 1..Len(entry) : entry[i] >= banned \/ entry[i] = Considered

\* The inductive invariant.
IInv == TypeOK /\ CapReserved /\ Recorded /\ Silent /\ RateLimited

-----------------------------------------------------------------------------
(* The window of the throttle. *)

\* One more attempt.
LEMMA YoungerStep ==
    ASSUME NEW ages, NEW n \in Nat, NEW c
    PROVE  /\ Younger(ages, n, c) \in Nat /\ Younger(ages, n, c) <= n
           /\ ages[n + 1] < c => Younger(ages, n + 1, c) = Younger(ages, n, c) + 1
           /\ ~(ages[n + 1] < c) => Younger(ages, n + 1, c) = Younger(ages, n, c)
  <1> DEFINE S == {i \in 1..n : ages[i] < c}
             T == {i \in 1..n + 1 : ages[i] < c}
  <1>1. IsFiniteSet(1..n) /\ Cardinality(1..n) = n
    BY FS_Interval
  <1>2. S \in SUBSET (1..n) /\ n + 1 \notin S
    OBVIOUS
  <1>3. ages[n + 1] < c => T = S \cup {n + 1}
    OBVIOUS
  <1>4. ~(ages[n + 1] < c) => T = S
    OBVIOUS
  <1>5. Younger(ages, n, c) = Cardinality(S) /\ Younger(ages, n + 1, c) = Cardinality(T)
    BY DEF Younger
  <1> HIDE DEF S, T
  <1>6. IsFiniteSet(S) /\ Cardinality(S) \in Nat /\ Cardinality(S) <= n
    BY <1>1, <1>2, FS_Subset, FS_CardinalityType
  <1>7. Cardinality(S \cup {n + 1}) = Cardinality(S) + 1
    BY <1>2, <1>6, FS_AddElement
  <1> QED
    BY <1>3, <1>4, <1>5, <1>6, <1>7

\* The same attempts.
LEMMA YoungerSame ==
    ASSUME NEW a, NEW b, NEW n \in Nat, NEW c, NEW d,
           \A i \in 1..n : (b[i] < d) <=> (a[i] < c)
    PROVE  Younger(b, n, d) = Younger(a, n, c)
  <1>1. {i \in 1..n : b[i] < d} = {i \in 1..n : a[i] < c}
    OBVIOUS
  <1> QED
    BY <1>1 DEF Younger

\* None of them.
LEMMA YoungerNone ==
    ASSUME NEW a, NEW n \in Nat, NEW c, \A i \in 1..n : ~(a[i] < c)
    PROVE  Younger(a, n, c) = 0
  <1>1. {i \in 1..n : a[i] < c} = {}
    OBVIOUS
  <1> QED
    BY <1>1, FS_EmptySet DEF Younger

\* All of them.
LEMMA YoungerAll ==
    ASSUME NEW a, NEW n \in Nat, NEW c, \A i \in 1..n : a[i] < c
    PROVE  Younger(a, n, c) = n
  <1>1. {i \in 1..n : a[i] < c} = 1..n
    OBVIOUS
  <1>2. Cardinality(1..n) = n
    <2>1. Cardinality(1..n) = IF 1 > n THEN 0 ELSE (n - 1) + 1
      BY FS_Interval
    <2> QED
      BY <2>1
  <1> QED
    BY <1>1, <1>2 DEF Younger

\* retain as a fold of DataInduction.
Window == 0..Considered - 1
Kept(ages) ==
    [i \in DOMAIN ages |->
        [v \in Seq(Window) |-> IF ages[i] < Considered THEN Append(v, ages[i]) ELSE v]]

\* What Recent does with the next attempt.
LEMMA RecentFold ==
    ASSUME NEW q \in Seq(Ages)
    PROVE  \E f : /\ Recent(q) = f[1..Len(q)] /\ f[{}] = << >>
                  /\ \A n \in 1..Len(q) :
                       f[1..n] = IF q[n] < Considered THEN Append(f[1..n - 1], q[n])
                                 ELSE f[1..n - 1]
  <1> DEFINE S == DOMAIN q
             V == Seq(Window)
             After(v, a) == IF a < Considered THEN Append(v, a) ELSE v
             Step(f) == [s \in SUBSET S |->
                          IF s = {} THEN << >> ELSE After(f[s \ {Max(s)}], q[Max(s)])]
             F == CHOOSE f : f = Step(f)
  <1>1. IsFiniteSet(S) /\ Picks(Lasts(q), S) /\ \A i \in S : q[i] \in Ages
    BY LastsPick
  <1>2. Kept(q) \in [S -> [V -> V]]
    <2>1. ASSUME NEW i \in S, NEW v \in V PROVE After(v, q[i]) \in V
      <3>1. CASE q[i] < Considered
        <4>1. q[i] \in Window
          BY <1>1, <3>1, AdmissionAssumption DEF Ages, Window
        <4> QED
          BY <3>1, <4>1, AppendProperties
      <3>2. CASE ~(q[i] < Considered)
        BY <3>2
      <3> QED
        BY <3>1, <3>2
    <2> QED
      BY <2>1 DEF Kept
  <1>3. << >> \in V
    BY EmptySeq
  <1>4. PICK f \in [SUBSET S -> V] : IsFold(f, Kept(q), << >>, Lasts(q), S)
    <2> HIDE DEF S, V
    <2> QED
      BY <1>1, <1>2, <1>3, FoldExists
  <1>5. ASSUME NEW e, NEW s \in SUBSET S, s # {} => e[s \ {Max(s)}] \in V
        PROVE  Step(e)[s] = Folded(e, Kept(q), << >>, Lasts(q), s)
    <2>1. CASE s = {}
      BY <2>1 DEF Folded
    <2>2. CASE s # {}
      <3> DEFINE x == Max(s)
                 v == e[s \ {x}]
      <3>1. Lasts(q)[s] = x /\ x \in S
        BY <1>1, <2>2 DEF Lasts, Picks
      <3>2. v \in V
        BY <1>5, <2>2
      <3>3. Step(e)[s] = After(v, q[x])
        BY <2>2
      <3> HIDE DEF x, v
      <3>4. Kept(q)[x][v] = After(v, q[x])
        BY <3>1, <3>2 DEF Kept
      <3> HIDE DEF After, Step
      <3>5. Folded(e, Kept(q), << >>, Lasts(q), s) = Kept(q)[x][v]
        BY <2>2, <3>1 DEF Folded, v
      <3> QED
        BY <3>3, <3>4, <3>5
    <2> QED
      BY <2>1, <2>2
  <1>6. f = Step(f)
    <2>1. \A s \in SUBSET S : Step(f)[s] = Folded(f, Kept(q), << >>, Lasts(q), s)
      <3> HIDE DEF Step, V
      <3> QED
        BY <1>4, <1>5
    <2>2. Step(f) = [s \in SUBSET S |-> Step(f)[s]]
      OBVIOUS
    <2> HIDE DEF Step
    <2> QED
      BY <1>4, <2>1, <2>2 DEF IsFold
  <1>7. F = Step(F)
    <2> HIDE DEF Step
    <2> QED
      BY <1>6
  <1>8. Recent(q) = F[S]
    BY DEF Recent, FoldLeft, MapThenFoldSet
  <1> HIDE DEF F
  <1>9. F[{}] = << >>
    <2>1. {} \in SUBSET S
      OBVIOUS
    <2> QED
      BY <1>7, <2>1, Zenon
  <1>10. ASSUME NEW n \in 1..Len(q)
         PROVE  F[1..n] = After(F[1..n - 1], q[n])
    <2>1. /\ 1..n \in SUBSET S /\ 1..n # {} /\ (1..n) \ {n} = 1..n - 1
          /\ Max(1..n) = n
      BY LastsPrefix DEF Lasts
    <2> HIDE DEF After
    <2> DEFINE s == 1..n
    <2>2. F[s] = After(F[s \ {Max(s)}], q[Max(s)])
      <3> HIDE DEF s, S
      <3> QED
        BY <1>7, <2>1 DEF s
    <2> QED
      BY <2>1, <2>2
  <1> QED
    BY <1>1, <1>8, <1>9, <1>10, LastsPick

\* What is kept: the attempts of the window, and among them as many of any age as
\* there were.
LEMMA RecentWindow ==
    ASSUME NEW q \in Seq(Ages)
    PROVE  /\ Recent(q) \in Seq(Window) /\ Len(Recent(q)) \in Nat /\ Len(q) \in Nat
           /\ \A c \in Ages : Younger(Recent(q), Len(Recent(q)), c) = Younger(q, Len(q), c)
           /\ Len(Recent(q)) = Younger(q, Len(q), Considered)
  <1>1. PICK f : /\ Recent(q) = f[1..Len(q)] /\ f[{}] = << >>
                 /\ \A n \in 1..Len(q) :
                      f[1..n] = IF q[n] < Considered THEN Append(f[1..n - 1], q[n])
                                ELSE f[1..n - 1]
    BY RecentFold
  <1>2. Len(q) \in Nat /\ (\A i \in 1..Len(q) : q[i] \in Ages) /\ Considered \in Nat \ {0}
    BY LenProperties, ElementOfSeq, AdmissionAssumption
  <1> DEFINE Good(v, n) == /\ v \in Seq(Window)
                           /\ \A c \in Ages : Younger(v, Len(v), c) = Younger(q, n, c)
             T == {n \in Nat : n <= Len(q) => Good(f[1..n], n)}
  <1>3. 0 \in T
    <2>1. << >> \in Seq(Window) /\ Len(<< >>) = 0
      BY EmptySeq
    <2>2. \A c \in Ages : Younger(<< >>, 0, c) = 0 /\ Younger(q, 0, c) = 0
      BY YoungerNone
    <2>3. Good(<< >>, 0)
      BY <2>1, <2>2
    <2>4. f[1..0] = << >>
      <3>1. 1..0 = {}
        OBVIOUS
      <3> QED
        BY <1>1, <3>1, Zenon
    <2> HIDE DEF Good
    <2> QED
      BY <2>3, <2>4
  <1>4. ASSUME NEW n \in Nat, n \in T PROVE n + 1 \in T
    <2> SUFFICES ASSUME n + 1 <= Len(q) PROVE Good(f[1..n + 1], n + 1)
      OBVIOUS
    <2> DEFINE v == f[1..n]
               x == q[n + 1]
    <2>1. n + 1 \in 1..Len(q) /\ (n + 1) - 1 = n /\ n <= Len(q)
      BY <1>2
    <2>2. Good(v, n)
      BY <1>4, <2>1
    <2>3. f[1..n + 1] = IF x < Considered THEN Append(v, x) ELSE v
      BY <1>1, <2>1
    <2>4. x \in Ages
      BY <1>2, <2>1
    <2> HIDE DEF v
    <2>5. CASE x < Considered
      <3> DEFINE w == Append(v, x)
      <3>1. x \in Window
        BY <1>2, <2>4, <2>5 DEF Ages, Window
      <3>2. /\ w \in Seq(Window) /\ Len(w) = Len(v) + 1 /\ Len(v) \in Nat
            /\ \A i \in 1..Len(v) : w[i] = v[i]
            /\ w[Len(v) + 1] = x
        BY <2>2, <3>1, AppendProperties, LenProperties
      <3> HIDE DEF w
      <3>3. ASSUME NEW c \in Ages PROVE Younger(w, Len(w), c) = Younger(q, n + 1, c)
        <4>1. Younger(w, Len(v), c) = Younger(v, Len(v), c)
          BY <3>2, YoungerSame, SMTT(30)
        <4>2. Younger(v, Len(v), c) = Younger(q, n, c)
          BY <2>2
        <4>3. CASE x < c
          BY <3>2, <4>1, <4>2, <4>3, YoungerStep
        <4>4. CASE ~(x < c)
          BY <3>2, <4>1, <4>2, <4>4, YoungerStep
        <4> QED
          BY <4>3, <4>4
      <3> QED
        BY <2>3, <2>5, <3>2, <3>3 DEF w
    <2>6. CASE ~(x < Considered)
      <3>1. ASSUME NEW c \in Ages PROVE Younger(v, Len(v), c) = Younger(q, n + 1, c)
        <4>1. ~(x < c)
          BY <1>2, <2>4, <2>6 DEF Ages
        <4>2. Younger(v, Len(v), c) = Younger(q, n, c)
          BY <2>2
        <4> QED
          BY <4>1, <4>2, YoungerStep
      <3> QED
        BY <2>2, <2>3, <2>6, <3>1
    <2> QED
      BY <2>5, <2>6
  <1>5. Good(Recent(q), Len(q))
    <2>1. \A n \in Nat : n \in T
      <3> HIDE DEF T
      <3> QED
        BY <1>3, <1>4, SetInduction
    <2> HIDE DEF Good
    <2> QED
      BY <1>1, <1>2, <2>1
  <1>6. Len(Recent(q)) \in Nat /\ \A i \in 1..Len(Recent(q)) : Recent(q)[i] \in Window
    BY <1>5, LenProperties, ElementOfSeq
  <1>7. Younger(Recent(q), Len(Recent(q)), Considered) = Len(Recent(q))
    <2>1. \A i \in 1..Len(Recent(q)) : Recent(q)[i] < Considered
      BY <1>2, <1>6 DEF Window
    <2> QED
      BY <1>6, <2>1, YoungerAll
  <1>8. Considered \in Ages
    BY <1>2 DEF Ages
  <1> QED
    BY <1>2, <1>5, <1>6, <1>7, <1>8

\* The attempts with the one that is being made.
LEMMA AttemptsWindow ==
    ASSUME entry \in Seq(Ages)
    PROVE  /\ Attempts \in Seq(Window) /\ Len(Attempts) \in Nat /\ Len(entry) \in Nat
           /\ \A c \in Ages \ {0} :
                Younger(Attempts, Len(Attempts), c) = Younger(entry, Len(entry), c) + 1
           /\ Younger(Attempts, Len(Attempts), 0) = 0
           /\ Len(Attempts) = Younger(entry, Len(entry), Considered) + 1
  <1> DEFINE q == Append(entry, 0)
             n == Len(entry)
  <1>1. Considered \in Nat \ {0} /\ 0 \in Ages /\ Considered \in Ages \ {0}
    BY AdmissionAssumption DEF Ages
  <1>2. /\ q \in Seq(Ages) /\ Len(q) = n + 1 /\ n \in Nat
        /\ (\A i \in 1..n : q[i] = entry[i]) /\ q[n + 1] = 0
    BY <1>1, AppendProperties, LenProperties
  <1>3. Attempts = Recent(q)
    BY DEF Attempts
  <1> HIDE DEF q
  <1>4. /\ Attempts \in Seq(Window) /\ Len(Attempts) \in Nat
        /\ \A c \in Ages : Younger(Attempts, Len(Attempts), c) = Younger(q, Len(q), c)
        /\ Len(Attempts) = Younger(q, Len(q), Considered)
    BY <1>2, <1>3, RecentWindow
  <1>5. ASSUME NEW c \in Ages \ {0} PROVE Younger(q, n + 1, c) = Younger(entry, n, c) + 1
    <2>1. Younger(q, n, c) = Younger(entry, n, c)
      BY <1>2, YoungerSame
    <2>2. q[n + 1] < c
      BY <1>1, <1>2 DEF Ages
    <2> QED
      BY <1>2, <2>1, <2>2, YoungerStep
  <1>6. Younger(Attempts, Len(Attempts), 0) = 0
    <2>1. \A i \in 1..Len(Attempts) : Attempts[i] \in Window
      BY <1>4, ElementOfSeq
    <2>2. \A i \in 1..Len(Attempts) : ~(Attempts[i] < 0)
      BY <1>1, <2>1 DEF Window
    <2> QED
      BY <1>4, <2>2, YoungerNone
  <1> QED
    BY <1>1, <1>2, <1>4, <1>5, <1>6

-----------------------------------------------------------------------------
(* The cap. *)

States == {"new", "handshake", "open", "closed"}

\* The number of sockets in a state.
Count(f, u) == Cardinality({x \in Sockets : f[x] = u})

\* A count is a number, and at most that of the sockets.
LEMMA Counts ==
    ASSUME NEW f, NEW u
    PROVE  /\ Count(f, u) \in Nat /\ Count(f, u) <= Cardinality(Sockets)
           /\ Cardinality(Sockets) \in Nat
  <1>1. {x \in Sockets : f[x] = u} \in SUBSET Sockets
    OBVIOUS
  <1> QED
    BY <1>1, FS_Subset, FS_CardinalityType, AdmissionAssumption DEF Count

\* A socket that changes its state is counted in the one and not in the other.
LEMMA Moved ==
    ASSUME NEW f \in [Sockets -> States], NEW s \in Sockets, NEW t \in States, NEW u
    PROVE  /\ u = f[s] /\ u # t => Count([f EXCEPT ![s] = t], u) = Count(f, u) - 1
           /\ u # f[s] /\ u = t => Count([f EXCEPT ![s] = t], u) = Count(f, u) + 1
           /\ u # f[s] /\ u # t => Count([f EXCEPT ![s] = t], u) = Count(f, u)
  <1> DEFINE g == [f EXCEPT ![s] = t]
             A == {x \in Sockets : f[x] = u}
             B == {x \in Sockets : g[x] = u}
  <1>1. g[s] = t /\ \A x \in Sockets \ {s} : g[x] = f[x]
    OBVIOUS
  <1> HIDE DEF g
  <1>2. u = f[s] /\ u # t => s \in A /\ B = A \ {s}
    BY <1>1
  <1>3. u # f[s] /\ u = t => s \notin A /\ B = A \cup {s}
    BY <1>1
  <1>4. u # f[s] /\ u # t => B = A
    BY <1>1
  <1>5. A \in SUBSET Sockets
    OBVIOUS
  <1>6. Count(f, u) = Cardinality(A) /\ Count(g, u) = Cardinality(B)
    BY DEF Count
  <1> HIDE DEF A, B
  <1>7. IsFiniteSet(A)
    BY <1>5, FS_Subset, AdmissionAssumption
  <1>8. /\ s \in A => Cardinality(A \ {s}) = Cardinality(A) - 1
        /\ s \notin A => Cardinality(A \cup {s}) = Cardinality(A) + 1
    BY <1>7, FS_AddElement, FS_RemoveElement
  <1>9. /\ u = f[s] /\ u # t => Count(g, u) = Count(f, u) - 1
        /\ u # f[s] /\ u = t => Count(g, u) = Count(f, u) + 1
        /\ u # f[s] /\ u # t => Count(g, u) = Count(f, u)
    BY <1>2, <1>3, <1>4, <1>6, <1>8
  <1> QED
    BY <1>9 DEF g

\* The invariant of the cap ...
Capped ==
    /\ max \in Maxima
    /\ socket \in [Sockets -> States]
    /\ active = Count(socket, "open")
    /\ peak \in 0..Cardinality(Sockets)
    /\ max > 0 => Count(socket, "open") + Count(socket, "handshake") <= (max + peak) - 1

\* ... and that of the throttle.
Throttled ==
    /\ throttle \in Throttles /\ ban_time \in BanTimes
    /\ entry \in Seq(Ages) /\ banned \in (0..ban_time) \cup {None}
    /\ admitted \in Seq(Window)
    /\ Recorded /\ Silent /\ RateLimited

\* The two are the invariant.
LEMMA Parts == IInv <=> Capped /\ Throttled
  BY DEF IInv, TypeOK, CapReserved, Capped, Throttled, In, Count, States, Ages, Window

\* The same after a step.
LEMMA PartsNext == ASSUME Capped', Throttled' PROVE IInv'
  <1>1. (Capped /\ Throttled)'
    OBVIOUS
  <1> QED
    BY <1>1, Parts, PTL

\* A step that leaves the sockets alone.
LEMMA CappedSame ==
    ASSUME Capped, UNCHANGED <<max, socket, active, peak>> PROVE Capped'
  BY DEF Capped

\* A step that leaves the throttle alone.
LEMMA ThrottledSame ==
    ASSUME Throttled, UNCHANGED <<throttle, ban_time, throttling>> PROVE Throttled'
  <1>1. /\ throttle' = throttle /\ ban_time' = ban_time /\ entry' = entry
        /\ banned' = banned /\ admitted' = admitted
    BY DEF throttling
  <1>2. Recorded' /\ Silent' /\ RateLimited'
    BY <1>1 DEF Throttled, Recorded, Silent, RateLimited
  <1> QED
    BY <1>1, <1>2 DEF Throttled

\* ws_handler compares the count with the cap.
LEMMA RequestStep == ASSUME IInv, NEW s \in Sockets, Request(s) PROVE IInv'
  <1>1. Capped /\ Throttled
    BY Parts
  <1> DEFINE t == IF AtCapacity THEN "closed" ELSE "handshake"
             o == Count(socket, "open")
             h == Count(socket, "handshake")
             N == Cardinality(Sockets)
  <1>2. socket[s] = "new" /\ socket' = [socket EXCEPT ![s] = t] /\ t \in States
    BY DEF Request, States
  <1>3. peak' = Larger(peak, Count(socket', "handshake"))
    BY DEF Request, Count
  <1>4. max' = max /\ active' = active /\ UNCHANGED <<throttle, ban_time, throttling>>
    BY DEF Request, config
  <1>5. socket' \in [Sockets -> States]
    BY <1>1, <1>2 DEF Capped
  <1>6. o \in Nat /\ h \in Nat /\ N \in Nat /\ Count(socket', "handshake") \in 0..N
    BY Counts
  <1>7. max \in Nat /\ peak \in 0..N /\ active = o
    BY <1>1, AdmissionAssumption DEF Capped
  <1>8. Count(socket', "open") = o
    BY <1>1, <1>2, Moved, ZenonT(30) DEF Capped
  <1>9. peak' \in 0..N /\ peak' >= peak /\ peak' >= Count(socket', "handshake")
    <2> HIDE DEF N
    <2> QED
      BY <1>3, <1>6, <1>7 DEF Larger
  <1>10. max > 0 => o + Count(socket', "handshake") <= (max + peak') - 1
    <2>1. CASE AtCapacity
      <3>1. Count(socket', "handshake") = h
        BY <1>1, <1>2, <2>1, Moved DEF Capped
      <3>2. max > 0 => o + h <= (max + peak) - 1
        BY <1>1 DEF Capped
      <3> HIDE DEF o, h, N
      <3> QED
        BY <1>6, <1>7, <1>9, <3>1, <3>2
    <2>2. CASE ~AtCapacity
      <3>1. max > 0 => o < max
        BY <1>6, <1>7, <2>2 DEF AtCapacity
      <3> HIDE DEF o, h, N
      <3> QED
        BY <1>6, <1>7, <1>9, <3>1
    <2> QED
      BY <2>1, <2>2
  <1>11. Capped'
    BY <1>1, <1>4, <1>5, <1>7, <1>8, <1>9, <1>10 DEF Capped
  <1> QED
    BY <1>1, <1>4, <1>11, ThrottledSame, PartsNext

\* A handshake ends, or an open socket does.
LEMMA LeaveStep == ASSUME IInv, NEW s \in Sockets, Upgrade(s) \/ End(s) PROVE IInv'
  <1>1. Capped /\ Throttled
    BY Parts
  <1> DEFINE o == Count(socket, "open")
             h == Count(socket, "handshake")
             N == Cardinality(Sockets)
  <1>2. max' = max /\ peak' = peak /\ UNCHANGED <<throttle, ban_time, throttling>>
    BY DEF Upgrade, End, config
  <1>3. o \in Nat /\ h \in Nat /\ N \in Nat
    BY Counts
  <1>4. max \in Nat /\ peak \in 0..N /\ active = o /\ (max > 0 => o + h <= (max + peak) - 1)
    BY <1>1, AdmissionAssumption DEF Capped
  <1>5. PICK t \in States :
          /\ socket' = [socket EXCEPT ![s] = t]
          /\ \/ socket[s] = "handshake" /\ t = "open" /\ active' = active + 1
             \/ socket[s] = "handshake" /\ t = "closed" /\ active' = active
             \/ socket[s] = "open" /\ t = "closed" /\ active' = active - 1
    BY DEF Upgrade, End, States
  <1>6. socket' \in [Sockets -> States]
    BY <1>1, <1>5 DEF Capped
  <1>7. /\ active' = Count(socket', "open")
        /\ Count(socket', "open") + Count(socket', "handshake") <= o + h
        /\ Count(socket', "open") \in Nat /\ Count(socket', "handshake") \in Nat
    <2>1. Count(socket', "open") \in Nat /\ Count(socket', "handshake") \in Nat
      BY Counts
    <2>2. CASE socket[s] = "handshake" /\ t = "open" /\ active' = active + 1
      <3>1. Count(socket', "open") = o + 1
        BY <1>1, <1>5, <2>2, Moved, ZenonT(30) DEF Capped
      <3>2. Count(socket', "handshake") = h - 1
        BY <1>1, <1>5, <2>2, Moved DEF Capped
      <3> HIDE DEF o, h
      <3> QED
        BY <1>3, <1>4, <2>1, <2>2, <3>1, <3>2
    <2>3. CASE socket[s] = "handshake" /\ t = "closed" /\ active' = active
      <3>1. Count(socket', "open") = o
        BY <1>1, <1>5, <2>3, Moved DEF Capped
      <3>2. Count(socket', "handshake") = h - 1
        BY <1>1, <1>5, <2>3, Moved DEF Capped
      <3> HIDE DEF o, h
      <3> QED
        BY <1>3, <1>4, <2>1, <2>3, <3>1, <3>2
    <2>4. CASE socket[s] = "open" /\ t = "closed" /\ active' = active - 1
      <3>1. Count(socket', "open") = o - 1
        BY <1>1, <1>5, <2>4, Moved, ZenonT(30) DEF Capped
      <3>2. Count(socket', "handshake") = h
        BY <1>1, <1>5, <2>4, Moved, ZenonT(30) DEF Capped
      <3> HIDE DEF o, h
      <3> QED
        BY <1>3, <1>4, <2>1, <2>4, <3>1, <3>2
    <2> QED
      BY <1>5, <2>2, <2>3, <2>4
  <1>8. max > 0 => Count(socket', "open") + Count(socket', "handshake") <= (max + peak) - 1
    <2> HIDE DEF o, h, N
    <2> QED
      BY <1>3, <1>4, <1>7
  <1>9. Capped'
    BY <1>1, <1>2, <1>6, <1>7, <1>8 DEF Capped
  <1> QED
    BY <1>1, <1>2, <1>9, ThrottledSame, PartsNext

-----------------------------------------------------------------------------
(* The throttle. *)

\* The types behind the invariant of the throttle.
LEMMA ThrottledTypes ==
    ASSUME Throttled
    PROVE  /\ throttle \in Nat /\ ban_time \in Nat \ {0} /\ Considered \in Nat \ {0}
           /\ None \notin Nat
           /\ 0 \in Ages /\ Considered \in Ages
           /\ \A c \in Ages \ {0} : c - 1 \in Ages /\ c \in Nat
           /\ Len(entry) \in Nat /\ \A i \in 1..Len(entry) : entry[i] \in Ages
           /\ Len(admitted) \in Nat /\ \A i \in 1..Len(admitted) : admitted[i] \in Window
           /\ DOMAIN entry = 1..Len(entry) /\ DOMAIN admitted = 1..Len(admitted)
  <1>1. /\ throttle \in Nat /\ ban_time \in Nat \ {0} /\ Considered \in Nat \ {0}
        /\ None \notin Nat
    BY AdmissionAssumption DEF Throttled
  <1>2. 0 \in Ages /\ Considered \in Ages /\ \A c \in Ages \ {0} : c - 1 \in Ages /\ c \in Nat
    BY <1>1 DEF Ages
  <1> QED
    BY <1>1, <1>2, LenProperties, ElementOfSeq DEF Throttled

\* Nothing is younger than an instant.
LEMMA NoneYounger ==
    ASSUME NEW v \in Seq(Window) PROVE Younger(v, Len(v), 0) = 0
  <1>1. Len(v) \in Nat /\ \A i \in 1..Len(v) : v[i] \in Window
    BY LenProperties, ElementOfSeq
  <1>2. \A i \in 1..Len(v) : ~(v[i] < 0)
    BY <1>1, AdmissionAssumption DEF Window
  <1> QED
    BY <1>1, <1>2, YoungerNone

\* The ages of the window are ages.
LEMMA WindowAges == ASSUME NEW v \in Seq(Window) PROVE v \in Seq(Ages)
  <1>1. Window \subseteq Ages
    BY AdmissionAssumption DEF Window, Ages
  <1> QED
    BY <1>1, SeqMonotonic

\* An attempt is recorded.
LEMMA RecordStep ==
    ASSUME Throttled, ~Banned, entry' = Attempts, throttle' = throttle, ban_time' = ban_time,
           \/ Len(Attempts) > throttle /\ banned' = 0 /\ admitted' = admitted
           \/ Len(Attempts) <= throttle /\ banned' = None /\ admitted' = Append(admitted, 0)
    PROVE  Throttled'
  <1> DEFINE n == Len(entry)
             m == Len(admitted)
             k == Len(Attempts)
  <1>1. /\ throttle \in Nat /\ ban_time \in Nat \ {0} /\ Considered \in Nat \ {0}
        /\ None \notin Nat /\ 0 \in Ages /\ Considered \in Ages
        /\ n \in Nat /\ m \in Nat /\ \A i \in 1..m : admitted[i] \in Window
    BY ThrottledTypes
  <1>2. /\ Attempts \in Seq(Window) /\ k \in Nat
        /\ \A c \in Ages \ {0} : Younger(Attempts, k, c) = Younger(entry, n, c) + 1
        /\ Younger(Attempts, k, 0) = 0
        /\ k = Younger(entry, n, Considered) + 1
    BY AttemptsWindow DEF Throttled
  <1>3. entry' \in Seq(Ages)
    BY <1>2, WindowAges
  <1>4. \A c \in Ages : /\ Younger(admitted, m, c) \in Nat /\ Younger(entry, n, c) \in Nat
                        /\ Younger(admitted, m, c) <= Younger(entry, n, c)
    BY <1>1, YoungerStep DEF Throttled, Recorded
  <1>5. CASE k > throttle /\ banned' = 0 /\ admitted' = admitted
    <2>1. \A c \in Ages : Younger(admitted, m, c) <= Younger(Attempts, k, c)
      <3> SUFFICES ASSUME NEW c \in Ages PROVE Younger(admitted, m, c) <= Younger(Attempts, k, c)
        OBVIOUS
      <3>1. CASE c = 0
        BY <1>2, <3>1, NoneYounger DEF Throttled
      <3>2. CASE c # 0
        <4> HIDE DEF m, n, k
        <4> QED
          BY <1>2, <1>4, <3>2
      <3> QED
        BY <3>1, <3>2
    <2>2. Recorded'
      BY <1>5, <2>1 DEF Recorded
    <2>3. Silent'
      <3>1. \A i \in 1..k : Attempts[i] \in Window
        BY <1>2, ElementOfSeq
      <3>2. \A i \in 1..k : Attempts[i] >= 0
        BY <1>1, <3>1 DEF Window
      <3> QED
        BY <1>5, <3>2 DEF Silent
    <2>4. banned' \in (0..ban_time') \cup {None} /\ RateLimited'
      BY <1>1, <1>5 DEF Throttled, RateLimited
    <2> QED
      BY <1>3, <1>5, <2>2, <2>3, <2>4 DEF Throttled
  <1>6. CASE k <= throttle /\ banned' = None /\ admitted' = Append(admitted, 0)
    <2> DEFINE w == Append(admitted, 0)
    <2>1. /\ w \in Seq(Window) /\ Len(w) = m + 1
          /\ (\A i \in 1..m : w[i] = admitted[i]) /\ w[m + 1] = 0
      <3>1. 0 \in Window
        BY <1>1 DEF Window
      <3> QED
        BY <3>1, AppendProperties DEF Throttled
    <2> HIDE DEF w
    <2>2. \A c \in Ages : Younger(w, Len(w), c) <= Younger(Attempts, k, c)
      <3> SUFFICES ASSUME NEW c \in Ages PROVE Younger(w, Len(w), c) <= Younger(Attempts, k, c)
        OBVIOUS
      <3>1. CASE c = 0
        BY <1>2, <2>1, <3>1, NoneYounger
      <3>2. CASE c # 0
        <4>1. Younger(w, m, c) = Younger(admitted, m, c)
          <5>1. {i \in 1..m : w[i] < c} = {i \in 1..m : admitted[i] < c}
            BY <2>1
          <5> QED
            BY <5>1 DEF Younger
        <4>2. w[m + 1] < c
          BY <1>1, <2>1, <3>2 DEF Ages
        <4>3. Younger(w, m + 1, c) = Younger(admitted, m, c) + 1
          BY <1>1, <4>1, <4>2, YoungerStep
        <4> HIDE DEF m, n, k
        <4> QED
          BY <1>2, <1>4, <2>1, <3>2, <4>3
      <3> QED
        BY <3>1, <3>2
    <2>3. Recorded'
      BY <1>6, <2>2 DEF Recorded, w
    <2>4. Silent'
      BY <1>6 DEF Silent
    <2>5. RateLimited'
      <3>1. \A i \in 1..m : admitted[i] < Considered
        BY <1>1 DEF Window
      <3>2. Younger(admitted, m, Considered) = m
        BY <1>1, <3>1, YoungerAll
      <3>3. m + 1 <= throttle
        <4> HIDE DEF m, n, k
        <4> QED
          BY <1>1, <1>2, <1>4, <1>6, <3>2
      <3> QED
        BY <1>6, <2>1, <3>3 DEF RateLimited, w
    <2>6. admitted' \in Seq(Window) /\ banned' \in (0..ban_time') \cup {None}
      BY <1>6, <2>1 DEF w
    <2> QED
      BY <1>3, <2>3, <2>4, <2>5, <2>6 DEF Throttled
  <1> QED
    BY <1>5, <1>6

\* on_connect asks the throttle.
LEMMA OnConnectStep == ASSUME IInv, NEW s \in Sockets, OnConnect(s) PROVE IInv'
  <1>1. Capped /\ Throttled
    BY Parts
  <1>2. /\ Capped' /\ throttle' = throttle /\ ban_time' = ban_time /\ Record
        /\ admitted' = IF Blocks THEN admitted ELSE Append(admitted, 0)
    BY <1>1, CappedSame DEF OnConnect, config
  <1>3. CASE Banned
    <2>1. UNCHANGED throttling
      BY <1>2, <1>3 DEF Record, Blocks, throttling
    <2> QED
      BY <1>1, <1>2, <2>1, ThrottledSame, PartsNext
  <1>4. CASE ~Banned
    <2>1. Len(Attempts) \in Nat /\ throttle \in Nat
      BY <1>1, AttemptsWindow, AdmissionAssumption DEF Throttled
    <2>2. /\ entry' = Attempts
          /\ \/ Len(Attempts) > throttle /\ banned' = 0 /\ admitted' = admitted
             \/ Len(Attempts) <= throttle /\ banned' = None /\ admitted' = Append(admitted, 0)
      BY <1>2, <1>4, <2>1 DEF Record, Blocks
    <2>3. Throttled'
      BY <1>1, <1>2, <1>4, <2>2, RecordStep
    <2> QED
      BY <1>2, <2>3, PartsNext
  <1> QED
    BY <1>3, <1>4

\* Time passes: the attempts of the address and those let through age alike.
LEMMA TickStep == ASSUME IInv, Tick PROVE IInv'
  <1>1. Capped /\ Throttled
    BY Parts
  <1> DEFINE n == Len(entry)
             m == Len(admitted)
             g == [i \in DOMAIN admitted |-> admitted[i] + 1]
  <1>2. /\ throttle \in Nat /\ ban_time \in Nat \ {0} /\ Considered \in Nat \ {0}
        /\ None \notin Nat /\ 0 \in Ages /\ Considered \in Ages
        /\ \A c \in Ages \ {0} : c - 1 \in Ages /\ c \in Nat
        /\ n \in Nat /\ m \in Nat
        /\ \A i \in 1..n : entry[i] \in Ages
        /\ \A i \in 1..m : admitted[i] \in Window
        /\ DOMAIN entry = 1..n /\ DOMAIN admitted = 1..m
    BY <1>1, ThrottledTypes
  <1>3. /\ entry' = [i \in DOMAIN entry |-> Older(entry[i], Considered)]
        /\ banned' = IF banned = None THEN None ELSE Older(banned, ban_time)
        /\ admitted' = Recent(g)
        /\ throttle' = throttle /\ ban_time' = ban_time
    BY DEF Tick, config
  <1>4. Capped'
    BY <1>1, CappedSame DEF Tick, config
  <1>5. /\ entry' \in Seq(Ages) /\ Len(entry') = n
        /\ \A i \in 1..n : entry'[i] = Older(entry[i], Considered)
    <2>1. \A i \in 1..n : Older(entry[i], Considered) \in Ages
      BY <1>2 DEF Older, Ages
    <2>2. entry' \in [1..n -> Ages]
      BY <1>2, <1>3, <2>1
    <2> QED
      BY <1>2, <1>3, <2>2, FunctionSeq
  <1>6. g \in Seq(Ages) /\ Len(g) = m /\ \A i \in 1..m : g[i] = admitted[i] + 1
    <2>1. \A i \in 1..m : admitted[i] + 1 \in Ages
      BY <1>2 DEF Window, Ages
    <2>2. g \in [1..m -> Ages]
      BY <1>2, <2>1
    <2> QED
      BY <1>2, <2>2, FunctionSeq
  <1> HIDE DEF g
  <1>7. /\ admitted' \in Seq(Window) /\ Len(admitted') \in Nat
        /\ \A c \in Ages : Younger(admitted', Len(admitted'), c) = Younger(g, m, c)
        /\ Len(admitted') = Younger(g, m, Considered)
    BY <1>3, <1>6, RecentWindow
  <1>8. Recorded'
    <2> SUFFICES ASSUME NEW c \in Ages
                 PROVE  Younger(admitted', Len(admitted'), c) <= Younger(entry', Len(entry'), c)
      BY DEF Recorded
    <2>1. CASE c = 0
      <3>1. Younger(admitted', Len(admitted'), 0) = 0
        BY <1>7, NoneYounger
      <3>2. Younger(entry', Len(entry'), 0) \in Nat
        BY <1>2, <1>5, YoungerStep
      <3> QED
        BY <2>1, <3>1, <3>2
    <2>2. CASE c # 0
      <3>1. \A i \in 1..n : (entry'[i] < c) <=> (entry[i] < c - 1)
        BY <1>2, <1>5, <2>2 DEF Older, Ages
      <3>2. Younger(entry', n, c) = Younger(entry, n, c - 1)
        <4>1. {i \in 1..n : entry'[i] < c} = {i \in 1..n : entry[i] < c - 1}
          BY <3>1
        <4> QED
          BY <4>1 DEF Younger
      <3>3. \A i \in 1..m : (g[i] < c) <=> (admitted[i] < c - 1)
        BY <1>2, <1>6, <2>2 DEF Window
      <3>4. Younger(g, m, c) = Younger(admitted, m, c - 1)
        <4>1. {i \in 1..m : g[i] < c} = {i \in 1..m : admitted[i] < c - 1}
          BY <3>3
        <4> QED
          BY <4>1 DEF Younger
      <3>5. Younger(admitted, m, c - 1) <= Younger(entry, n, c - 1)
        BY <1>1, <1>2, <2>2 DEF Throttled, Recorded
      <3> QED
        BY <1>5, <1>7, <3>2, <3>4, <3>5
    <2> QED
      BY <2>1, <2>2
  <1>9. banned' \in (0..ban_time') \cup {None}
    BY <1>1, <1>2, <1>3 DEF Throttled, Older
  <1>10. Silent'
    <2> SUFFICES ASSUME banned' # None, NEW i \in 1..n
                 PROVE  entry'[i] >= banned' \/ entry'[i] = Considered
      BY <1>5 DEF Silent
    <2>1. banned # None /\ banned \in 0..ban_time /\ banned' = Older(banned, ban_time)
      BY <1>1, <1>3 DEF Throttled
    <2>2. entry[i] >= banned \/ entry[i] = Considered
      BY <1>1, <2>1 DEF Throttled, Silent
    <2>3. entry[i] \in 0..Considered /\ entry'[i] = Older(entry[i], Considered)
      BY <1>2, <1>5 DEF Ages
    <2> QED
      BY <1>2, <2>1, <2>2, <2>3 DEF Older
  <1>11. RateLimited'
    <2>1. Len(admitted') <= m
      <3>1. m \in Nat
        BY <1>2
      <3> HIDE DEF m
      <3>2. Younger(g, m, Considered) <= m
        BY <3>1, YoungerStep
      <3> QED
        BY <1>7, <3>2
    <2>2. m <= throttle
      BY <1>1 DEF Throttled, RateLimited
    <2> HIDE DEF m
    <2> QED
      BY <1>2, <1>3, <1>7, <2>1, <2>2 DEF RateLimited
  <1>12. Throttled'
    BY <1>1, <1>3, <1>5, <1>7, <1>8, <1>9, <1>10, <1>11 DEF Throttled
  <1> QED
    BY <1>4, <1>12, PartsNext

-----------------------------------------------------------------------------

\* The first state.
LEMMA InitIInv == Init => IInv
  <1> SUFFICES ASSUME Init PROVE IInv
    OBVIOUS
  <1>1. Capped
    <2>1. \A u \in {"open", "handshake"} : Count(socket, u) = 0
      <3> SUFFICES ASSUME NEW u \in {"open", "handshake"} PROVE Count(socket, u) = 0
        OBVIOUS
      <3>1. {x \in Sockets : socket[x] = u} = {}
        BY DEF Init
      <3> QED
        BY <3>1, FS_EmptySet DEF Count
    <2>2. Cardinality(Sockets) \in Nat /\ max \in Nat
      BY FS_CardinalityType, AdmissionAssumption DEF Init
    <2> QED
      BY <2>1, <2>2 DEF Init, Capped, States
  <1>2. Throttled
    <2>1. << >> \in Seq(Ages) /\ << >> \in Seq(Window) /\ Len(<< >>) = 0
      BY EmptySeq
    <2>2. Recorded
      <3>1. \A c \in Ages : Younger(<< >>, 0, c) = 0
        BY YoungerNone
      <3> QED
        BY <2>1, <3>1 DEF Init, Recorded
    <2>3. Silent
      BY DEF Init, Silent
    <2>4. RateLimited
      BY <2>1, AdmissionAssumption DEF Init, RateLimited
    <2> QED
      BY <2>1, <2>2, <2>3, <2>4 DEF Init, Throttled
  <1> QED
    BY <1>1, <1>2, Parts

\* Every step.
LEMMA NextIInv == IInv /\ [Next]_vars => IInv'
  <1> SUFFICES ASSUME IInv, [Next]_vars PROVE IInv'
    OBVIOUS
  <1>1. CASE UNCHANGED vars
    <2>1. UNCHANGED <<max, socket, active, peak>> /\ UNCHANGED <<throttle, ban_time, throttling>>
      BY <1>1 DEF vars, config
    <2> QED
      BY <2>1, Parts, CappedSame, ThrottledSame, PartsNext
  <1> QED
    BY <1>1, RequestStep, LeaveStep, OnConnectStep, TickStep DEF Next

-----------------------------------------------------------------------------

\* The invariant holds in every reachable state.
THEOREM AdmissionInvariant == Spec => []IInv
  BY InitIInv, NextIInv, PTL DEF Spec

\* Every variable keeps its type, and active_connections is the number of open
\* sockets, whatever the exits they take.
THEOREM AdmissionTypes == Spec => []TypeOK
  <1>1. IInv => TypeOK
    BY DEF IInv
  <1> QED
    BY <1>1, AdmissionInvariant, PTL

\* The cap of config.max_connections is exceeded by less than the handshakes that
\* were ever under way at once, for any number of clients.
THEOREM OverrunBounded == Spec => []CapOverrun
  <1>1. IInv => CapOverrun
    <2> SUFFICES ASSUME IInv, max > 0, peak > 0
                 PROVE  Cardinality(In("open")) <= max + peak - 1
      BY DEF CapOverrun
    <2>1. Capped
      BY Parts
    <2> DEFINE o == Count(socket, "open")
               h == Count(socket, "handshake")
    <2>2. o \in Nat /\ h \in Nat /\ Cardinality(In("open")) = o
      BY Counts DEF In, Count
    <2>3. max \in Nat /\ peak \in Nat /\ o + h <= (max + peak) - 1
      BY <2>1, Counts, AdmissionAssumption DEF Capped
    <2> HIDE DEF o, h
    <2> QED
      BY <2>2, <2>3
  <1> QED
    BY <1>1, AdmissionInvariant, PTL

\* No window holds more attempts let through than Throttle.throttle, across any
\* sequence of bans.
THEOREM WindowLimited == Spec => []RateLimited
  <1>1. IInv => RateLimited
    BY DEF IInv
  <1> QED
    BY <1>1, AdmissionInvariant, PTL

\* A ban at least as long as the window leaves nothing behind.
THEOREM BansForgiven == Spec => []Forgiven
  <1>1. IInv => Forgiven
    <2> SUFFICES ASSUME IInv, banned # None, ~Banned, ban_time >= Considered, throttle > 0
                 PROVE  ~Blocks
      BY DEF Forgiven
    <2>1. Throttled
      BY Parts
    <2> DEFINE n == Len(entry)
    <2>2. /\ throttle \in Nat /\ ban_time \in Nat /\ Considered \in Nat
          /\ n \in Nat /\ \A i \in 1..n : entry[i] \in Ages
      BY <2>1, ThrottledTypes
    <2>3. banned \in 0..ban_time /\ ~(banned < ban_time)
      BY <2>1 DEF Throttled, Banned
    <2>4. ASSUME NEW i \in 1..n PROVE ~(entry[i] < Considered)
      <3>1. entry[i] >= banned \/ entry[i] = Considered
        BY <2>1 DEF Throttled, Silent
      <3>2. entry[i] \in 0..Considered
        BY <2>2 DEF Ages
      <3> QED
        BY <2>2, <2>3, <3>1, <3>2
    <2>5. Younger(entry, n, Considered) = 0
      BY <2>2, <2>4, YoungerNone
    <2>6. Len(Attempts) = 1
      BY <2>1, <2>5, AttemptsWindow DEF Throttled
    <2> QED
      BY <2>2, <2>6 DEF Blocks
  <1> QED
    BY <1>1, AdmissionInvariant, PTL
=============================================================================
