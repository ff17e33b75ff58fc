---------------------------- MODULE DataInduction ----------------------------
(***************************************************************************)
(* Induction over the natural numbers for a set, and from it what the      *)
(* recursive functions behind MapThenSumSet and FoldLeft compute: that     *)
(* they exist, and their values when they add natural numbers up.  The     *)
(* library's induction theorems have an operator as parameter, these have  *)
(* not.                                                                    *)
(***************************************************************************)
EXTENDS Naturals, FiniteSetsExt, FiniteSetTheorems, SequenceTheorems, WellFoundedInduction, TLAPS

\* A set of natural numbers has a least element.
LEMMA Least ==
    ASSUME NEW T, T \subseteq Nat, T # {}
    PROVE  \E n \in T : \A m \in T : n <= m
  <1> DEFINE R == OpToRel(<, Nat)
  <1>1. ASSUME NEW m \in Nat, NEW n \in Nat, m < n PROVE <<m, n>> \in R
    <2>1. <<m, n>> \in Nat \X Nat /\ <<m, n>>[1] < <<m, n>>[2]
      BY <1>1
    <2> QED
      BY <2>1 DEF OpToRel
  <1>2. IsWellFoundedOn(R, Nat)
    BY NatLessThanWellFounded, Zenon
  <1> HIDE DEF R
  <1>3. PICK n \in T : \A m \in T : ~(<<m, n>> \in R)
    BY <1>2, WFMin
  <1>4. \A m \in T : ~(m < n)
    BY <1>1, <1>3
  <1> QED
    BY <1>4

\* A set that has 0, and with a number its successor, has all of them.
LEMMA SetInduction ==
    ASSUME NEW T, 0 \in T, \A n \in Nat : n \in T => n + 1 \in T
    PROVE  \A n \in Nat : n \in T
  <1> DEFINE Missing == Nat \ T
  <1> SUFFICES ASSUME Missing # {} PROVE FALSE
    OBVIOUS
  <1>1. PICK n \in Missing : \A m \in Missing : n <= m
    BY Least
  <1>2. n - 1 \in Nat /\ n - 1 \in T
    BY <1>1
  <1> QED
    BY <1>1, <1>2

\* A set of positions has a greatest one.
LEMMA MaxIn ==
    ASSUME NEW n \in Nat, NEW s \in SUBSET (1..n), s # {}
    PROVE  Max(s) \in s /\ \A i \in s : i <= Max(s)
  <1> DEFINE T == {n - i : i \in s}
  <1>1. T \subseteq Nat /\ T # {}
    <2>1. \A i \in s : n - i \in Nat
      OBVIOUS
    <2>2. PICK i \in s : TRUE
      OBVIOUS
    <2> QED
      BY <2>1, <2>2
  <1>2. PICK m \in T : \A j \in T : m <= j
    BY <1>1, Least
  <1>3. PICK x \in s : m = n - x
    BY <1>2
  <1>4. \A i \in s : x >= i
    <2> SUFFICES ASSUME NEW i \in s PROVE x >= i
      OBVIOUS
    <2>1. n - x <= n - i
      BY <1>2, <1>3
    <2> QED
      BY <2>1
  <1>5. Max(s) \in s /\ \A i \in s : Max(s) >= i
    <2>1. \E y \in s : \A i \in s : y >= i
      BY <1>4
    <2> QED
      BY <2>1 DEF Max
  <1> QED
    BY <1>5

-----------------------------------------------------------------------------

\* pick gives an element of every subset that has one.
Picks(pick, S) == \A s \in SUBSET S : s # {} => pick[s] \in s

\* f[s] starts from base and applies step for the elements of s in the order of
\* pick; f[s] adds the values of g up in that order.
Folded(f, step, base, pick, s) ==
    IF s = {} THEN base ELSE step[pick[s]][f[s \ {pick[s]}]]
IsFold(f, step, base, pick, S) == f = [s \in SUBSET S |-> Folded(f, step, base, pick, s)]
Added(f, g, pick, s) == IF s = {} THEN 0 ELSE g[pick[s]] + f[s \ {pick[s]}]
IsSum(f, g, pick, S) == f = [s \in SUBSET S |-> Added(f, g, pick, s)]

\* The set without the element that is picked.
LEMMA PickSmaller ==
    ASSUME NEW S, IsFiniteSet(S), NEW pick, Picks(pick, S), NEW s \in SUBSET S, s # {}
    PROVE  /\ pick[s] \in s /\ s \ {pick[s]} \in SUBSET S
           /\ Cardinality(s) \in Nat /\ Cardinality(s \ {pick[s]}) \in Nat
           /\ Cardinality(s \ {pick[s]}) = Cardinality(s) - 1
  <1>1. pick[s] \in s /\ s \ {pick[s]} \in SUBSET S
    BY DEF Picks
  <1>2. IsFiniteSet(s) /\ IsFiniteSet(s \ {pick[s]})
    BY <1>1, FS_Subset
  <1>3. Cardinality(s \ {pick[s]}) = Cardinality(s) - 1
    BY <1>1, <1>2, FS_RemoveElement
  <1> QED
    BY <1>1, <1>2, <1>3, FS_CardinalityType

\* There are such functions.
LEMMA FoldExists ==
    ASSUME NEW S, IsFiniteSet(S), NEW V, NEW base \in V, NEW step \in [S -> [V -> V]],
           NEW pick, Picks(pick, S)
    PROVE  \E f \in [SUBSET S -> V] : IsFold(f, step, base, pick, S)
  <1> DEFINE Upto(f, n) == \A s \in SUBSET S :
                               Cardinality(s) < n => f[s] = Folded(f, step, base, pick, s)
             T == {n \in Nat : \E f \in [SUBSET S -> V] : Upto(f, n)}
  <1>1. \A s \in SUBSET S : Cardinality(s) \in Nat /\ Cardinality(s) <= Cardinality(S)
    BY FS_Subset, FS_CardinalityType
  <1>2. 0 \in T
    <2>1. Upto([s \in SUBSET S |-> base], 0)
      BY <1>1
    <2> QED
      BY <2>1
  <1>3. ASSUME NEW n \in Nat, n \in T PROVE n + 1 \in T
    <2>1. PICK f \in [SUBSET S -> V] : Upto(f, n)
      BY <1>3
    <2> DEFINE e == [s \in SUBSET S |->
                       IF Cardinality(s) = n THEN Folded(f, step, base, pick, s) ELSE f[s]]
    <2>2. \A s \in SUBSET S : Folded(f, step, base, pick, s) \in V
      BY DEF Folded, Picks
    <2>3. e \in [SUBSET S -> V]
      BY <2>2
    <2>4. ASSUME NEW s \in SUBSET S, Cardinality(s) <= n
          PROVE  Folded(e, step, base, pick, s) = Folded(f, step, base, pick, s)
      <3>1. CASE s = {}
        BY <3>1 DEF Folded
      <3>2. CASE s # {}
        <4>1. /\ s \ {pick[s]} \in SUBSET S
              /\ Cardinality(s \ {pick[s]}) # n
          BY <2>4, <3>2, PickSmaller
        <4>2. e[s \ {pick[s]}] = f[s \ {pick[s]}]
          BY <4>1
        <4> QED
          BY <3>2, <4>2 DEF Folded
      <3> QED
        BY <3>1, <3>2
    <2>5. Upto(e, n + 1)
      <3> SUFFICES ASSUME NEW s \in SUBSET S, Cardinality(s) < n + 1
                   PROVE  e[s] = Folded(e, step, base, pick, s)
        OBVIOUS
      <3>1. Cardinality(s) <= n
        BY <1>1
      <3>2. CASE Cardinality(s) = n
        BY <2>4, <3>1, <3>2
      <3>3. CASE Cardinality(s) # n
        <4>1. e[s] = f[s] /\ Cardinality(s) < n
          BY <1>1, <3>1, <3>3
        <4> QED
          BY <2>1, <2>4, <3>1, <4>1
      <3> QED
        BY <3>2, <3>3
    <2> HIDE DEF e, Upto
    <2> QED
      BY <2>3, <2>5
  <1>4. \A n \in Nat : n \in T
    <2> HIDE DEF T
    <2> QED
      BY <1>2, <1>3, SetInduction
  <1>5. Cardinality(S) + 1 \in T
    <2> HIDE DEF T
    <2>1. Cardinality(S) \in Nat
      BY FS_CardinalityType
    <2> QED
      BY <1>4, <2>1
  <1>6. PICK f \in [SUBSET S -> V] : Upto(f, Cardinality(S) + 1)
    BY <1>5
  <1>7. \A s \in SUBSET S : f[s] = Folded(f, step, base, pick, s)
    BY <1>1, <1>6, FS_CardinalityType
  <1>8. f = [s \in SUBSET S |-> f[s]]
    OBVIOUS
  <1>9. IsFold(f, step, base, pick, S)
    BY <1>7, <1>8 DEF IsFold
  <1> QED
    BY <1>9

\* The sum is the fold that adds.
LEMMA SumExists ==
    ASSUME NEW S, IsFiniteSet(S), NEW g \in [S -> Nat], NEW pick, Picks(pick, S)
    PROVE  \E f \in [SUBSET S -> Nat] : IsSum(f, g, pick, S)
  <1> DEFINE step == [x \in S |-> [v \in Nat |-> g[x] + v]]
  <1>1. step \in [S -> [Nat -> Nat]]
    OBVIOUS
  <1>2. PICK f \in [SUBSET S -> Nat] : IsFold(f, step, 0, pick, S)
    <2> HIDE DEF step
    <2> QED
      BY <1>1, FoldExists
  <1>3. ASSUME NEW s \in SUBSET S
        PROVE  Folded(f, step, 0, pick, s) = Added(f, g, pick, s)
    <2>1. CASE s = {}
      BY <2>1 DEF Folded, Added
    <2>2. CASE s # {}
      <3>1. pick[s] \in S /\ f[s \ {pick[s]}] \in Nat
        BY <2>2 DEF Picks
      <3>2. step[pick[s]][f[s \ {pick[s]}]] = g[pick[s]] + f[s \ {pick[s]}]
        BY <3>1
      <3> HIDE DEF step
      <3> QED
        BY <2>2, <3>2 DEF Folded, Added
    <2> QED
      BY <2>1, <2>2
  <1> HIDE DEF step
  <1>4. IsSum(f, g, pick, S)
    BY <1>2, <1>3 DEF IsFold, IsSum
  <1> QED
    BY <1>4

\* What it gives are natural numbers; it is at least each of the values.  Changing
\* one of the values changes it by as much.
LEMMA SumChange ==
    ASSUME NEW S, IsFiniteSet(S), NEW g \in [S -> Nat], NEW h \in [S -> Nat],
           NEW pick, Picks(pick, S),
           NEW f, IsSum(f, g, pick, S), NEW e, IsSum(e, h, pick, S),
           NEW c \in S, \A d \in S \ {c} : h[d] = g[d]
    PROVE  f[S] \in Nat /\ f[S] >= g[c] /\ e[S] = (f[S] - g[c]) + h[c]
  <1> DEFINE P(s) == /\ f[s] \in Nat /\ e[s] \in Nat
                     /\ c \notin s => e[s] = f[s]
                     /\ c \in s => f[s] >= g[c] /\ e[s] = (f[s] - g[c]) + h[c]
             T == {n \in Nat : \A s \in SUBSET S : Cardinality(s) = n => P(s)}
  <1>1. \A s \in SUBSET S : /\ f[s] = Added(f, g, pick, s) /\ e[s] = Added(e, h, pick, s)
                            /\ IsFiniteSet(s) /\ Cardinality(s) \in Nat
    BY FS_Subset, FS_CardinalityType DEF IsSum
  <1>2. P({})
    <2>1. {} \in SUBSET S
      OBVIOUS
    <2>2. f[{}] = 0 /\ e[{}] = 0
      BY <1>1, <2>1, Zenon DEF Added
    <2> QED
      BY <2>2
  <1>3. 0 \in T
    <2>1. \A s \in SUBSET S : Cardinality(s) = 0 => s = {}
      BY <1>1, FS_EmptySet
    <2> HIDE DEF P
    <2> QED
      BY <1>2, <2>1
  <1>4. ASSUME NEW n \in Nat, n \in T PROVE n + 1 \in T
    <2> SUFFICES ASSUME NEW s \in SUBSET S, Cardinality(s) = n + 1 PROVE P(s)
      OBVIOUS
    <2> DEFINE x == pick[s]
               r == s \ {x}
    <2>1. s # {}
      BY FS_EmptySet
    <2>2. x \in s /\ x \in S /\ r \in SUBSET S /\ Cardinality(r) = n
      BY <2>1, PickSmaller
    <2>3. P(r)
      <3> HIDE DEF P, r
      <3> QED
        BY <1>4, <2>2
    <2>4. f[s] = g[x] + f[r] /\ e[s] = h[x] + e[r]
      BY <1>1, <2>1 DEF Added
    <2>5. g[x] \in Nat /\ h[x] \in Nat /\ g[c] \in Nat /\ h[c] \in Nat
      BY <2>2
    <2>6. CASE x = c
      <3>1. c \in s /\ c \notin r
        BY <2>2, <2>6
      <3> HIDE DEF r, x
      <3> QED
        BY <2>3, <2>4, <2>5, <2>6, <3>1
    <2>7. CASE x # c
      <3>1. h[x] = g[x] /\ (c \in s <=> c \in r)
        BY <2>2, <2>7
      <3> HIDE DEF r, x
      <3> QED
        BY <2>3, <2>4, <2>5, <3>1
    <2> QED
      BY <2>6, <2>7
  <1>5. Cardinality(S) \in T
    <2> HIDE DEF T
    <2>1. \A n \in Nat : n \in T
      BY <1>3, <1>4, SetInduction
    <2> QED
      BY <1>1, <2>1
  <1>6. P(S)
    <2> HIDE DEF P
    <2> QED
      BY <1>5
  <1> QED
    BY <1>6

\* f and e are the sums of two functions that differ only at c.
TwoSums(f, g, e, h, c, pick, S) ==
    /\ IsFiniteSet(S) /\ g \in [S -> Nat] /\ h \in [S -> Nat] /\ Picks(pick, S)
    /\ IsSum(f, g, pick, S) /\ IsSum(e, h, pick, S)
    /\ c \in S /\ \A d \in S \ {c} : h[d] = g[d]

\* They differ by what the functions differ by.
LEMMA TwoSumsDiffer ==
    ASSUME NEW S, NEW f, NEW g, NEW e, NEW h, NEW c, NEW pick,
           TwoSums(f, g, e, h, c, pick, S)
    PROVE  f[S] \in Nat /\ f[S] >= g[c] /\ e[S] = (f[S] - g[c]) + h[c]
  BY SumChange DEF TwoSums

\* What it gives is a natural number.
LEMMA SumType ==
    ASSUME NEW S, IsFiniteSet(S), NEW g \in [S -> Nat], NEW pick, Picks(pick, S),
           NEW f, IsSum(f, g, pick, S)
    PROVE  f[S] \in Nat
  <1>1. CASE S = {}
    <2>1. S \in SUBSET S
      OBVIOUS
    <2>2. f[S] = 0
      BY <1>1, <2>1, Zenon DEF IsSum, Added
    <2> QED
      BY <2>2
  <1>2. CASE S # {}
    <2>1. PICK c \in S : TRUE
      BY <1>2
    <2> QED
      BY <2>1, SumChange
  <1> QED
    BY <1>1, <1>2

-----------------------------------------------------------------------------

\* A function on the first positions is a sequence.
LEMMA FunctionSeq ==
    ASSUME NEW S, NEW n \in Nat, NEW f \in [1..n -> S]
    PROVE  f \in Seq(S) /\ Len(f) = n
  <1>1. f \in Seq(S)
    <2>1. [1..n -> S] \in {[1..m -> S] : m \in Nat}
      BY Zenon
    <2>2. f \in UNION {[1..m -> S] : m \in Nat}
      BY <2>1, Zenon
    <2> QED
      BY <2>2, SeqDef, Zenon
  <1>2. 1..n = 1..Len(f) /\ Len(f) \in Nat
    BY <1>1, LenProperties
  <1>3. \A i \in Int : i \in 1..n <=> i \in 1..Len(f)
    BY <1>2
  <1>4. n <= Len(f)
    <2>1. n = 0 \/ n \in 1..n
      OBVIOUS
    <2> QED
      BY <1>2, <1>3, <2>1
  <1>5. Len(f) <= n
    <2>1. Len(f) = 0 \/ Len(f) \in 1..Len(f)
      BY <1>2
    <2> QED
      BY <1>2, <1>3, <2>1
  <1> QED
    BY <1>1, <1>2, <1>4, <1>5

\* The positions of a sequence are folded from the first to the last.
Lasts(q) == [s \in SUBSET DOMAIN q |-> Max(s)]

\* A set of positions has a last one.
LEMMA LastsPick ==
    ASSUME NEW S, NEW q \in Seq(S)
    PROVE  /\ DOMAIN q = 1..Len(q) /\ Len(q) \in Nat /\ IsFiniteSet(DOMAIN q)
           /\ \A i \in DOMAIN q : q[i] \in S
           /\ Picks(Lasts(q), DOMAIN q)
  <1>1. DOMAIN q = 1..Len(q) /\ Len(q) \in Nat
    BY LenProperties
  <1>2. IsFiniteSet(DOMAIN q)
    BY <1>1, FS_Interval
  <1>3. \A i \in DOMAIN q : q[i] \in S
    BY <1>1, ElementOfSeq
  <1>4. Picks(Lasts(q), DOMAIN q)
    <2> SUFFICES ASSUME NEW s \in SUBSET DOMAIN q, s # {} PROVE Lasts(q)[s] \in s
      BY DEF Picks
    <2>1. Max(s) \in s
      BY <1>1, MaxIn
    <2> QED
      BY <2>1 DEF Lasts
  <1> QED
    BY <1>1, <1>2, <1>3, <1>4

\* The last of the first n positions is n.
LEMMA LastsPrefix ==
    ASSUME NEW S, NEW q \in Seq(S), NEW n \in 1..Len(q)
    PROVE  /\ 1..n \in SUBSET DOMAIN q /\ 1..n # {} /\ (1..n) \ {n} = 1..n - 1
           /\ Lasts(q)[1..n] = n
  <1>1. DOMAIN q = 1..Len(q) /\ Len(q) \in Nat
    BY LenProperties
  <1>2. 1..n \in SUBSET DOMAIN q /\ 1..n # {} /\ (1..n) \ {n} = 1..n - 1
    <2>1. 1..n \subseteq 1..Len(q) /\ n \in 1..n
      BY <1>1
    <2>2. \A i : i \in (1..n) \ {n} <=> i \in 1..n - 1
      BY <1>1
    <2> QED
      BY <1>1, <2>1, <2>2
  <1>3. Max(1..n) \in 1..n /\ \A i \in 1..n : i <= Max(1..n)
    <2>1. n \in Nat /\ 1..n \in SUBSET (1..n)
      BY <1>1
    <2> QED
      BY <1>2, <2>1, MaxIn
  <1>4. Max(1..n) = n
    <2>1. n \in 1..n
      BY <1>1
    <2> QED
      BY <1>1, <1>3, <2>1
  <1> QED
    BY <1>1, <1>2, <1>4 DEF Lasts
=============================================================================
