---------------------------- MODULE MonPollProofs ----------------------------
(***************************************************************************)
(* Proofs about MonPoll: the values of a group and their deltas, for every *)
(* group, every number of units, every width of a counter and every fault  *)
(* a poll may meet.  PollInv is the inductive invariant.                   *)
(*                                                                         *)
(* A sum over the units is a fold, about which only the equation of        *)
(* MapThenFoldSet is known; the first section proves what the rest needs   *)
(* of it.  An outcome of a reading is judged by Reading(e, o), which is    *)
(* all that the step of a poll needs (EventInv); every source of counters  *)
(* is then shown to read like that.                                        *)
(*                                                                         *)
(* The last section is about another part of the library that shares       *)
(* nothing with it but the application's calls, ApiLock: the lock file and *)
(* the lock, for every set of processes.                                   *)
(***************************************************************************)
EXTENDS MonPoll, ApiLock, FiniteSetTheorems, WellFoundedInduction, TLAPS

-----------------------------------------------------------------------------
(***************************************************************************)
(* Sums over the units.                                                    *)
(***************************************************************************)
\* A set of natural numbers that is not empty has a least element.
LEMMA LeastCount ==
  ASSUME NEW T, T \subseteq Nat, T # {}
  PROVE  \E x \in T : \A y \in T : x <= y
<1>1. PICK x \in T : \A y \in T : ~(<<y, x>> \in OpToRel(<, Nat))
  BY NatLessThanWellFounded, WFMin
<1>2. \A y \in T : ~(y < x)
  BY <1>1 DEF OpToRel
<1> QED
  BY <1>2

\* What holds of a set of units when it holds of the set without the element
\* that CHOOSE gives, holds of every one.
Picked(s) == CHOOSE x \in s : TRUE

LEMMA UnitsInduction ==
  ASSUME NEW Bad, Bad \subseteq SUBSET Unit, {} \notin Bad,
         \A s \in SUBSET Unit : s \in Bad => s \ {Picked(s)} \in Bad
  PROVE  Bad = {}
<1> SUFFICES ASSUME Bad # {} PROVE FALSE
  OBVIOUS
<1> DEFINE T == {Cardinality(s) : s \in Bad}
<1>1. \A s \in SUBSET Unit : IsFiniteSet(s) /\ Cardinality(s) \in Nat
  BY ShapeAssumption, FS_Subset, FS_CardinalityType
<1>2. T \subseteq Nat /\ T # {}
  BY <1>1
<1>3. PICK n \in T : \A m \in T : n <= m
  <2> HIDE DEF T
  <2> QED BY <1>2, LeastCount
<1>4. PICK s \in Bad : n = Cardinality(s)
  BY <1>3
<1>5. Picked(s) \in s
  BY DEF Picked
<1>6. s \ {Picked(s)} \in Bad
  BY <1>4
<1>7. Cardinality(s \ {Picked(s)}) = Cardinality(s) - 1
  BY <1>1, <1>5, FS_RemoveElement
<1>8. Cardinality(s \ {Picked(s)}) \in T
  BY <1>6
<1>9. n <= Cardinality(s) - 1
  <2> HIDE DEF T
  <2> QED BY <1>3, <1>7, <1>8
<1>10. Cardinality(s) \in Nat
  BY <1>1
<1> QED
  BY <1>4, <1>9, <1>10

\* g gives the sum of f over every set of units.
Sums(f, g) ==
  g = [s \in SUBSET Unit |-> IF s = {} THEN 0 ELSE f[Picked(s)] + g[s \ {Picked(s)}]]

\* g gives the sum of f over every set of at most n units.
SumsUpTo(f, g, n) ==
  \A s \in SUBSET Unit :
    Cardinality(s) <= n => g[s] = IF s = {} THEN 0 ELSE f[Picked(s)] + g[s \ {Picked(s)}]

LEMMA SumsUpToNext ==
  ASSUME NEW f, NEW g, NEW n \in Nat, SumsUpTo(f, g, n)
  PROVE  \E h : SumsUpTo(f, h, n + 1)
<1> DEFINE h == [s \in SUBSET Unit |-> IF s = {} THEN 0 ELSE f[Picked(s)] + g[s \ {Picked(s)}]]
<1>1. ASSUME NEW s \in SUBSET Unit, Cardinality(s) <= n + 1, s # {}
      PROVE  h[s] = f[Picked(s)] + h[s \ {Picked(s)}]
  <2>1. Picked(s) \in s
    BY <1>1 DEF Picked
  <2>2. IsFiniteSet(s) /\ Cardinality(s) \in Nat
    BY ShapeAssumption, FS_Subset, FS_CardinalityType
  <2>3. Cardinality(s \ {Picked(s)}) = Cardinality(s) - 1
    BY <2>1, <2>2, FS_RemoveElement
  <2>4. s \ {Picked(s)} \in SUBSET Unit
    OBVIOUS
  <2>5. Cardinality(s \ {Picked(s)}) <= n
    BY <1>1, <2>2, <2>3
  <2>6. g[s \ {Picked(s)}] = h[s \ {Picked(s)}]
    BY <2>4, <2>5 DEF SumsUpTo
  <2> QED
    BY <1>1, <2>6
<1>2. SumsUpTo(f, h, n + 1)
  <2> SUFFICES ASSUME NEW s \in SUBSET Unit, Cardinality(s) <= n + 1
               PROVE  h[s] = IF s = {} THEN 0 ELSE f[Picked(s)] + h[s \ {Picked(s)}]
    BY DEF SumsUpTo
  <2>1. CASE s = {}
    BY <2>1
  <2>2. CASE s # {}
    <3> HIDE DEF h
    <3> QED BY <1>1, <2>2
  <2> QED BY <2>1, <2>2
<1> QED
  BY <1>2

LEMMA SumsExist ==
  ASSUME NEW f
  PROVE  \E g : Sums(f, g)
<1> DEFINE T == {n \in Nat : ~\E g : SumsUpTo(f, g, n)}
<1>1. T = {}
  <2> SUFFICES ASSUME T # {} PROVE FALSE
    OBVIOUS
  <2>1. PICK n \in T : \A m \in T : n <= m
    <3>1. T \subseteq Nat
      OBVIOUS
    <3> HIDE DEF T
    <3> QED BY <3>1, LeastCount
  <2>2. n # 0
    <3> SUFFICES ASSUME n = 0 PROVE FALSE
      OBVIOUS
    <3> DEFINE g == [s \in SUBSET Unit |-> 0]
    <3>1. \A s \in SUBSET Unit : IsFiniteSet(s) /\ Cardinality(s) \in Nat
      BY ShapeAssumption, FS_Subset, FS_CardinalityType
    <3>2. \A s \in SUBSET Unit : Cardinality(s) <= 0 => s = {}
      BY <3>1, FS_EmptySet
    <3>3. SumsUpTo(f, g, 0)
      BY <3>2 DEF SumsUpTo
    <3> QED BY <3>3
  <2>3. n \in Nat /\ n - 1 \in Nat /\ (n - 1) + 1 = n
    BY <2>2
  <2>4. n - 1 \notin T
    <3> HIDE DEF T
    <3> QED BY <2>1, <2>3
  <2>5. PICK g : SumsUpTo(f, g, n - 1)
    BY <2>3, <2>4
  <2>6. \E h : SumsUpTo(f, h, n)
    BY <2>3, <2>5, SumsUpToNext
  <2> QED
    BY <2>6
<1>2. Cardinality(Unit) \in Nat
  BY ShapeAssumption, FS_CardinalityType
<1>3. PICK g : SumsUpTo(f, g, Cardinality(Unit))
  BY <1>1, <1>2
<1> DEFINE h == [s \in SUBSET Unit |-> g[s]]
<1>4. \A s \in SUBSET Unit : Cardinality(s) <= Cardinality(Unit)
  BY ShapeAssumption, FS_Subset
<1>5. \A s \in SUBSET Unit : h[s] = IF s = {} THEN 0 ELSE f[Picked(s)] + h[s \ {Picked(s)}]
  BY <1>3, <1>4 DEF SumsUpTo
<1>6. Sums(f, h)
  BY <1>5 DEF Sums
<1> QED
  BY <1>6

\* The sum of the library over the units is such a sum.
LEMMA SumIs ==
  ASSUME NEW f, DOMAIN f = Unit
  PROVE  \E g : Sums(f, g) /\ SumOf(f) = g[Unit]
<1> DEFINE g == CHOOSE x : x = [s \in SUBSET DOMAIN f |->
                                 IF s = {} THEN 0 ELSE f[CHOOSE y \in s : TRUE] + x[s \ {CHOOSE y \in s : TRUE}]]
<1>1. SumOf(f) = g[DOMAIN f]
  BY DEF SumOf, FoldFunction, FoldFunctionOnSet, MapThenFoldSet
<1>2. PICK h : h = [s \in SUBSET DOMAIN f |->
                     IF s = {} THEN 0 ELSE f[CHOOSE y \in s : TRUE] + h[s \ {CHOOSE y \in s : TRUE}]]
  <2>1. PICK h : Sums(f, h)
    BY SumsExist
  <2>2. h = [s \in SUBSET DOMAIN f |->
               IF s = {} THEN 0 ELSE f[CHOOSE y \in s : TRUE] + h[s \ {CHOOSE y \in s : TRUE}]]
    BY <2>1 DEF Sums, Picked
  <2> QED BY <2>2
<1>3. g = [s \in SUBSET DOMAIN f |->
            IF s = {} THEN 0 ELSE f[CHOOSE y \in s : TRUE] + g[s \ {CHOOSE y \in s : TRUE}]]
  BY <1>2
<1>4. Sums(f, g)
  <2> HIDE DEF g
  <2> QED BY <1>3 DEF Sums, Picked
<1> QED
  BY <1>1, <1>4

LEMMA PickedIn ==
  ASSUME NEW s \in SUBSET Unit, s # {}
  PROVE  Picked(s) \in s /\ s \ {Picked(s)} \in SUBSET Unit
  BY DEF Picked

LEMMA SumType ==
  ASSUME NEW f \in [Unit -> Nat]
  PROVE  SumOf(f) \in Nat
<1>1. PICK g : Sums(f, g) /\ SumOf(f) = g[Unit]
  BY SumIs
<1> DEFINE Bad == {s \in SUBSET Unit : g[s] \notin Nat}
<1>2. {} \notin Bad
  BY <1>1 DEF Sums
<1>3. ASSUME NEW s \in SUBSET Unit, s \in Bad PROVE s \ {Picked(s)} \in Bad
  <2>1. s # {}
    BY <1>2, <1>3
  <2>2. Picked(s) \in s /\ s \ {Picked(s)} \in SUBSET Unit
    BY <2>1, PickedIn
  <2>3. g[s] = f[Picked(s)] + g[s \ {Picked(s)}]
    BY <1>1, <2>1 DEF Sums
  <2>4. f[Picked(s)] \in Nat
    BY <2>2
  <2> QED
    BY <1>3, <2>2, <2>3, <2>4
<1>4. Bad = {}
  <2>1. Bad \subseteq SUBSET Unit
    OBVIOUS
  <2> HIDE DEF Bad
  <2> QED BY <1>2, <1>3, <2>1, UnitsInduction
<1> QED
  BY <1>1, <1>4

\* What is counted in two parts adds up.
LEMMA SumAdd ==
  ASSUME NEW f \in [Unit -> Nat], NEW f1 \in [Unit -> Nat], NEW f2 \in [Unit -> Nat],
         \A u \in Unit : f[u] = f1[u] + f2[u]
  PROVE  SumOf(f) = SumOf(f1) + SumOf(f2)
<1>1. PICK g : Sums(f, g) /\ SumOf(f) = g[Unit]
  BY SumIs
<1>2. PICK g1 : Sums(f1, g1) /\ SumOf(f1) = g1[Unit]
  BY SumIs
<1>3. PICK g2 : Sums(f2, g2) /\ SumOf(f2) = g2[Unit]
  BY SumIs
<1> DEFINE Good(s) == g1[s] \in Nat /\ g2[s] \in Nat /\ g[s] = g1[s] + g2[s]
           Bad == {s \in SUBSET Unit : ~Good(s)}
<1>4. {} \notin Bad
  BY <1>1, <1>2, <1>3 DEF Sums
<1>5. ASSUME NEW s \in SUBSET Unit, s \in Bad PROVE s \ {Picked(s)} \in Bad
  <2>1. s # {}
    BY <1>4, <1>5
  <2>2. Picked(s) \in s /\ s \ {Picked(s)} \in SUBSET Unit
    BY <2>1, PickedIn
  <2>3. g[s] = f[Picked(s)] + g[s \ {Picked(s)}]
    BY <1>1, <2>1 DEF Sums
  <2>4. g1[s] = f1[Picked(s)] + g1[s \ {Picked(s)}]
    BY <1>2, <2>1 DEF Sums
  <2>5. g2[s] = f2[Picked(s)] + g2[s \ {Picked(s)}]
    BY <1>3, <2>1 DEF Sums
  <2>6. f[Picked(s)] = f1[Picked(s)] + f2[Picked(s)] /\ f1[Picked(s)] \in Nat /\ f2[Picked(s)] \in Nat
    BY <2>2
  <2>7. Good(s \ {Picked(s)}) => Good(s)
    BY <2>3, <2>4, <2>5, <2>6
  <2> QED
    BY <1>5, <2>2, <2>7
<1>6. Bad = {}
  <2>1. Bad \subseteq SUBSET Unit
    OBVIOUS
  <2> HIDE DEF Bad
  <2> QED BY <1>4, <1>5, <2>1, UnitsInduction
<1>7. Good(Unit)
  BY <1>6
<1> QED
  BY <1>1, <1>2, <1>3, <1>7

\* One unit that has counted v.
Only(u, v) == [x \in Unit |-> IF x = u THEN v ELSE 0]

LEMMA SumOnly ==
  ASSUME NEW u \in Unit, NEW v \in Nat
  PROVE  SumOf(Only(u, v)) = v
<1>1. PICK g : Sums(Only(u, v), g) /\ SumOf(Only(u, v)) = g[Unit]
  BY SumIs DEF Only
<1> DEFINE Good(s) == g[s] = IF u \in s THEN v ELSE 0
           Bad == {s \in SUBSET Unit : ~Good(s)}
<1>2. {} \notin Bad
  BY <1>1 DEF Sums
<1>3. ASSUME NEW s \in SUBSET Unit, s \in Bad PROVE s \ {Picked(s)} \in Bad
  <2>1. s # {}
    BY <1>2, <1>3
  <2>2. Picked(s) \in s /\ s \ {Picked(s)} \in SUBSET Unit
    BY <2>1, PickedIn
  <2>3. g[s] = Only(u, v)[Picked(s)] + g[s \ {Picked(s)}]
    BY <1>1, <2>1 DEF Sums
  <2>4. Only(u, v)[Picked(s)] = IF Picked(s) = u THEN v ELSE 0
    BY <2>2 DEF Only
  <2>5. Good(s \ {Picked(s)}) => Good(s)
    BY <2>2, <2>3, <2>4
  <2> QED
    BY <1>3, <2>2, <2>5
<1>4. Bad = {}
  <2>1. Bad \subseteq SUBSET Unit
    OBVIOUS
  <2> HIDE DEF Bad
  <2> QED BY <1>2, <1>3, <2>1, UnitsInduction
<1>5. Good(Unit)
  BY <1>4
<1> QED
  BY <1>1, <1>5

\* Units that hold the same.
LEMMA SumConst ==
  ASSUME NEW v \in Nat
  PROVE  SumOf([u \in Unit |-> v]) = Cardinality(Unit) * v
<1> DEFINE f == [u \in Unit |-> v]
<1>1. PICK g : Sums(f, g) /\ SumOf(f) = g[Unit]
  BY SumIs
<1> DEFINE Good(s) == g[s] = Cardinality(s) * v
           Bad == {s \in SUBSET Unit : ~Good(s)}
<1>2. {} \notin Bad
  <2>1. Cardinality({}) = 0
    BY FS_EmptySet
  <2> QED BY <1>1, <2>1 DEF Sums
<1>3. ASSUME NEW s \in SUBSET Unit, s \in Bad PROVE s \ {Picked(s)} \in Bad
  <2>1. s # {}
    BY <1>2, <1>3
  <2>2. Picked(s) \in s /\ s \ {Picked(s)} \in SUBSET Unit
    BY <2>1, PickedIn
  <2>3. g[s] = v + g[s \ {Picked(s)}]
    BY <1>1, <2>1, <2>2 DEF Sums
  <2>4. IsFiniteSet(s)
    BY ShapeAssumption, FS_Subset
  <2>5. Cardinality(s \ {Picked(s)}) = Cardinality(s) - 1 /\ Cardinality(s) \in Nat
    BY <2>2, <2>4, FS_RemoveElement, FS_CardinalityType
  <2>6. \A n \in Nat : v + (n - 1) * v = n * v
    OBVIOUS
  <2>7. Good(s \ {Picked(s)}) => Good(s)
    BY <2>3, <2>5, <2>6
  <2> QED
    BY <1>3, <2>2, <2>7
<1>4. Bad = {}
  <2>1. Bad \subseteq SUBSET Unit
    OBVIOUS
  <2> HIDE DEF Bad
  <2> QED BY <1>2, <1>3, <2>1, UnitsInduction
<1>5. Good(Unit)
  BY <1>4
<1> QED
  BY <1>1, <1>5

LEMMA SumZero ==
  ASSUME NEW f \in [Unit -> Nat], \A u \in Unit : f[u] = 0
  PROVE  SumOf(f) = 0
<1>1. SumOf(f) = SumOf(f) + SumOf(f)
  BY SumAdd
<1>2. SumOf(f) \in Nat
  BY SumType
<1>3. \A x \in Nat : x = x + x => x = 0
  OBVIOUS
<1> QED
  BY <1>1, <1>2, <1>3

LEMMA SumMono ==
  ASSUME NEW f \in [Unit -> Nat], NEW h \in [Unit -> Nat], \A u \in Unit : h[u] <= f[u]
  PROVE  SumOf(h) <= SumOf(f)
<1> DEFINE d == [u \in Unit |-> f[u] - h[u]]
<1>1. d \in [Unit -> Nat] /\ \A u \in Unit : f[u] = h[u] + d[u]
  OBVIOUS
<1>2. SumOf(f) = SumOf(h) + SumOf(d)
  <2> HIDE DEF d
  <2> QED BY <1>1, SumAdd
<1>3. SumOf(h) \in Nat /\ SumOf(d) \in Nat
  <2> HIDE DEF d
  <2> QED BY <1>1, SumType
<1> QED
  BY <1>2, <1>3

\* A unit alone has not counted more than all of them.
LEMMA SumElement ==
  ASSUME NEW f \in [Unit -> Nat], NEW u \in Unit
  PROVE  f[u] <= SumOf(f)
<1>1. Only(u, f[u]) \in [Unit -> Nat] /\ \A x \in Unit : Only(u, f[u])[x] <= f[x]
  BY DEF Only
<1>2. SumOf(Only(u, f[u])) <= SumOf(f)
  BY <1>1, SumMono
<1>3. SumOf(Only(u, f[u])) = f[u]
  BY SumOnly
<1> QED
  BY <1>2, <1>3

LEMMA SumUpdate ==
  ASSUME NEW f \in [Unit -> Nat], NEW u \in Unit, NEW v \in Nat
  PROVE  SumOf([f EXCEPT ![u] = v]) = SumOf(f) - f[u] + v
<1> DEFINE r == [f EXCEPT ![u] = 0]
           h == [f EXCEPT ![u] = v]
<1>1. r \in [Unit -> Nat] /\ h \in [Unit -> Nat]
  OBVIOUS
<1>2. Only(u, f[u]) \in [Unit -> Nat] /\ Only(u, v) \in [Unit -> Nat]
  BY DEF Only
<1>3. \A x \in Unit : f[x] = r[x] + Only(u, f[u])[x] /\ h[x] = r[x] + Only(u, v)[x]
  BY DEF Only
<1> HIDE DEF r, h
<1>4. SumOf(f) = SumOf(r) + SumOf(Only(u, f[u])) /\ SumOf(h) = SumOf(r) + SumOf(Only(u, v))
  BY <1>1, <1>2, <1>3, SumAdd
<1>5. SumOf(Only(u, f[u])) = f[u] /\ SumOf(Only(u, v)) = v
  BY SumOnly
<1>6. SumOf(r) \in Nat
  BY <1>1, SumType
<1>7. SumOf(h) = SumOf(f) - f[u] + v
  BY <1>4, <1>5, <1>6
<1> QED
  BY <1>7 DEF h

-----------------------------------------------------------------------------
(***************************************************************************)
(* Counters that go round.                                                 *)
(***************************************************************************)
LEMMA Positive ==
  /\ Modulus \in Nat /\ Modulus > 0 /\ Scale \in Nat /\ Scale > 0 /\ Wide \in Nat
  /\ PmuModulus \in Nat /\ PmuModulus > 0 /\ MaxTraffic \in Nat
  BY WidthAssumption, BoundAssumption

\* The most that fixed counters hold when a group takes them, and that a
\* counter that does not go round can hold.
OldContent == Cardinality(Unit) * PmuModulus

MostCounted == MaxTraffic + OldContent

\* Every value the library computes fits into 64 bits.
LEMMA Fits ==
  /\ OldContent \in Nat /\ MostCounted \in Nat /\ MaxTraffic <= MostCounted
  /\ Scale * Modulus < Wide /\ Scale * MostCounted < Wide
  /\ MostCounted < Wide /\ Modulus < Wide
<1> DEFINE m == Cardinality(Unit)
           width == MaxTraffic + Modulus + PmuModulus
<1>1. m \in Nat /\ m >= 1
  BY ShapeAssumption, FS_CardinalityType, FS_EmptySet
<1>2. width \in Nat /\ width >= Modulus /\ Scale \in Nat /\ Scale >= 1
  BY Positive
<1>3. Wide > Scale * m * width
  BY WidthAssumption
<1>4. OldContent = m * PmuModulus /\ width >= MaxTraffic + PmuModulus
  BY Positive DEF OldContent
<1> HIDE DEF m, width
<1>5. \A a, b, c \in Nat : a >= b => a * c >= b * c /\ c * a >= c * b
  OBVIOUS
<1>6. m * width \in Nat /\ m * width >= width /\ OldContent \in Nat
  <2>1. m * width >= 1 * width
    BY <1>1, <1>2, <1>5
  <2> QED BY <1>1, <1>2, <1>4, <2>1, Positive
<1>7. m * width >= MostCounted
  <2>1. m * width >= m * (MaxTraffic + PmuModulus)
    BY <1>1, <1>2, <1>4, <1>5, Positive
  <2>2. m * (MaxTraffic + PmuModulus) = m * MaxTraffic + m * PmuModulus
    BY <1>1, Positive
  <2>3. m * MaxTraffic >= 1 * MaxTraffic
    BY <1>1, <1>5, Positive
  <2>4. m * MaxTraffic \in Nat /\ m * PmuModulus \in Nat
    BY <1>1, Positive
  <2> QED BY <1>4, <1>6, <2>1, <2>2, <2>3, <2>4, Positive DEF MostCounted
<1>8. Scale * m * width = Scale * (m * width)
  BY <1>1, <1>2
<1>9. MostCounted \in Nat /\ MaxTraffic <= MostCounted
  BY <1>6, Positive DEF MostCounted
<1>10. Scale * (m * width) >= Scale * Modulus /\ Scale * (m * width) >= Scale * MostCounted
  BY <1>2, <1>5, <1>6, <1>7, <1>9, Positive
<1>11. Scale * Modulus >= 1 * Modulus /\ Scale * MostCounted >= 1 * MostCounted
  BY <1>2, <1>5, <1>9, Positive
<1>12. Scale * (m * width) \in Nat /\ Scale * Modulus \in Nat /\ Scale * MostCounted \in Nat
  BY <1>2, <1>6, <1>9, Positive
<1> QED
  BY <1>3, <1>6, <1>8, <1>9, <1>10, <1>11, <1>12, Positive

LEMMA ScaleFits ==
  ASSUME NEW n \in Nat, n < Modulus \/ n <= MostCounted
  PROVE  scale_event(n) \in 0 .. Wide - 1
<1>1. Scale * n <= Scale * Modulus \/ Scale * n <= Scale * MostCounted
  BY Fits, Positive
<1>2. Scale * n \in Nat /\ n * Scale = Scale * n
  BY Positive
<1>3. Scale * Modulus \in Nat /\ Scale * MostCounted \in Nat
  BY Fits, Positive
<1>4. Scale * n < Wide
  BY <1>1, <1>2, <1>3, Fits, Positive
<1> QED
  BY <1>2, <1>4, Positive DEF scale_event

LEMMA Turned ==
  ASSUME NEW n \in Nat
  PROVE  n % Modulus \in 0 .. Modulus - 1 /\ \E q \in Int : n = (n % Modulus) + q * Modulus
<1>1. n = Modulus * (n \div Modulus) + (n % Modulus) /\ n % Modulus \in 0 .. Modulus - 1 /\ n \div Modulus \in Int
  BY Positive
<1>2. Modulus * (n \div Modulus) = (n \div Modulus) * Modulus
  BY <1>1, Positive
<1> QED
  BY <1>1, <1>2, Positive

\* get_delta() of hw_monitoring.c for a counter that went round at most once.
LEMMA CycleDelta ==
  ASSUME NEW old \in 0 .. Modulus - 1, NEW new \in 0 .. Modulus - 1,
         NEW d \in 0 .. Modulus - 1, NEW n \in Int, NEW q \in Int,
         old + d + n * Modulus = new + q * Modulus
  PROVE  get_delta(Modulus, old, new) = d
<1> DEFINE j == q - n
<1>1. j \in Int /\ old + d - new = j * Modulus
  BY Positive
<1> HIDE DEF j
<1>2. old + d - new < 2 * Modulus /\ old + d - new > -Modulus
  BY Positive
<1>3. j = 0 \/ j = 1
  <2>1. j >= 2 => j * Modulus >= 2 * Modulus
    BY <1>1, Positive
  <2>2. j <= -1 => j * Modulus <= -Modulus
    BY <1>1, Positive
  <2> QED
    BY <1>1, <1>2, <2>1, <2>2, Positive
<1>4. CASE j = 0
  <2>1. new = old + d
    BY <1>1, <1>4, Positive
  <2> QED
    BY <2>1, Positive DEF get_delta
<1>5. CASE j = 1
  <2>1. new = old + d - Modulus
    BY <1>1, <1>5, Positive
  <2> QED
    BY <2>1, Positive DEF get_delta
<1> QED
  BY <1>3, <1>4, <1>5

LEMMA DeltaType ==
  ASSUME NEW old \in 0 .. Modulus - 1, NEW new \in 0 .. Modulus - 1
  PROVE  get_delta(Modulus, old, new) \in Nat /\ get_delta(Modulus, old, new) <= Modulus
  BY Positive DEF get_delta

LEMMA Delta64 ==
  ASSUME NEW old \in 0 .. Wide - 1, NEW new \in 0 .. Wide - 1
  PROVE  /\ get_delta64(old, new) \in 0 .. Wide - 1
         /\ \A d \in Nat : new = old + d => get_delta64(old, new) = d
  BY Positive DEF get_delta64

LEMMA MinusIs ==
  ASSUME NEW old \in 0 .. Wide - 1, NEW new \in 0 .. Wide - 1
  PROVE  /\ Minus(new, old) \in 0 .. Wide - 1
         /\ \A d \in Nat : new = old + d => Minus(new, old) = d
<1>1. (new - old) % Wide \in 0 .. Wide - 1
  BY Positive
<1>2. \A d \in Nat : new = old + d => new - old = d /\ d < Wide
  BY Positive
<1>3. \A d \in Nat : d < Wide => d % Wide = d
  BY Positive
<1> QED
  BY <1>1, <1>2, <1>3 DEF Minus

-----------------------------------------------------------------------------
(***************************************************************************)
(* Keys and slots.                                                         *)
(***************************************************************************)
Polled(s) == s.hw \cup s.perf \cup s.resctrl

\* The bandwidth of memory regions has a key for each of them.
ByRegion(s, e) == s.inter = "MMIO" /\ e = "total"

LEMMA SetupIs ==
  ASSUME NEW s \in Setups \cup {NoSetup}
  PROVE  /\ s \in Setup
         /\ s.inter \in {"MSR", "OS", "MMIO"} /\ s.regions \in Seq(Nat)
         /\ s.hw \subseteq HwEvents(s.inter)
         /\ s.hw \cap Pmu # {} => s.event \cap {"miss", "ref", "ipc"} # {}
         /\ s.perf \subseteq PerfEvents(s.inter) \ s.hw
         /\ s.resctrl \subseteq ResctrlEvents(s.inter) \ s.perf
         /\ s.hw \subseteq Counted /\ s.perf \subseteq Counted /\ s.resctrl \subseteq Counted
<1>1. NoSetup \in Setup
  BY DEF NoSetup, Setup
<1>2. s \in Setup
  BY <1>1, ShapeAssumption
<1> QED
  BY <1>2 DEF Setup

LEMMA EventNames ==
  /\ Mbm = {"local", "total"} /\ Telemetry = {"energy", "activity"}
  /\ Gauges = {"l3", "io_l3", "activity"} /\ Pmu = {"miss", "ref", "cyc", "ins"}
  BY DEF Mbm, Telemetry, Gauges, Pmu

\* What the sources of an interface have in common: nothing.
LEMMA Sources ==
  ASSUME NEW s \in Setups \cup {NoSetup}
  PROVE  /\ s.hw \cap s.perf = {} /\ s.hw \cap s.resctrl = {}
         /\ s.perf \cap s.resctrl = {}
         /\ s.resctrl # {} => s.inter = "OS" /\ s.hw = {}
         /\ s.resctrl \subseteq {"l3", "local", "total", "energy", "activity"}
         /\ s.perf \subseteq {"l3", "local", "total", "miss", "ref", "cyc", "ins"}
         /\ s.inter # "OS" => s.perf \subseteq Pmu
         /\ s.inter = "MSR" => s.hw \subseteq {"l3", "local", "total", "pcie"} \cup Pmu
         /\ s.inter = "MMIO" => s.hw \subseteq {"l3", "total", "io_l3", "io_total", "io_miss"} \cup Pmu
         /\ s.inter = "OS" => s.hw = {}
  BY SetupIs DEF HwEvents, PerfEvents, ResctrlEvents, Pmu, Telemetry

LEMMA KeyIs ==
  ASSUME NEW s \in Setups \cup {NoSetup}, NEW k \in Keys(s)
  PROVE  /\ k[1] \in Polled(s)
         /\ ~ByRegion(s, k[1]) => k = Key0(k[1])
         /\ ByRegion(s, k[1]) => k[1] \in s.hw
         /\ ByRegion(s, k[1]) => \E j \in 0 .. Len(s.regions) - 1 : k = KeyOf(s, <<"total", j>>)
<1> USE SetupIs
<1>1. CASE s.inter = "MMIO" /\ "total" \in Polled(s)
  <2>1. k \in ((Polled(s) \ {"total"}) \X {0}) \cup ({"total"} \X Range(s.regions))
    BY <1>1 DEF Keys, Polled
  <2>2. CASE k \in (Polled(s) \ {"total"}) \X {0}
    BY <2>2 DEF ByRegion, Key0
  <2>3. CASE k \in {"total"} \X Range(s.regions)
    <3>1. PICK i \in 1 .. Len(s.regions) : k = <<"total", s.regions[i]>>
      BY <2>3 DEF Range
    <3>2. i - 1 \in 0 .. Len(s.regions) - 1 /\ (i - 1) + 1 = i
      BY <3>1
    <3>3. k = KeyOf(s, <<"total", i - 1>>)
      BY <1>1, <3>1, <3>2 DEF KeyOf
    <3>4. "total" \in s.hw
      BY <1>1, Sources DEF Polled, Pmu
    <3>5. k[1] = "total"
      BY <3>1
    <3>6. \E j \in 0 .. Len(s.regions) - 1 : k = KeyOf(s, <<"total", j>>)
      BY <3>2, <3>3
    <3> QED
      BY <1>1, <3>4, <3>5, <3>6 DEF ByRegion
  <2> QED
    BY <2>1, <2>2, <2>3
<1>2. CASE ~(s.inter = "MMIO" /\ "total" \in Polled(s))
  <2>1. k \in Polled(s) \X {0}
    BY <1>2 DEF Keys, Polled
  <2> QED
    BY <1>2, <2>1 DEF ByRegion, Key0
<1> QED
  BY <1>1, <1>2

LEMMA SlotIs ==
  ASSUME NEW s \in Setups \cup {NoSetup}, NEW slot \in Slots(s)
  PROVE  /\ slot[1] \in Polled(s)
         /\ KeyOf(s, slot) \in Keys(s) /\ KeyOf(s, slot)[1] = slot[1]
         /\ ~ByRegion(s, slot[1]) => slot = Key0(slot[1]) /\ KeyOf(s, slot) = slot
         /\ ByRegion(s, slot[1]) =>
              \E j \in 0 .. Len(s.regions) - 1 : slot = <<"total", j>>
<1> USE SetupIs
<1>1. CASE s.inter = "MMIO" /\ "total" \in Polled(s)
  <2>1. slot \in ((Polled(s) \ {"total"}) \X {0}) \cup ({"total"} \X (0 .. Len(s.regions) - 1))
    BY <1>1 DEF Slots, Polled
  <2>2. CASE slot \in (Polled(s) \ {"total"}) \X {0}
    BY <1>1, <2>2 DEF ByRegion, Key0, KeyOf, Keys, Polled
  <2>3. CASE slot \in {"total"} \X (0 .. Len(s.regions) - 1)
    <3>1. PICK j \in 0 .. Len(s.regions) - 1 : slot = <<"total", j>>
      BY <2>3
    <3>2. s.regions[j + 1] \in Range(s.regions)
      BY <3>1 DEF Range
    <3>3. KeyOf(s, slot) = <<"total", s.regions[j + 1]>>
      BY <1>1, <3>1 DEF KeyOf
    <3>4. KeyOf(s, slot) \in Keys(s)
      BY <1>1, <3>2, <3>3 DEF Keys, Polled
    <3> QED
      BY <1>1, <3>1, <3>3, <3>4 DEF ByRegion
  <2> QED
    BY <2>1, <2>2, <2>3
<1>2. CASE ~(s.inter = "MMIO" /\ "total" \in Polled(s))
  <2>1. slot \in Polled(s) \X {0}
    BY <1>2 DEF Slots, Polled
  <2> QED
    BY <1>2, <2>1 DEF ByRegion, Key0, KeyOf, Keys, Polled
<1> QED
  BY <1>1, <1>2

\* An event that is not counted by region has one key, which is its slot.
LEMMA OneKey ==
  ASSUME NEW s \in Setups \cup {NoSetup}, NEW e \in Polled(s), ~ByRegion(s, e)
  PROVE  /\ Key0(e) \in Keys(s) /\ Key0(e) \in Slots(s) /\ Key0(e)[1] = e
         /\ KeyOf(s, Key0(e)) = Key0(e)
         /\ \A k \in Keys(s) : k[1] = e => k = Key0(e)
         /\ \A slot \in Slots(s) : slot[1] = e => slot = Key0(e)
<1>1. Key0(e) \in Keys(s) /\ Key0(e) \in Slots(s) /\ Key0(e)[1] = e
  BY DEF Keys, Slots, Polled, ByRegion, Key0
<1>2. KeyOf(s, Key0(e)) = Key0(e)
  BY DEF KeyOf, ByRegion, Key0
<1> QED
  BY <1>1, <1>2, KeyIs, SlotIs

\* Where the memory regions are counted.
LEMMA RegionKeys ==
  ASSUME NEW s \in Setups \cup {NoSetup}, "total" \in Polled(s), ByRegion(s, "total")
  PROVE  \A j \in 0 .. Len(s.regions) - 1 :
           /\ <<"total", j>> \in Slots(s)
           /\ KeyOf(s, <<"total", j>>) \in Keys(s) /\ KeyOf(s, <<"total", j>>)[1] = "total"
<1> SUFFICES ASSUME NEW j \in 0 .. Len(s.regions) - 1 PROVE <<"total", j>> \in Slots(s)
  BY SlotIs
<1> QED
  BY DEF Slots, Polled, ByRegion

-----------------------------------------------------------------------------
(***************************************************************************)
(* The invariant.                                                          *)
(***************************************************************************)
\* Counters of the MSRs go round; the values kept are their contents.
Cyclic(k) == setup.inter = "MSR" /\ k[1] \in Mbm

Classic(s, k) == k[1] \in s.resctrl \ Telemetry

Energy == Key0("energy")

\* What a counter holds is never more than the work that was done and what it
\* held when the group took it.
Bounded ==
  phase # "off" =>
    \A k \in Keys(setup) :
      /\ ~Cyclic(k) => SumOf(cnt[k]) <= spent.traffic + OldContent
      /\ k[1] \in setup.resctrl \cap Mbm /\ spoilt[k] = {} =>
           SumOf(cnt[k]) + grp.store[k[1]] <= spent.traffic

\* The cores are in a directory of the group, and only its directories count.
DirsCover(f, c) ==
  /\ f.tag # 0 => f.tag \in f.dirs
  /\ \A k \in Keys(setup), u \in Unit : k[1] \in setup.resctrl /\ u \notin f.dirs => c[k][u] = 0

Dirs == phase # "off" => DirsCover(fs, cnt)

\* The flags of the group g of setup s say which keys have no earlier reading.
Unbased(s, g, k) ==
  CASE Classic(s, k) -> k[1] \notin g.valid
    [] k = Energy /\ k[1] \in s.resctrl -> g.ts = 0
    [] k[1] \in s.hw \cap {"io_total", "io_miss"} -> k[1] \notin g.ioRead
    [] k[1] \in s.hw \cap Mbm -> ~g.mbmRead
    [] OTHER -> FALSE

Flagged(g, keys) == \A k \in Keys(setup) : k[1] \notin Gauges => (k \in keys <=> Unbased(setup, g, k))

RegionsRead(g, keys) == setup.inter = "MMIO" => \A k \in keys : k[1] = "total" => g.mbmRead

Flags == phase # "off" => Flagged(grp, gap) /\ RegionsRead(grp, fresh)

\* What g keeps at a slot, and n counted since it was stored, make up what the
\* units hold in c.
Balanced(g, c, n, slot) ==
  LET e == slot[1]
  IN  /\ Cyclic(slot) => \E i \in Int : SumOf(c) = g.val[slot] + n + i * Modulus
      /\ ~Cyclic(slot) /\ e \in setup.resctrl \cap Mbm => SumOf(c) + g.store[e] = g.val[slot] + n
      /\ e = "energy" => SumOf(c) = g.tel["energy"].current + n
      /\ ~Cyclic(slot) /\ e \notin (setup.resctrl \cap Mbm) \cup {"energy"} =>
           Worth(e) * SumOf(c) = g.val[slot] + Worth(e) * n

\* A gauge has no balance; a counter of the MSRs has one as soon as it has
\* been read, others when the caller has not been told otherwise.
Balance ==
  phase # "off" =>
    \A slot \in Slots(setup) :
      LET k == KeyOf(setup, slot)
      IN  /\ slot[1] \notin Gauges /\ spoilt[k] = {}
          /\ k \notin gap \/ (Cyclic(k) /\ k \in fresh)
          => Balanced(grp, cnt[k], since[k], slot)

\* The narrow counters are read before they have gone round.
NarrowValues(g) == \A slot \in Slots(setup) : Cyclic(slot) => g.val[slot] < Modulus

NarrowCounters(c) ==
  \A k \in Keys(setup), u \in Unit :
    k[1] \in setup.hw \cap (Pmu \cup {"pcie"}) => c[k][u] < PmuModulus

Narrow ==
  phase # "off" =>
    /\ NarrowValues(grp) /\ NarrowCounters(cnt)
    /\ \A k \in Keys(setup) : Cyclic(k) => since[k] < Modulus

\* A poll that has left an event behind has read it or marked it.
Processed ==
  phase = "poll" =>
    /\ todo \subseteq Polled(setup)
    /\ \A k \in Keys(setup) : k[1] \in todo \/ k \in fresh \/ ~pqos_mon_event_valid(k[1])

\* Two readings of energy, and what was counted between them.
EnergyRight ==
  LET slot == grp.tel["energy"]
  IN  phase # "off" =>
        /\ slot.valid => "energy" \in setup.resctrl
        /\ grp.power.valid => "energy" \in setup.resctrl /\ "power" \in setup.event
        /\ "energy" \in setup.resctrl /\ spoilt[Energy] = {} /\ grp.prev # 0 =>
             slot.current - slot.previous = exact[Energy]

\* What every state satisfies, and every step preserves.
PollInv ==
  /\ PollTypeOK /\ Bounded /\ Dirs /\ Flags /\ Balance /\ Narrow /\ Processed
  /\ FreshOrFlagged /\ EnergyRight /\ PowerExact /\ CountersRun /\ DeltaExact

-----------------------------------------------------------------------------
(***************************************************************************)
(* Which flag is whose.                                                    *)
(***************************************************************************)
LEMMA FlagOf ==
  ASSUME NEW s \in Setups \cup {NoSetup}, NEW k \in Keys(s), k[1] \notin Gauges, NEW g
  PROVE  \/ k[1] \in s.resctrl \cap Mbm /\ (Unbased(s, g, k) <=> k[1] \notin g.valid)
         \/ k[1] \in s.resctrl /\ k[1] = "energy" /\ k = Energy /\ (Unbased(s, g, k) <=> g.ts = 0)
         \/ k[1] \in s.hw \cap {"io_total", "io_miss"} /\ (Unbased(s, g, k) <=> k[1] \notin g.ioRead)
         \/ k[1] \in s.hw \cap Mbm /\ (Unbased(s, g, k) <=> ~g.mbmRead)
         \/ k[1] \in (s.hw \cap (Pmu \cup {"pcie"})) \cup s.perf /\ ~Unbased(s, g, k)
<1>1. k[1] \in Polled(s) /\ (~ByRegion(s, k[1]) => k = Key0(k[1]))
  BY KeyIs
<1>2. CASE k[1] \in s.resctrl
  <2>1. k[1] \in {"local", "total", "energy"} /\ ~ByRegion(s, k[1])
    BY <1>2, Sources, EventNames DEF ByRegion
  <2>2. CASE k[1] = "energy"
    <3>1. k = Energy /\ ~Classic(s, k)
      BY <1>1, <2>1, <2>2, EventNames DEF Energy, Classic
    <3> QED
      BY <1>2, <2>2, <3>1 DEF Unbased
  <2>3. CASE k[1] \in {"local", "total"}
    <3>1. k # Energy /\ Classic(s, k) /\ k[1] \notin s.hw
      BY <1>2, <2>3, Sources, EventNames DEF Energy, Key0, Classic
    <3>2. Unbased(s, g, k) <=> k[1] \notin g.valid
      BY <3>1 DEF Unbased
    <3> QED
      BY <1>2, <2>3, <3>2, EventNames
  <2> QED
    BY <2>1, <2>2, <2>3
<1>3. CASE k[1] \in s.hw
  <2>1. k[1] \in {"local", "total", "pcie", "io_total", "io_miss"} \cup Pmu /\ k[1] \notin s.resctrl
    BY <1>3, Sources, SetupIs, EventNames
  <2>2. ~Classic(s, k) /\ k[1] \notin s.resctrl
    BY <2>1 DEF Classic
  <2>3. CASE k[1] \in {"io_total", "io_miss"}
    <3>1. Unbased(s, g, k) <=> k[1] \notin g.ioRead
      BY <1>3, <2>2, <2>3, EventNames DEF Unbased
    <3> QED BY <1>3, <2>3, <3>1
  <2>4. CASE k[1] \in {"local", "total"}
    <3>1. Unbased(s, g, k) <=> ~g.mbmRead
      BY <1>3, <2>2, <2>4, EventNames DEF Unbased
    <3> QED BY <1>3, <2>4, <3>1, EventNames
  <2>5. CASE k[1] \in {"pcie"} \cup Pmu
    <3>1. ~Unbased(s, g, k)
      BY <1>3, <2>2, <2>5, EventNames DEF Unbased
    <3> QED BY <1>3, <2>5, <3>1
  <2> QED
    BY <2>1, <2>3, <2>4, <2>5
<1>4. CASE k[1] \in s.perf
  <2>1. k[1] \notin s.resctrl /\ k[1] \notin s.hw
    BY <1>4, Sources
  <2> QED
    BY <1>4, <2>1 DEF Unbased, Classic
<1> QED
  BY <1>1, <1>2, <1>3, <1>4 DEF Polled

-----------------------------------------------------------------------------
(***************************************************************************)
(* The initial state and a stuttering step.                                *)
(***************************************************************************)
\* What the group holds when it starts.
LEMMA FreshIs ==
  ASSUME NEW s \in Setups \cup {NoSetup}
  PROVE  /\ Fresh(s) \in Group(s)
         /\ \A slot \in Slots(s) : Fresh(s).val[slot] = 0 /\ Fresh(s).dlt[slot] = 0
         /\ \A e \in Mbm : Fresh(s).store[e] = 0
         /\ Fresh(s).tel["energy"].valid = FALSE /\ Fresh(s).tel["energy"].current = 0
         /\ Fresh(s).power.valid = FALSE /\ Fresh(s).valid = {} /\ Fresh(s).ioRead = {}
         /\ Fresh(s).mbmRead = FALSE /\ Fresh(s).ts = 0 /\ Fresh(s).prev = 0
<1>1. 0 \in 0 .. Wide - 1
  BY Fits, Positive
<1> QED
  BY <1>1 DEF Fresh, Group, Mbm, Telemetry

LEMMA InitInv ==
  ASSUME PollInit
  PROVE  PollInv
<1> USE DEF PollInit
<1>1. Keys(NoSetup) = {} /\ Slots(NoSetup) = {}
  BY DEF NoSetup, Keys, Slots
<1>2. PollTypeOK
  <2>1. grp \in Group(setup)
    BY FreshIs
  <2>2. cnt \in [Keys(setup) -> [Unit -> Nat]] /\ since \in [Keys(setup) -> Nat] /\ exact \in [Keys(setup) -> Nat]
        /\ spoilt \in [Keys(setup) -> SUBSET {"foreign", "overflow", "twice", "unread", "wrap"}]
    BY <1>1
  <2>3. 1 \in Unit
    BY ShapeAssumption, FS_EmptySet, FS_CardinalityType
  <2> QED
    BY <2>1, <2>2, <2>3, BoundAssumption DEF PollTypeOK
<1>3. EnergyRight /\ PowerExact /\ CountersRun
  BY FreshIs DEF EnergyRight, PowerExact, CountersRun, NoSetup, pqos_mon_get_tel_value
<1> QED
  BY <1>2, <1>3 DEF PollInv, Bounded, Dirs, Flags, Balance, Narrow, Processed, FreshOrFlagged, DeltaExact

LEMMA StutterInv ==
  ASSUME PollInv, UNCHANGED pollVars
  PROVE  PollInv'
<1> USE DEF pollVars, PollInv
<1>1. PollTypeOK'
  BY DEF PollTypeOK
<1>2. Bounded' /\ Dirs' /\ Flags'
  BY DEF Bounded, Cyclic, Dirs, DirsCover, Flags, Flagged, Unbased, Classic, RegionsRead
<1>3. Balance' /\ Narrow'
  BY DEF Balance, Balanced, Cyclic, Worth, Narrow, NarrowValues, NarrowCounters
<1>4. Processed' /\ FreshOrFlagged'
  BY DEF Processed, FreshOrFlagged, pqos_mon_event_valid
<1>5. EnergyRight' /\ PowerExact' /\ CountersRun' /\ DeltaExact'
  BY DEF EnergyRight, PowerExact, CountersRun, DeltaExact, Worth, pqos_mon_get_value, pqos_mon_get_tel_value
<1> QED
  BY <1>1, <1>2, <1>3, <1>4, <1>5

\* What is said of the values of a group that is monitored.
ValuesInv == Bounded /\ Flags /\ Balance /\ Narrow /\ EnergyRight /\ DeltaExact

\* A step that neither counts nor reads leaves the values right.
LEMMA QuietStep ==
  ASSUME PollInv, phase # "off", UNCHANGED <<setup, grp, cnt, since, exact, gap, spoilt>>,
         spent'.traffic = spent.traffic, fresh' = fresh \/ fresh' = {}
  PROVE  ValuesInv'
<1> USE DEF PollInv
<1>1. Bounded' /\ Flags'
  BY DEF Bounded, Cyclic, Flags, Flagged, Unbased, Classic, RegionsRead
<1>2. Balance' /\ Narrow'
  BY DEF Balance, Balanced, Cyclic, Worth, Narrow, NarrowValues, NarrowCounters
<1>3. EnergyRight' /\ DeltaExact'
  BY DEF EnergyRight, DeltaExact, Worth, pqos_mon_get_value
<1> QED
  BY <1>1, <1>2, <1>3 DEF ValuesInv

-----------------------------------------------------------------------------
(***************************************************************************)
(* Starting and stopping a group, and the steps around a poll.             *)
(***************************************************************************)
LEMMA ReassociatedInv ==
  ASSUME PollInv, NEW u \in Unit, Reassociated(u)
  PROVE  PollInv'
<1> USE DEF Reassociated
<1>1. ValuesInv'
  <2>1. spent'.traffic = spent.traffic
    BY DEF PollInv, PollTypeOK
  <2> QED BY <2>1, QuietStep
<1>2. PollTypeOK'
  <2>1. fs' \in [dirs : SUBSET Unit, tag : Unit \cup {0}, at : Unit]
    BY DEF PollInv, PollTypeOK
  <2>2. spent' \in [traffic : 0 .. MaxTraffic, polls : 0 .. MaxPolls, starts : 0 .. MaxStarts, moves : 0 .. MaxMoves]
    BY BoundAssumption DEF PollInv, PollTypeOK
  <2> QED BY <2>1, <2>2 DEF PollInv, PollTypeOK
<1>3. Dirs'
  <2>1. fs'.tag = 0 /\ fs'.dirs = fs.dirs
    BY DEF PollInv, PollTypeOK
  <2> QED BY <2>1 DEF PollInv, Dirs, DirsCover
<1>4. Processed' /\ FreshOrFlagged'
  BY DEF PollInv, Processed, FreshOrFlagged, pqos_mon_event_valid
<1>5. PowerExact' /\ CountersRun'
  BY DEF PollInv, PowerExact, CountersRun, pqos_mon_get_tel_value
<1> QED
  BY <1>1, <1>2, <1>3, <1>4, <1>5 DEF PollInv, ValuesInv

LEMMA PollStartInv ==
  ASSUME PollInv, pqos_mon_poll
  PROVE  PollInv'
<1> USE DEF pqos_mon_poll
<1>1. ValuesInv'
  <2>1. spent'.traffic = spent.traffic
    BY DEF PollInv, PollTypeOK
  <2> QED BY <2>1, QuietStep
<1>2. PollTypeOK'
  <2>1. spent' \in [traffic : 0 .. MaxTraffic, polls : 0 .. MaxPolls, starts : 0 .. MaxStarts, moves : 0 .. MaxMoves]
    BY BoundAssumption DEF PollInv, PollTypeOK
  <2>2. setup.hw \cup setup.perf \cup setup.resctrl \subseteq Counted
    BY SetupIs DEF PollInv, PollTypeOK
  <2> QED BY <2>1, <2>2 DEF PollInv, PollTypeOK
<1>3. Dirs' /\ FreshOrFlagged' /\ PowerExact' /\ CountersRun'
  BY DEF PollInv, Dirs, DirsCover, FreshOrFlagged, PowerExact, CountersRun
<1>4. Processed'
  BY KeyIs DEF PollInv, PollTypeOK, Processed, Polled
<1> QED
  BY <1>1, <1>2, <1>3, <1>4 DEF PollInv, ValuesInv

LEMMA PollBusyInv ==
  ASSUME PollInv, pqos_mon_poll_busy
  PROVE  PollInv'
<1> USE DEF pqos_mon_poll_busy
<1>1. ValuesInv'
  <2>1. spent'.traffic = spent.traffic
    BY DEF PollInv, PollTypeOK
  <2> QED BY <2>1, QuietStep
<1>2. PollTypeOK'
  <2>1. spent' \in [traffic : 0 .. MaxTraffic, polls : 0 .. MaxPolls, starts : 0 .. MaxStarts, moves : 0 .. MaxMoves]
    <3>1. spent.polls + 1 \in 0 .. MaxPolls /\ spent.moves + 1 \in 0 .. MaxMoves
      BY BoundAssumption DEF PollInv, PollTypeOK, Can
    <3> QED BY <3>1 DEF PollInv, PollTypeOK
  <2> QED BY <2>1 DEF PollInv, PollTypeOK
<1>3. Dirs' /\ Processed' /\ FreshOrFlagged' /\ PowerExact' /\ CountersRun'
  BY DEF PollInv, Dirs, DirsCover, Processed, FreshOrFlagged, PowerExact, CountersRun
<1> QED
  BY <1>1, <1>2, <1>3 DEF PollInv, ValuesInv

LEMMA StopInv ==
  ASSUME PollInv, mon_stop
  PROVE  PollInv'
<1> USE DEF mon_stop
<1>1. PollTypeOK'
  <2>1. grp' \in Group(setup')
    BY FreshIs DEF PollInv, PollTypeOK
  <2>2. fs' \in [dirs : SUBSET Unit, tag : Unit \cup {0}, at : Unit]
    BY DEF PollInv, PollTypeOK
  <2>3. runs' \in [Pmu \cup {"pcie"} -> SUBSET Unit]
    BY DEF PollInv, PollTypeOK, mon_stop_perf
  <2> QED BY <2>1, <2>2, <2>3 DEF PollInv, PollTypeOK
<1>2. CountersRun'
  <2>1. setup.hw \cap Pmu # {} => setup.event \cap {"miss", "ref", "ipc"} # {}
    BY SetupIs DEF PollInv, PollTypeOK
  <2> QED BY <2>1 DEF CountersRun, mon_stop_perf
<1>3. Bounded' /\ Dirs' /\ Flags' /\ Balance' /\ Narrow' /\ Processed' /\ FreshOrFlagged' /\ EnergyRight'
      /\ PowerExact' /\ DeltaExact'
  BY DEF Bounded, Dirs, Flags, Balance, Narrow, Processed, FreshOrFlagged, EnergyRight, PowerExact, DeltaExact
<1> QED
  BY <1>1, <1>2, <1>3 DEF PollInv

\* mon_start() hands over counters that have not been read.
LEMMA HandedIs ==
  ASSUME NEW s \in Setups \cup {NoSetup}, NEW boot \in Boot, NEW held \in Held
  PROVE  /\ Handed(s, boot, held) \in [Keys(s) -> [Unit -> Nat]]
         /\ Unread(s, held) \in [Keys(s) -> Nat]
         /\ \A k \in Keys(s) : ~(s.inter = "MSR" /\ k[1] \in Mbm) =>
              SumOf(Handed(s, boot, held)[k]) = Unread(s, held)[k] /\ Unread(s, held)[k] <= OldContent
         /\ \A k \in Keys(s) : k[1] \notin s.hw \cap Fixed => Unread(s, held)[k] = 0
         /\ \A k \in Keys(s), u \in Unit :
              ~(s.inter = "MSR" /\ k[1] \in Mbm) /\ k[1] \notin s.hw \cap Fixed => Handed(s, boot, held)[k][u] = 0
         /\ \A k \in Keys(s), u \in Unit :
              ~(s.inter = "MSR" /\ k[1] \in Mbm) => Handed(s, boot, held)[k][u] < PmuModulus
<1> DEFINE h == Handed(s, boot, held)
           r == Unread(s, held)
           flat == [u \in Unit |-> held]
<1>1. boot \in Nat /\ held \in Nat /\ held < PmuModulus /\ flat \in [Unit -> Nat]
  BY WidthAssumption
<1>2. h \in [Keys(s) -> [Unit -> Nat]]
  BY <1>1 DEF Handed
<1>3. SumOf(flat) = Cardinality(Unit) * held /\ SumOf(flat) \in Nat
  BY <1>1, SumConst, SumType
<1>4. SumOf(flat) <= OldContent
  <2>1. Cardinality(Unit) \in Nat
    BY ShapeAssumption, FS_CardinalityType
  <2>2. \A a, b, c \in Nat : a < b => c * a <= c * b
    OBVIOUS
  <2> QED BY <1>1, <1>3, <2>1, <2>2, Positive DEF OldContent
<1>5. r \in [Keys(s) -> Nat]
  BY <1>3 DEF Unread
<1>6. ASSUME NEW k \in Keys(s), ~(s.inter = "MSR" /\ k[1] \in Mbm), k[1] \in s.hw \cap Fixed
      PROVE  h[k] = flat /\ r[k] = SumOf(flat)
  BY <1>6 DEF Handed, Unread
<1>7. ASSUME NEW k \in Keys(s), k[1] \notin s.hw \cap Fixed
      PROVE  r[k] = 0
  BY <1>7 DEF Unread
<1>8. ASSUME NEW k \in Keys(s), ~(s.inter = "MSR" /\ k[1] \in Mbm), k[1] \notin s.hw \cap Fixed
      PROVE  (\A u \in Unit : h[k][u] = 0) /\ h[k] \in [Unit -> Nat]
  BY <1>2, <1>8 DEF Handed
<1> HIDE DEF h, r, flat
<1>9. ASSUME NEW k \in Keys(s), ~(s.inter = "MSR" /\ k[1] \in Mbm)
      PROVE  SumOf(h[k]) = r[k] /\ r[k] <= OldContent /\ \A u \in Unit : h[k][u] < PmuModulus
  <2>1. CASE k[1] \in s.hw \cap Fixed
    <3>1. h[k] = flat /\ r[k] = SumOf(flat)
      BY <1>6, <1>9, <2>1
    <3> QED BY <1>1, <1>4, <3>1 DEF flat
  <2>2. CASE k[1] \notin s.hw \cap Fixed
    <3>1. SumOf(h[k]) = 0 /\ r[k] = 0
      BY <1>7, <1>8, <1>9, <2>2, SumZero
    <3> QED BY <1>8, <1>9, <2>2, <3>1, Fits, Positive
  <2> QED BY <2>1, <2>2
<1> QED
  BY <1>2, <1>5, <1>7, <1>8, <1>9 DEF h, r

LEMMA StartInv ==
  ASSUME PollInv, NEW s \in Setups, NEW boot \in Boot, NEW held \in Held, NEW on \in BOOLEAN,
         NEW last \in Unit \cup {NoStop}, mon_start(s, boot, held, on, last)
  PROVE  PollInv'
<1> DEFINE failed == \/ s.hw \cap (Pmu \ Fixed) # {} /\ last # NoStop
                     \/ uncore_mon_start_ret(s.hw, last) # "OK"
<1>0. s \in Setups \cup {NoSetup}
  OBVIOUS
<1>1. /\ setup' = s /\ grp' = Fresh(s) /\ cnt' = Handed(s, boot, held) /\ todo' = {} /\ fresh' = {}
      /\ phase' = (IF failed THEN "off" ELSE "on") /\ ret' = (IF failed THEN "ERROR" ELSE "none")
      /\ since' = Unread(s, held) /\ exact' = [k \in Keys(s) |-> 0]
      /\ spoilt' = [k \in Keys(s) |-> {}]
      /\ gap' = {k \in Keys(s) : k[1] \in s.resctrl \/ (k[1] \notin Pmu \cup {"pcie"} /\ k[1] \in s.hw)}
      /\ runs' = uncore_mon_start(ia32_perf_counter_start(Found(s, on), s.hw \cap Pmu, last), s.hw, last)
      /\ fs' = [fs EXCEPT !.dirs = IF s.resctrl = {} THEN {} ELSE {fs.at},
                          !.tag = IF s.resctrl = {} THEN 0 ELSE fs.at]
  BY DEF mon_start
<1>2. \A k \in Keys(s) : spoilt'[k] = {} /\ exact'[k] = 0
  BY <1>1
<1>3. setup' \in Setups \cup {NoSetup}
  BY <1>1
<1> HIDE DEF failed
<1>4. PollTypeOK'
  <2>1. grp' \in Group(setup')
    BY <1>0, <1>1, FreshIs
  <2>2. cnt' \in [Keys(s) -> [Unit -> Nat]] /\ since' \in [Keys(s) -> Nat] /\ exact' \in [Keys(s) -> Nat]
        /\ spoilt' \in [Keys(s) -> SUBSET {"foreign", "overflow", "twice", "unread", "wrap"}]
    BY <1>0, <1>1, HandedIs
  <2>3. runs' \in [Pmu \cup {"pcie"} -> SUBSET Unit]
    <3>1. Found(s, on) \in [Pmu \cup {"pcie"} -> SUBSET Unit]
      BY DEF PollInv, PollTypeOK, Found
    <3>2. ia32_perf_counter_start(Found(s, on), s.hw \cap Pmu, last) \in [Pmu \cup {"pcie"} -> SUBSET Unit]
      BY <3>1 DEF ia32_perf_counter_start
    <3> QED BY <1>1, <3>2 DEF uncore_mon_start
  <2>4. fs' \in [dirs : SUBSET Unit, tag : Unit \cup {0}, at : Unit]
    BY <1>1 DEF PollInv, PollTypeOK
  <2>5. spent' \in [traffic : 0 .. MaxTraffic, polls : 0 .. MaxPolls, starts : 0 .. MaxStarts, moves : 0 .. MaxMoves]
    <3>1. spent.starts + 1 \in 0 .. MaxStarts /\ (last # NoStop => spent.moves + 1 \in 0 .. MaxMoves)
      BY BoundAssumption DEF PollInv, PollTypeOK, mon_start, Can
    <3>2. spent' = [spent EXCEPT !.starts = @ + 1, !.moves = IF last = NoStop THEN @ ELSE @ + 1]
      BY DEF mon_start
    <3>3. spent \in [traffic : 0 .. MaxTraffic, polls : 0 .. MaxPolls, starts : 0 .. MaxStarts, moves : 0 .. MaxMoves]
      BY DEF PollInv, PollTypeOK
    <3> QED BY <3>1, <3>2, <3>3
  <2>6. gap' \subseteq Keys(s) /\ phase' \in {"off", "on", "poll"} /\ ret' \in {"ERROR", "none"}
    BY <1>1
  <2> QED
    BY <1>1, <2>1, <2>2, <2>3, <2>4, <2>5, <2>6 DEF PollTypeOK
<1>5. \A k \in Keys(s) : k[1] \in s.resctrl => s.inter = "OS"
  BY <1>1, <1>3, Sources DEF PollTypeOK
<1>6. (Bounded /\ Dirs)'
  <2>1. spent'.traffic \in Nat
    BY <1>4, BoundAssumption DEF PollTypeOK
  <2>2. Bounded'
    <3> SUFFICES ASSUME NEW k \in Keys(s)
                 PROVE  /\ ~(s.inter = "MSR" /\ k[1] \in Mbm) => SumOf(cnt'[k]) <= spent'.traffic + OldContent
                        /\ k[1] \in s.resctrl \cap Mbm => SumOf(cnt'[k]) + grp'.store[k[1]] <= spent'.traffic
      BY <1>1 DEF Bounded, Cyclic
    <3>1. ~(s.inter = "MSR" /\ k[1] \in Mbm) => SumOf(cnt'[k]) = since'[k] /\ since'[k] <= OldContent /\ since'[k] \in Nat
      BY <1>0, <1>1, HandedIs
    <3>2. k[1] \in s.resctrl \cap Mbm => grp'.store[k[1]] = 0 /\ s.inter # "MSR" /\ since'[k] = 0
      <4>1. k[1] \in s.resctrl => k[1] \notin s.hw
        BY <1>0, Sources
      <4>2. k[1] \in s.resctrl => since'[k] = 0
        BY <1>0, <1>1, <4>1, HandedIs
      <4> QED
        BY <1>0, <1>1, <1>5, <4>2, FreshIs
    <3> QED
      BY <2>1, <3>1, <3>2, Fits
  <2>3. \A k \in Keys(s), u \in Unit : k[1] \in s.resctrl => cnt'[k][u] = 0
    BY <1>0, <1>1, <1>5, HandedIs, Sources
  <2>4. fs'.tag # 0 => fs'.tag \in fs'.dirs
    BY <1>1 DEF PollInv, PollTypeOK
  <2> QED
    BY <1>1, <2>2, <2>3, <2>4 DEF Dirs, DirsCover
<1>7. Flags'
  <2>1. grp'.valid = {} /\ grp'.ioRead = {} /\ grp'.mbmRead = FALSE /\ grp'.ts = 0
    BY <1>0, <1>1, FreshIs
  <2>2. ASSUME NEW k \in Keys(s), k[1] \notin Gauges
        PROVE  k \in gap' <=> Unbased(s, grp', k)
    <3>1. s.hw \cap s.perf = {} /\ s.perf \cap s.resctrl = {} /\ s.hw \cap s.resctrl = {}
      BY <1>0, Sources
    <3> QED
      BY <1>0, <1>1, <2>1, <2>2, <3>1, FlagOf, EventNames
  <2> QED
    BY <1>1, <2>1, <2>2 DEF Flags, Flagged, RegionsRead
<1>8. Balance'
  <2> SUFFICES ASSUME NEW slot \in Slots(s), slot[1] \notin Gauges, KeyOf(s, slot) \notin gap'
               PROVE  Balanced(grp, cnt[KeyOf(setup, slot)], since[KeyOf(setup, slot)], slot)'
    BY <1>1 DEF Balance
  <2> DEFINE k == KeyOf(s, slot)
  <2>1. k \in Keys(s) /\ k[1] = slot[1] /\ k[1] \in Polled(s)
    BY <1>1, <1>3, SlotIs
  <2>2. k[1] \notin s.resctrl /\ ~(s.inter = "MSR" /\ k[1] \in Mbm)
    BY <1>1, <1>3, <2>1, Sources, EventNames DEF Polled
  <2>3. slot[1] # "energy"
    BY <1>1, <1>3, <2>1, <2>2, Sources DEF Polled, Pmu
  <2>4. SumOf(cnt'[k]) = since'[k] /\ since'[k] \in Nat /\ grp'.val[slot] = 0
    <3>1. SumOf(cnt'[k]) = since'[k] /\ since'[k] \in Nat
      <4> HIDE DEF k
      <4> QED BY <1>0, <1>1, <2>1, <2>2, HandedIs
    <3>2. grp'.val[slot] = 0
      BY <1>0, <1>1, FreshIs
    <3> QED BY <3>1, <3>2
  <2>5. Worth(slot[1])' \in Nat
    BY Positive DEF Worth
  <2>6. \A x \in Nat : Worth(slot[1])' * x = 0 + Worth(slot[1])' * x
    BY <2>5
  <2> HIDE DEF k
  <2>7. ~Cyclic(slot)'
    BY <1>1, <2>1, <2>2 DEF Cyclic
  <2>8. Worth(slot[1])' * SumOf(cnt'[k]) = grp'.val[slot] + Worth(slot[1])' * since'[k]
    BY <2>4, <2>6
  <2>9. k = KeyOf(setup, slot)'
    BY <1>1 DEF k
  <2> QED
    BY <1>1, <2>1, <2>2, <2>3, <2>7, <2>8, <2>9 DEF Balanced
<1>9. Narrow'
  <2>1. \A k \in Keys(s), u \in Unit :
          k[1] \in s.hw \cap (Pmu \cup {"pcie"}) => cnt'[k][u] < PmuModulus
    BY <1>0, <1>1, HandedIs, EventNames
  <2>2. \A k \in Keys(s) : k[1] \in Mbm => since'[k] = 0
    BY <1>0, <1>1, HandedIs, EventNames DEF Fixed
  <2> QED
    BY <1>0, <1>1, <2>1, <2>2, FreshIs, Positive DEF Narrow, NarrowValues, NarrowCounters, Cyclic
<1>10. (Processed /\ FreshOrFlagged /\ EnergyRight /\ PowerExact)'
  BY <1>0, <1>1, FreshIs DEF Processed, FreshOrFlagged, EnergyRight, PowerExact
<1>11. CountersRun'
  <2> SUFFICES ASSUME NEW e \in s.hw \cap ((Pmu \ Fixed) \cup {"pcie"}), ~failed
               PROVE  runs'[e] = Unit \/ (e = "pcie" /\ Cardinality(Unit) \in runs'[e])
    BY <1>1 DEF CountersRun
  <2>1. Unit = 1 .. Cardinality(Unit) /\ Cardinality(Unit) \in Nat /\ Cardinality(Unit) \in Unit
    BY ShapeAssumption, FS_CardinalityType, FS_EmptySet
  <2>2. Found(s, on) \in [Pmu \cup {"pcie"} -> SUBSET Unit]
    BY DEF PollInv, PollTypeOK, Found
  <2>3. CASE e \in Pmu \ Fixed
    <3>1. last = NoStop /\ e # "pcie"
      BY <2>3 DEF failed, Pmu
    <3>2. {u \in Unit : u < last} = Unit /\ last \notin Unit
      BY <2>1, <3>1 DEF NoStop
    <3>3. runs'[e] = (Found(s, on)[e] \ {last}) \cup {u \in Unit : u < last}
      BY <1>1, <2>2, <2>3, <3>1 DEF uncore_mon_start, ia32_perf_counter_start
    <3> QED
      BY <2>2, <2>3, <3>2, <3>3
  <2>4. CASE e = "pcie"
    <3>1. runs'[e] = Unit \ {last}
      BY <1>1, <2>2, <2>4 DEF uncore_mon_start, ia32_perf_counter_start
    <3>2. last # Cardinality(Unit)
      BY <2>4 DEF failed, uncore_mon_start_ret
    <3> QED
      BY <2>1, <2>4, <3>1, <3>2
  <2> QED
    BY <2>3, <2>4
<1>12. DeltaExact'
  <2>1. grp'.dlt \in [Slots(s) -> 0 .. Wide - 1]
    BY <1>1, <1>4 DEF PollTypeOK, Group
  <2>2. \A slot \in Slots(s) : Worth(slot[1])' \in Nat /\ 0 * Worth(slot[1])' = 0
    BY Positive DEF Worth
  <2>3. \A slot \in Slots(s) : KeyOf(s, slot) \in Keys(s) /\ grp'.dlt[slot] = 0
    BY <1>0, <1>1, <1>3, SlotIs, FreshIs
  <2> QED
    BY <1>1, <1>2, <2>1, <2>2, <2>3 DEF DeltaExact, pqos_mon_get_value
<1> QED
  BY <1>4, <1>6, <1>7, <1>8, <1>9, <1>10, <1>11, <1>12 DEF PollInv

\* pqos_mon_poll_done(): every event has been read or marked.
LEMMA DoneInv ==
  ASSUME PollInv, pqos_mon_poll_done
  PROVE  PollInv'
<1>1. /\ phase = "poll" /\ todo = {} /\ phase' = "on" /\ ret' = "OK"
      /\ gap' = gap \ {k \in fresh : setup.inter = "MSR" /\ k[1] \in Mbm}
      /\ UNCHANGED <<setup, cnt, runs, fs, todo, since, exact, fresh, spoilt, spent>>
  BY DEF pqos_mon_poll_done
<1>2. PollTypeOK /\ setup \in Setups \cup {NoSetup} /\ grp \in Group(setup)
  BY DEF PollInv, PollTypeOK
<1>3. power \in [valid : BOOLEAN, energy : Int, time : Int]
  <2>1. /\ grp.tel["energy"].valid \in BOOLEAN /\ grp.tel["energy"].current \in Nat /\ grp.tel["energy"].previous \in Nat
        /\ grp.ts \in Nat /\ grp.prev \in Nat /\ grp.power \in [valid : BOOLEAN, energy : Int, time : Int]
    BY <1>2, EventNames DEF Group
  <2>2. grp.tel["energy"].current - grp.tel["energy"].previous \in Int /\ grp.ts - grp.prev \in Int
    BY <2>1
  <2>3. [valid |-> TRUE, energy |-> grp.tel["energy"].current - grp.tel["energy"].previous, time |-> grp.ts - grp.prev]
          \in [valid : BOOLEAN, energy : Int, time : Int]
    BY <2>2
  <2>4. [grp.power EXCEPT !.valid = FALSE] \in [valid : BOOLEAN, energy : Int, time : Int]
    BY <2>1
  <2> QED
    BY <2>3, <2>4 DEF power
<1>4. \A e \in {"total", "local", "ins", "cyc"} : Delta(e) \in Nat
  <2>1. grp.dlt \in [Slots(setup) -> 0 .. Wide - 1]
    BY <1>2 DEF Group
  <2> QED
    BY <2>1, Positive DEF Delta
<1>5. /\ grp' \in Group(setup) /\ grp'.mbmRead = TRUE
      /\ grp'.val = grp.val /\ grp'.dlt = grp.dlt /\ grp'.store = grp.store /\ grp'.tel = grp.tel
      /\ grp'.ts = grp.ts /\ grp'.prev = grp.prev /\ grp'.valid = grp.valid /\ grp'.ioRead = grp.ioRead
      /\ grp'.power = IF "power" \in setup.event THEN power ELSE grp.power
  <2> DEFINE r == IF "remote" \in setup.event
                  THEN IF Delta("total") > Delta("local") THEN Delta("total") - Delta("local") ELSE 0
                  ELSE grp.remote
             i == IF "ipc" \in setup.event
                  THEN IF Delta("cyc") > 0 THEN <<Delta("ins"), Delta("cyc")>> ELSE <<0, 0>>
                  ELSE grp.ipc
             p == IF "power" \in setup.event THEN power ELSE grp.power
  <2>1. r \in Nat /\ i \in Nat \X Nat /\ p \in [valid : BOOLEAN, energy : Int, time : Int]
    BY <1>2, <1>3, <1>4 DEF Group
  <2>2. grp' = [grp EXCEPT !.remote = r, !.ipc = i, !.power = p, !.mbmRead = TRUE]
    BY DEF pqos_mon_poll_done
  <2>3. p = IF "power" \in setup.event THEN power ELSE grp.power
    OBVIOUS
  <2> HIDE DEF r, i, p
  <2>4. grp'.power = p /\ grp'.mbmRead = TRUE
    BY <1>2, <2>2 DEF Group
  <2>5. /\ grp' \in Group(setup)
        /\ grp'.val = grp.val /\ grp'.dlt = grp.dlt /\ grp'.store = grp.store /\ grp'.tel = grp.tel
        /\ grp'.ts = grp.ts /\ grp'.prev = grp.prev /\ grp'.valid = grp.valid /\ grp'.ioRead = grp.ioRead
    BY <1>2, <2>1, <2>2 DEF Group
  <2> QED
    BY <2>3, <2>4, <2>5
<1>6. PollTypeOK'
  BY <1>1, <1>2, <1>5 DEF PollTypeOK
<1>7. Bounded' /\ Dirs' /\ Narrow' /\ CountersRun'
  BY <1>1, <1>5 DEF PollInv, Bounded, Dirs, DirsCover, Narrow, NarrowValues, NarrowCounters, Cyclic, CountersRun
<1>8. Processed' /\ FreshOrFlagged'
  BY <1>1, <1>5 DEF PollInv, Processed, FreshOrFlagged, pqos_mon_event_valid
<1>9. Flags'
  <2>1. ASSUME NEW k \in Keys(setup), k[1] \notin Gauges
        PROVE  k \in gap' <=> Unbased(setup, grp', k)
    <3>1. k \in gap <=> Unbased(setup, grp, k)
      BY <1>1, <2>1 DEF PollInv, Flags, Flagged
    <3>2. CASE k[1] \in setup.hw \cap Mbm
      <4>1. k \in fresh
        <5>1. k[1] \notin setup.resctrl /\ k[1] # "remote"
          BY <1>2, <3>2, Sources, EventNames
        <5> QED
          BY <1>1, <5>1 DEF PollInv, Processed, pqos_mon_event_valid
      <4>2. ~Unbased(setup, grp', k)
        BY <1>2, <1>5, <2>1, <3>2, FlagOf, Sources, EventNames
      <4>3. setup.inter = "MSR" \/ k \notin gap
        <5> SUFFICES ASSUME setup.inter # "MSR" PROVE ~Unbased(setup, grp, k)
          BY <3>1
        <5>1. setup.inter = "MMIO" /\ k[1] = "total"
          BY <1>2, <3>2, Sources, SetupIs, EventNames
        <5>2. grp.mbmRead
          BY <1>1, <4>1, <5>1 DEF PollInv, Flags, RegionsRead
        <5> QED
          BY <1>2, <2>1, <3>2, <5>2, FlagOf, Sources, EventNames
      <4> QED
        BY <1>1, <3>2, <4>1, <4>2, <4>3
    <3>3. CASE k[1] \notin setup.hw \cap Mbm
      <4>1. ~(setup.inter = "MSR" /\ k[1] \in Mbm)
        <5>1. k[1] \in Polled(setup)
          BY <1>2, KeyIs
        <5> QED
          BY <1>2, <3>3, <5>1, Sources, EventNames DEF Polled
      <4>2. Unbased(setup, grp', k) <=> Unbased(setup, grp, k)
        BY <1>2, <1>5, <2>1, <3>3, FlagOf, Sources, EventNames
      <4> QED
        BY <1>1, <3>1, <4>1, <4>2
    <3> QED
      BY <3>2, <3>3
  <2> QED
    BY <1>1, <1>5, <2>1 DEF Flags, Flagged, RegionsRead
<1>10. Balance'
  BY <1>1, <1>5 DEF PollInv, Balance, Balanced, Cyclic, Worth
<1>11. EnergyRight' /\ PowerExact' /\ DeltaExact'
  <2>1. power.valid => power.energy = grp.tel["energy"].current - grp.tel["energy"].previous
                       /\ power.time = grp.ts - grp.prev /\ grp.prev # 0 /\ grp.ts > grp.prev /\ grp.tel["energy"].valid
    <3>1. grp.power \in [valid : BOOLEAN, energy : Int, time : Int]
      BY <1>2 DEF Group
    <3> QED BY <3>1 DEF power
  <2>2. grp.ts \in Nat /\ grp.prev \in Nat
    BY <1>2 DEF Group
  <2>3. DeltaExact'
    BY <1>1, <1>5 DEF PollInv, DeltaExact, pqos_mon_get_value, Worth
  <2>4. EnergyRight'
    BY <1>1, <1>5, <2>1 DEF PollInv, EnergyRight
  <2>5. PowerExact'
    BY <1>1, <1>5, <2>1, <2>2 DEF PollInv, EnergyRight, PowerExact, pqos_mon_get_tel_value, Energy
  <2> QED BY <2>3, <2>4, <2>5
<1> QED
  BY <1>6, <1>7, <1>8, <1>9, <1>10, <1>11 DEF PollInv

-----------------------------------------------------------------------------
(***************************************************************************)
(* What is counted between two readings.                                   *)
(***************************************************************************)
LEMMA WorkIs ==
  ASSUME NEW work \in Works
  PROVE  work \subseteq Keys(setup) /\ \A k \in work : k[1] \notin Gauges
<1>1. work \subseteq Keys(setup)
  BY DEF Works
<1>2. \A k \in work : k[1] \notin Gauges
  BY EventNames DEF Works
<1> QED
  BY <1>1, <1>2

\* How a counter of k goes on by one on unit u.
Ticks(k, u) ==
  /\ SumOf(cnt[k]) \in Nat /\ SumOf(cnt'[k]) \in Nat
  /\ Cyclic(k) => \E i \in Int : SumOf(cnt'[k]) = SumOf(cnt[k]) + 1 + i * Modulus
  /\ ~Cyclic(k) => SumOf(cnt'[k]) <= SumOf(cnt[k]) + 1
  /\ ~Cyclic(k) /\ spoilt'[k] = {} => SumOf(cnt'[k]) = SumOf(cnt[k]) + 1
  /\ k[1] \in setup.hw \cap (Pmu \cup {"pcie"}) => cnt'[k][u] < PmuModulus

LEMMA TicksIs ==
  ASSUME PollInv, NEW u \in Unit, NEW work \in Works, Traffic(u, work), NEW k \in work
  PROVE  Ticks(k, u) /\ cnt'[k] \in [Unit -> Nat]
<1> DEFINE c == cnt[k]
           turn == Turn(k[1])
           v == (c[u] + 1) % turn
<1>1. k \in Keys(setup) /\ cnt \in [Keys(setup) -> [Unit -> Nat]] /\ phase # "off"
      /\ setup \in Setups \cup {NoSetup} /\ spent.traffic \in Nat /\ spent.traffic < MaxTraffic
      /\ spoilt \in [Keys(setup) -> SUBSET {"foreign", "overflow", "twice", "unread", "wrap"}]
  BY WorkIs, BoundAssumption DEF PollInv, PollTypeOK, Traffic
<1>2. c \in [Unit -> Nat] /\ c[u] \in Nat
  BY <1>1
<1>3. cnt'[k] = [c EXCEPT ![u] = v]
  BY <1>1 DEF Traffic
<1>4. spoilt'[k] = IF k[1] \in Pmu \cup {"pcie"} /\ cnt'[k][u] = 0 THEN spoilt[k] \cup {"wrap"} ELSE spoilt[k]
  BY <1>1 DEF Traffic
<1>5. turn \in Nat /\ turn > 0
  BY Positive, Fits DEF Turn
<1> HIDE DEF c, turn
<1>6. v \in Nat /\ v < turn
  BY <1>2, <1>5
<1>7. SumOf(cnt'[k]) = SumOf(c) - c[u] + v /\ cnt'[k] \in [Unit -> Nat] /\ cnt'[k][u] = v
  <2> HIDE DEF v
  <2>1. SumOf([c EXCEPT ![u] = v]) = SumOf(c) - c[u] + v
    BY <1>2, <1>6, SumUpdate
  <2> QED
    BY <1>2, <1>3, <1>6, <2>1
<1>8. SumOf(c) \in Nat /\ c[u] <= SumOf(c) /\ SumOf(cnt'[k]) \in Nat
  BY <1>2, <1>7, SumType, SumElement
<1>9. ~Cyclic(k) => SumOf(c) <= spent.traffic + OldContent
  BY <1>1 DEF c, PollInv, Bounded
<1>10. c[u] + 1 < turn => v = c[u] + 1
  BY <1>2, <1>5
<1>11. k[1] \in Polled(setup)
  BY <1>1, KeyIs
<1>12. CASE Cyclic(k)
  <2>1. turn = Modulus /\ k[1] \notin Pmu \cup {"pcie"}
    BY <1>1, <1>11, <1>12, Sources, EventNames DEF Polled, Cyclic, Turn, turn
  <2>2. PICK q \in Int : c[u] + 1 = v + q * Modulus
    BY <1>2, <2>1, Turned
  <2>3. SumOf(cnt'[k]) = SumOf(c) + 1 + (0 - q) * Modulus /\ 0 - q \in Int
    BY <1>2, <1>6, <1>7, <1>8, <2>2, Positive
  <2>4. \E i \in Int : SumOf(cnt'[k]) = SumOf(c) + 1 + i * Modulus
    BY <2>3
  <2> QED
    BY <1>7, <1>8, <1>12, <2>1, <2>4 DEF Ticks, c
<1>13. CASE k[1] \in setup.hw \cap (Pmu \cup {"pcie"})
  <2>1. turn = PmuModulus /\ ~Cyclic(k)
    BY <1>13, EventNames DEF Turn, turn, Cyclic
  <2>2. c[u] < PmuModulus
    BY <1>1, <1>13 DEF PollInv, Narrow, NarrowCounters, c
  <2>3. v = c[u] + 1 \/ v = 0
    <3>1. CASE c[u] + 1 < turn
      BY <1>10, <3>1
    <3>2. CASE c[u] + 1 = turn
      BY <1>5, <3>2
    <3> QED
      BY <1>2, <1>5, <2>1, <2>2, <3>1, <3>2
  <2>4. v = 0 => spoilt'[k] # {}
    BY <1>4, <1>7, <1>13
  <2> HIDE DEF v
  <2>5. v = c[u] + 1 => SumOf(cnt'[k]) = SumOf(c) + 1
    BY <1>2, <1>7, <1>8
  <2>6. v = 0 => SumOf(cnt'[k]) <= SumOf(c) + 1
    BY <1>2, <1>7, <1>8
  <2> QED
    BY <1>6, <1>7, <1>8, <2>1, <2>3, <2>4, <2>5, <2>6 DEF Ticks, c
<1>14. CASE ~Cyclic(k) /\ k[1] \notin setup.hw \cap (Pmu \cup {"pcie"})
  <2>1. turn = Wide
    <3>1. k[1] \in setup.hw /\ setup.inter = "MSR" => k[1] \in {"l3", "local", "total", "pcie"} \cup Pmu
      BY <1>1, Sources
    <3>2. k[1] # "l3"
      BY WorkIs, EventNames
    <3> QED
      BY <1>14, <3>1, <3>2, EventNames DEF Turn, turn, Cyclic
  <2>2. c[u] + 1 < Wide
    BY <1>1, <1>2, <1>8, <1>9, <1>14, Fits, Positive DEF MostCounted
  <2>3. v = c[u] + 1
    BY <1>10, <2>1, <2>2
  <2> HIDE DEF v
  <2>4. SumOf(cnt'[k]) = SumOf(c) + 1
    BY <1>2, <1>7, <1>8, <2>3
  <2> QED
    BY <1>7, <1>8, <1>14, <2>4 DEF Ticks, c
<1> QED
  BY <1>12, <1>13, <1>14

\* The keys that are not counted keep what they have.
TrafficRest(u, work) ==
  /\ UNCHANGED <<phase, setup, grp, runs, fs, todo, ret, exact, gap, fresh>>
  /\ \A k \in Keys(setup) \ work : cnt'[k] = cnt[k] /\ since'[k] = since[k] /\ spoilt'[k] = spoilt[k]
  /\ \A k \in work : since'[k] = since[k] + 1 /\ spoilt[k] \subseteq spoilt'[k]
  /\ \A k \in work, x \in Unit \ {u} : cnt'[k][x] = cnt[k][x]
  /\ \A k \in work : Counting(k[1], u) /\ (k[1] \in Pmu \cup {"pcie"} \/ since[k] < Turn(k[1]) - 1)
  /\ spent'.traffic = spent.traffic + 1

LEMMA TrafficRestIs ==
  ASSUME PollInv, NEW u \in Unit, NEW work \in Works, Traffic(u, work)
  PROVE  TrafficRest(u, work)
<1>1. work \subseteq Keys(setup) /\ cnt \in [Keys(setup) -> [Unit -> Nat]]
  BY WorkIs DEF PollInv, PollTypeOK
<1>2. \A k \in Keys(setup) \ work : cnt'[k] = cnt[k] /\ since'[k] = since[k] /\ spoilt'[k] = spoilt[k]
  BY DEF Traffic
<1>3. \A k \in work : since'[k] = since[k] + 1 /\ spoilt[k] \subseteq spoilt'[k]
  BY <1>1 DEF Traffic
<1>4. \A k \in work, x \in Unit \ {u} : cnt'[k][x] = cnt[k][x]
  BY <1>1 DEF Traffic
<1>5. spent'.traffic = spent.traffic + 1
  BY DEF PollInv, PollTypeOK, Traffic
<1> QED
  BY <1>2, <1>3, <1>4, <1>5 DEF Traffic, TrafficRest

LEMMA TrafficInv ==
  ASSUME PollInv, NEW u \in Unit, NEW work \in Works, Traffic(u, work)
  PROVE  PollInv'
<1>1. TrafficRest(u, work)
  BY TrafficRestIs
<1>2. \A k \in work : Ticks(k, u) /\ cnt'[k] \in [Unit -> Nat] /\ k \in Keys(setup)
  BY TicksIs, WorkIs
<1>3. PollTypeOK /\ setup \in Setups \cup {NoSetup}
  BY DEF PollInv, PollTypeOK
<1>4. \A k \in Keys(setup) : since[k] \in Nat /\ cnt[k] \in [Unit -> Nat]
  BY <1>3 DEF PollTypeOK
<1>5. phase # "off" /\ spent.traffic \in Nat
  BY <1>3, BoundAssumption DEF Traffic, PollTypeOK
<1>6. \A k \in Keys(setup) : spoilt'[k] = {} => spoilt[k] = {}
  BY <1>1 DEF TrafficRest
<1>7. PollTypeOK'
  <2>1. cnt' \in [Keys(setup) -> [Unit -> Nat]]
    <3>1. \A k \in Keys(setup) : cnt'[k] \in [Unit -> Nat]
      BY <1>1, <1>2, <1>4 DEF TrafficRest
    <3>2. cnt' = [k \in Keys(setup) |-> cnt'[k]]
      BY DEF Traffic
    <3> QED BY <3>1, <3>2
  <2>2. since' \in [Keys(setup) -> Nat]
    BY <1>4 DEF Traffic
  <2>3. spoilt' \in [Keys(setup) -> SUBSET {"foreign", "overflow", "twice", "unread", "wrap"}]
    BY <1>3 DEF Traffic, PollTypeOK
  <2>4. spent' \in [traffic : 0 .. MaxTraffic, polls : 0 .. MaxPolls, starts : 0 .. MaxStarts, moves : 0 .. MaxMoves]
    <3>1. spent.traffic + 1 \in 0 .. MaxTraffic
      BY <1>3, BoundAssumption DEF PollTypeOK, Traffic
    <3> QED BY <1>3, <3>1 DEF PollTypeOK, Traffic
  <2> QED
    BY <1>3, <2>1, <2>2, <2>3, <2>4 DEF Traffic, PollTypeOK
<1>8. Bounded'
  <2> SUFFICES ASSUME NEW k \in Keys(setup)
               PROVE  /\ ~Cyclic(k) => SumOf(cnt'[k]) <= spent'.traffic + OldContent
                      /\ k[1] \in setup.resctrl \cap Mbm /\ spoilt'[k] = {} =>
                           SumOf(cnt'[k]) + grp.store[k[1]] <= spent'.traffic
    BY <1>1 DEF Bounded, TrafficRest, Cyclic
  <2>1. /\ ~Cyclic(k) => SumOf(cnt[k]) <= spent.traffic + OldContent
        /\ k[1] \in setup.resctrl \cap Mbm /\ spoilt[k] = {} => SumOf(cnt[k]) + grp.store[k[1]] <= spent.traffic
    BY <1>5 DEF PollInv, Bounded
  <2>2. SumOf(cnt[k]) \in Nat /\ spent'.traffic = spent.traffic + 1 /\ (k[1] \in Mbm => grp.store[k[1]] \in Nat)
    BY <1>1, <1>3, <1>4, SumType DEF TrafficRest, PollTypeOK, Group
  <2>3. CASE k \in work
    <3>1. SumOf(cnt'[k]) \in Nat /\ (~Cyclic(k) => SumOf(cnt'[k]) <= SumOf(cnt[k]) + 1)
      BY <1>2, <2>3 DEF Ticks
    <3>2. k[1] \in setup.resctrl \cap Mbm => ~Cyclic(k)
      BY <1>3, Sources DEF Cyclic
    <3> QED
      BY <1>5, <1>6, <2>1, <2>2, <2>3, <3>1, <3>2, Fits
  <2>4. CASE k \notin work
    <3>1. cnt'[k] = cnt[k]
      BY <1>1, <2>4 DEF TrafficRest
    <3> QED
      BY <1>5, <1>6, <2>1, <2>2, <3>1, Fits
  <2> QED
    BY <2>3, <2>4
<1>9. Dirs'
  <2>1. fs.tag # 0 => fs.tag \in fs.dirs
    BY <1>5 DEF PollInv, Dirs, DirsCover
  <2>2. u # 0
    BY ShapeAssumption, FS_CardinalityType
  <2>3. ASSUME NEW k \in Keys(setup), NEW x \in Unit, k[1] \in setup.resctrl, x \notin fs.dirs
        PROVE  cnt'[k][x] = 0
    <3>1. cnt[k][x] = 0
      BY <1>5, <2>3 DEF PollInv, Dirs, DirsCover
    <3>2. k \in work => x # u
      BY <1>1, <2>1, <2>2, <2>3 DEF TrafficRest, Counting
    <3> QED
      BY <1>1, <2>3, <3>1, <3>2 DEF TrafficRest
  <2> QED
    BY <1>1, <2>1, <2>3 DEF TrafficRest, Dirs, DirsCover
<1>10. Flags' /\ Processed' /\ FreshOrFlagged' /\ CountersRun'
  BY <1>1 DEF PollInv, TrafficRest, Flags, Flagged, Unbased, Classic, RegionsRead, Processed, FreshOrFlagged, pqos_mon_event_valid, CountersRun
<1>11. Balance'
  <2> SUFFICES ASSUME NEW slot \in Slots(setup), slot[1] \notin Gauges, spoilt'[KeyOf(setup, slot)] = {},
                      KeyOf(setup, slot) \notin gap \/ (Cyclic(KeyOf(setup, slot)) /\ KeyOf(setup, slot) \in fresh)
               PROVE  Balanced(grp, cnt[KeyOf(setup, slot)], since[KeyOf(setup, slot)], slot)'
    BY <1>1 DEF Balance, TrafficRest, Cyclic
  <2> DEFINE k == KeyOf(setup, slot)
             e == slot[1]
  <2>1. k \in Keys(setup) /\ k[1] = e
    BY <1>3, SlotIs
  <2>2. spoilt[k] = {}
    BY <1>6, <2>1
  <2>3. Balanced(grp, cnt[k], since[k], slot)
    BY <1>5, <2>2 DEF PollInv, Balance
  <2>4. k = KeyOf(setup, slot)' /\ (Cyclic(slot) <=> Cyclic(k))
    BY <1>1, <2>1 DEF TrafficRest, Cyclic
  <2>5. Worth(e) \in Nat /\ Worth(e)' = Worth(e)
    BY <1>1, Positive DEF Worth, TrafficRest
  <2>6. spoilt'[k] = {} /\ (Cyclic(slot)' <=> Cyclic(slot))
    BY <1>1 DEF TrafficRest, Cyclic
  <2>7. grp.val[slot] \in Nat /\ grp.tel["energy"].current \in Nat /\ (e \in Mbm => grp.store[e] \in Nat)
    BY <1>3, EventNames, Positive DEF PollTypeOK, Group
  <2>10. (Cyclic(slot) => e # "energy") /\ (e \in setup.resctrl \cap Mbm => e # "energy")
    BY EventNames DEF Cyclic
  <2> HIDE DEF k, e
  <2>8. CASE k \notin work
    <3>1. cnt'[k] = cnt[k] /\ since'[k] = since[k]
      BY <1>1, <2>1, <2>8 DEF TrafficRest
    <3> QED
      BY <1>1, <2>3, <2>4, <2>5, <2>6, <3>1 DEF TrafficRest, Balanced, e
  <2>9. CASE k \in work
    <3>1. Ticks(k, u) /\ since'[k] = since[k] + 1 /\ since[k] \in Nat
      BY <1>1, <1>2, <1>4, <2>1, <2>9 DEF TrafficRest
    <3> DEFINE x == SumOf(cnt[k])
               y == SumOf(cnt'[k])
               n == since[k]
    <3>2. x \in Nat /\ y \in Nat /\ n \in Nat
      BY <3>1 DEF Ticks
    <3>3. CASE Cyclic(slot)
      <4>1. PICK i \in Int : x = grp.val[slot] + n + i * Modulus
        BY <2>3, <3>3 DEF Balanced
      <4>2. PICK j \in Int : y = x + 1 + j * Modulus
        BY <2>4, <3>1, <3>3 DEF Ticks
      <4> HIDE DEF x, y, n
      <4>3. y = grp.val[slot] + (n + 1) + (i + j) * Modulus /\ i + j \in Int
        BY <2>7, <3>2, <4>1, <4>2, Positive
      <4>4. \E m \in Int : y = grp.val[slot] + (n + 1) + m * Modulus
        BY <4>3
      <4> QED
        BY <1>1, <2>4, <2>6, <2>10, <3>1, <3>3, <4>4 DEF TrafficRest, Balanced, x, y, n, e
    <3>4. CASE ~Cyclic(slot)
      <4>1. y = x + 1
        BY <2>4, <2>6, <3>1, <3>4 DEF Ticks
      <4> HIDE DEF x, y, n
      <4>2. \A m, v \in Nat : m * x = v + m * n => m * y = v + m * (n + 1)
        BY <3>2, <4>1
      <4>3. CASE e \in setup.resctrl \cap Mbm
        <5>1. x + grp.store[e] = grp.val[slot] + n
          BY <2>3, <3>4, <4>3 DEF Balanced, x, n, e
        <5>2. y + grp.store[e] = grp.val[slot] + (n + 1)
          BY <2>7, <3>2, <4>1, <4>3, <5>1
        <5> QED
          BY <1>1, <2>4, <2>6, <2>10, <3>1, <3>4, <4>3, <5>2 DEF TrafficRest, Balanced, y, n, e
      <4>4. CASE e = "energy"
        <5>1. x = grp.tel["energy"].current + n
          BY <2>3, <3>4, <4>4, EventNames DEF Balanced, x, n, e
        <5>2. y = grp.tel["energy"].current + (n + 1)
          BY <2>7, <3>2, <4>1, <5>1
        <5> QED
          BY <1>1, <2>4, <2>6, <3>1, <3>4, <4>4, <5>2, EventNames DEF TrafficRest, Balanced, y, n, e
      <4>5. CASE e \notin setup.resctrl \cap Mbm /\ e # "energy"
        <5>1. Worth(e) * x = grp.val[slot] + Worth(e) * n
          BY <2>3, <3>4, <4>5 DEF Balanced, x, n, e
        <5>2. Worth(e) * y = grp.val[slot] + Worth(e) * (n + 1)
          BY <2>5, <2>7, <4>2, <5>1
        <5> QED
          BY <1>1, <2>4, <2>5, <2>6, <3>1, <3>4, <4>5, <5>2 DEF TrafficRest, Balanced, y, n, e
      <4> QED
        BY <4>3, <4>4, <4>5
    <3> QED
      BY <3>3, <3>4
  <2> QED
    BY <2>8, <2>9
<1>12. Narrow'
  <2>1. NarrowValues(grp)'
    BY <1>1, <1>5 DEF PollInv, Narrow, NarrowValues, TrafficRest, Cyclic
  <2>2. ASSUME NEW k \in Keys(setup), NEW x \in Unit, k[1] \in setup.hw \cap (Pmu \cup {"pcie"})
        PROVE  cnt'[k][x] < PmuModulus
    <3>1. cnt[k][x] < PmuModulus
      BY <1>5, <2>2 DEF PollInv, Narrow, NarrowCounters
    <3> QED
      BY <1>1, <1>2, <2>2, <3>1 DEF TrafficRest, Ticks
  <2>3. ASSUME NEW k \in Keys(setup), Cyclic(k)
        PROVE  since'[k] < Modulus
    <3>1. since[k] < Modulus
      BY <1>5, <2>3 DEF PollInv, Narrow
    <3>2. k[1] \in setup.hw /\ k[1] \notin Pmu \cup {"pcie"}
      BY <1>3, <2>3, KeyIs, Sources, EventNames DEF Cyclic, Polled
    <3>3. Turn(k[1]) = Modulus
      BY <2>3, <3>2 DEF Turn, Cyclic
    <3>4. k \in work => since[k] < Modulus - 1
      BY <1>1, <3>2, <3>3 DEF TrafficRest
    <3> QED
      BY <1>1, <1>4, <3>1, <3>4, Positive DEF TrafficRest
  <2> QED
    BY <1>1, <2>1, <2>2, <2>3 DEF Narrow, NarrowCounters, TrafficRest, Cyclic
<1>13. EnergyRight' /\ PowerExact'
  <2>1. "energy" \in setup.resctrl => Energy \in Keys(setup)
    BY <1>3, OneKey DEF Polled, ByRegion, Energy
  <2>2. EnergyRight'
    BY <1>1, <1>5, <1>6, <2>1 DEF PollInv, EnergyRight, TrafficRest
  <2>3. grp.power.valid => "energy" \in setup.resctrl
    BY <1>5 DEF PollInv, EnergyRight
  <2>4. PowerExact'
    BY <1>1, <1>6, <2>1, <2>3 DEF PollInv, PowerExact, pqos_mon_get_tel_value, TrafficRest, Energy
  <2> QED BY <2>2, <2>4
<1>14. DeltaExact'
  <2>1. grp.dlt \in [Slots(setup) -> 0 .. Wide - 1]
    BY <1>3 DEF PollTypeOK, Group
  <2>2. \A slot \in Slots(setup) : KeyOf(setup, slot) \in Keys(setup)
    BY <1>3, SlotIs
  <2> QED
    BY <1>1, <1>5, <1>6, <2>1, <2>2 DEF PollInv, DeltaExact, pqos_mon_get_value, Worth, TrafficRest
<1> QED
  BY <1>7, <1>8, <1>9, <1>10, <1>11, <1>12, <1>13, <1>14 DEF PollInv

-----------------------------------------------------------------------------
(***************************************************************************)
(* What a poll may do when it reads event e with outcome o.                *)
(***************************************************************************)
\* Nothing spoils k, before the reading or by it.
Clean(k, o) == spoilt[k] = {} /\ \A x \in o.spoil : x[1] # k

ExactAfter(k, o) == IF k \in o.stored THEN IF k \in gap THEN 0 ELSE since[k] ELSE exact[k]

SinceAfter(k, o) == IF k \in o.stored THEN 0 ELSE since[k]

Typed(o) ==
  /\ o.grp \in Group(setup) /\ o.cnt \in [Keys(setup) -> [Unit -> Nat]]
  /\ o.fs \in [dirs : SUBSET Unit, tag : Unit \cup {0}, at : Unit]
  /\ o.ret \in {"OK", "ERROR", "UNAVAILABLE", "OVERFLOW"}
  /\ o.stored \subseteq Keys(setup)
  /\ \A x \in o.spoil : x[2] \in {"foreign", "overflow", "twice", "unread", "wrap"}

\* Reading does not count.
Totals(o) ==
  \A k \in Keys(setup) :
    /\ \A u \in Unit : o.cnt[k][u] <= cnt[k][u]
    /\ k[1] \in setup.resctrl \cap Mbm /\ Clean(k, o) =>
         SumOf(o.cnt[k]) + o.grp.store[k[1]] = SumOf(cnt[k]) + grp.store[k[1]]

\* The caller is told of exactly the keys without a baseline.
Flagging(e, o) == Flagged(o.grp, GapAfter(e, o)) /\ RegionsRead(o.grp, fresh \cup o.stored)

Balancing(e, o) ==
  \A slot \in Slots(setup) :
    LET k == KeyOf(setup, slot)
    IN  /\ slot[1] \notin Gauges /\ Clean(k, o)
        /\ k \notin GapAfter(e, o) \/ (Cyclic(k) /\ k \in fresh \cup o.stored)
        => Balanced(o.grp, o.cnt[k], SinceAfter(k, o), slot)

Differences(o) ==
  \A slot \in Slots(setup) :
    LET k == KeyOf(setup, slot)
    IN  slot[1] \notin Gauges \cup Telemetry /\ Clean(k, o) =>
          o.grp.dlt[slot] = ExactAfter(k, o) * Worth(slot[1])

\* A poll that goes on has stored e or marked it.
Marks(e, o) ==
  /\ o.grp.valid \ {e} \subseteq grp.valid
  /\ ~fatal(e, o.ret) =>
       \A k \in Keys(setup) : k[1] = e => k \in o.stored \/ (e \in setup.resctrl \ Telemetry /\ e \notin o.grp.valid)

Samples(o) ==
  LET slot == o.grp.tel["energy"]
  IN  /\ o.grp.power = grp.power
      /\ slot.valid => "energy" \in setup.resctrl
      /\ "energy" \in setup.resctrl /\ Clean(Energy, o) /\ o.grp.prev # 0 =>
           slot.current - slot.previous = ExactAfter(Energy, o)

Reading(e, o) ==
  /\ Typed(o) /\ Totals(o) /\ DirsCover(o.fs, o.cnt) /\ Flagging(e, o)
  /\ Balancing(e, o) /\ Differences(o) /\ NarrowValues(o.grp) /\ Marks(e, o) /\ Samples(o)

\* The state behind the reading.
Behind(e, o) ==
  /\ phase = "poll" /\ e \in todo
  /\ grp' = o.grp /\ cnt' = o.cnt /\ fs' = o.fs
  /\ exact' = [k \in Keys(setup) |-> ExactAfter(k, o)]
  /\ since' = [k \in Keys(setup) |-> SinceAfter(k, o)]
  /\ gap' = GapAfter(e, o) /\ fresh' = fresh \cup o.stored
  /\ spoilt' = [k \in Keys(setup) |-> spoilt[k] \cup {s[2] : s \in {x \in o.spoil : x[1] = k}}]
  /\ fatal(e, o.ret) => phase' = "on" /\ ret' = o.ret /\ todo' = {}
  /\ ~fatal(e, o.ret) => phase' = "poll" /\ ret' = ret /\ todo' = todo \ {e}
  /\ setup' = setup /\ runs' = runs

LEMMA EventInv ==
  ASSUME PollInv, NEW e \in todo, NEW o, Behind(e, o), Reading(e, o),
         spent' \in [traffic : 0 .. MaxTraffic, polls : 0 .. MaxPolls, starts : 0 .. MaxStarts, moves : 0 .. MaxMoves],
         spent'.traffic = spent.traffic
  PROVE  PollInv'
<1> USE DEF Behind
<1>1. PollTypeOK /\ setup \in Setups \cup {NoSetup} /\ phase = "poll" /\ phase # "off"
  BY DEF PollInv, PollTypeOK
<1>2. phase' \in {"on", "poll"} /\ (phase' = "on" => ret' # "OK" /\ ret' = o.ret)
  BY DEF fatal
<1>3. e \in Polled(setup) /\ todo \subseteq Polled(setup)
  BY <1>1 DEF PollInv, Processed
<1>4. Typed(o) /\ Totals(o) /\ DirsCover(o.fs, o.cnt) /\ Flagging(e, o)
      /\ Balancing(e, o) /\ Differences(o) /\ NarrowValues(o.grp) /\ Marks(e, o) /\ Samples(o)
  BY DEF Reading
<1>5. \A k \in Keys(setup) : spoilt'[k] = {} => Clean(k, o)
  <2> SUFFICES ASSUME NEW k \in Keys(setup), spoilt'[k] = {}, NEW x \in o.spoil, x[1] = k PROVE FALSE
    BY DEF Clean
  <2>1. x[2] \in spoilt'[k]
    OBVIOUS
  <2> QED BY <2>1
<1>6. \A k \in Keys(setup) : cnt[k] \in [Unit -> Nat] /\ o.cnt[k] \in [Unit -> Nat]
                             /\ since[k] \in Nat /\ exact[k] \in Nat /\ spoilt[k] \in SUBSET {"foreign", "overflow", "twice", "unread", "wrap"}
  BY <1>1, <1>4 DEF PollTypeOK, Typed
<1>7. PollTypeOK'
  <2>1. GapAfter(e, o) \subseteq Keys(setup)
    <3>1. e \in {"io_total", "io_miss"} \/ e \in setup.resctrl => Key0(e) \in Keys(setup)
      BY <1>1, <1>3, Sources, OneKey DEF ByRegion
    <3> QED
      BY <1>1, <1>4, <3>1 DEF GapAfter, PollTypeOK, Typed
  <2>2. exact' \in [Keys(setup) -> Nat] /\ since' \in [Keys(setup) -> Nat]
    BY <1>6 DEF ExactAfter, SinceAfter
  <2>3. spoilt' \in [Keys(setup) -> SUBSET {"foreign", "overflow", "twice", "unread", "wrap"}]
    <3>1. ASSUME NEW k \in Keys(setup)
          PROVE  spoilt[k] \cup {s[2] : s \in {x \in o.spoil : x[1] = k}} \in SUBSET {"foreign", "overflow", "twice", "unread", "wrap"}
      BY <1>4, <1>6 DEF Typed
    <3> QED BY <3>1
  <2>4. todo' \subseteq Counted
    BY <1>1 DEF PollTypeOK
  <2>5. ret' \in {"OK", "ERROR", "PARAM", "UNAVAILABLE", "OVERFLOW", "RESOURCE", "none"}
    BY <1>1, <1>4 DEF PollTypeOK, Typed
  <2>6. fresh' \subseteq Keys(setup) /\ runs' \in [Pmu \cup {"pcie"} -> SUBSET Unit]
    BY <1>1, <1>4 DEF PollTypeOK, Typed
  <2> QED
    BY <1>1, <1>2, <1>4, <2>1, <2>2, <2>3, <2>4, <2>5, <2>6 DEF PollTypeOK, Typed
<1>8. Bounded'
  <2> SUFFICES ASSUME NEW k \in Keys(setup)
               PROVE  /\ ~Cyclic(k) => SumOf(o.cnt[k]) <= spent.traffic + OldContent
                      /\ k[1] \in setup.resctrl \cap Mbm /\ spoilt'[k] = {} =>
                           SumOf(o.cnt[k]) + o.grp.store[k[1]] <= spent.traffic
    BY DEF Bounded, Cyclic
  <2>1. SumOf(o.cnt[k]) <= SumOf(cnt[k]) /\ SumOf(o.cnt[k]) \in Nat /\ SumOf(cnt[k]) \in Nat
    BY <1>4, <1>6, SumMono, SumType DEF Totals
  <2>2. /\ ~Cyclic(k) => SumOf(cnt[k]) <= spent.traffic + OldContent
        /\ k[1] \in setup.resctrl \cap Mbm /\ spoilt[k] = {} => SumOf(cnt[k]) + grp.store[k[1]] <= spent.traffic
    BY <1>1 DEF PollInv, Bounded
  <2>3. spoilt'[k] = {} => Clean(k, o) /\ spoilt[k] = {}
    BY <1>5 DEF Clean
  <2>4. spent.traffic \in Nat
    BY <1>1, BoundAssumption DEF PollTypeOK
  <2>5. ~Cyclic(k) => SumOf(o.cnt[k]) <= spent.traffic + OldContent
    BY <2>1, <2>2, <2>4, Fits
  <2>6. k[1] \in setup.resctrl \cap Mbm /\ Clean(k, o) =>
          SumOf(o.cnt[k]) + o.grp.store[k[1]] = SumOf(cnt[k]) + grp.store[k[1]]
    BY <1>4 DEF Totals
  <2> QED
    BY <2>2, <2>3, <2>5, <2>6
<1>9. Dirs'
  BY <1>4 DEF Dirs, DirsCover
<1>10. Flags'
  BY <1>4 DEF Flags, Flagging, Flagged, RegionsRead, Unbased, Classic
<1>11. Balance'
  <2> SUFFICES ASSUME NEW slot \in Slots(setup), slot[1] \notin Gauges, spoilt'[KeyOf(setup, slot)] = {},
                      KeyOf(setup, slot) \notin GapAfter(e, o)
                        \/ (Cyclic(KeyOf(setup, slot)) /\ KeyOf(setup, slot) \in fresh \cup o.stored)
               PROVE  Balanced(grp, cnt[KeyOf(setup, slot)], since[KeyOf(setup, slot)], slot)'
    BY DEF Balance, Cyclic
  <2>1. KeyOf(setup, slot) \in Keys(setup)
    BY <1>1, SlotIs
  <2>2. Balanced(o.grp, o.cnt[KeyOf(setup, slot)], SinceAfter(KeyOf(setup, slot), o), slot)
    BY <1>4, <1>5, <2>1 DEF Balancing
  <2>3. since'[KeyOf(setup, slot)] = SinceAfter(KeyOf(setup, slot), o)
    BY <2>1
  <2> QED
    BY <2>2, <2>3 DEF Balanced, Cyclic, Worth
<1>12. Narrow'
  <2>1. NarrowCounters(o.cnt)
    <3>1. NarrowCounters(cnt)
      BY <1>1 DEF PollInv, Narrow
    <3> QED
      BY <1>4, <1>6, <3>1, Positive DEF Totals, NarrowCounters
  <2>2. \A k \in Keys(setup) : Cyclic(k) => since'[k] < Modulus
    BY <1>1, Positive DEF PollInv, Narrow, SinceAfter
  <2> QED
    BY <1>4, <2>1, <2>2 DEF Narrow, NarrowValues, NarrowCounters, Cyclic
<1>13. Processed'
  <2> SUFFICES ASSUME ~fatal(e, o.ret), NEW k \in Keys(setup), k[1] \notin todo', k \notin fresh'
               PROVE  ~pqos_mon_event_valid(k[1])'
    BY <1>2, <1>3 DEF Processed
  <2>1. k[1] # "remote"
    <3>1. setup.inter \in {"MSR", "OS", "MMIO"} /\ k[1] \in Polled(setup)
      BY <1>1, SetupIs, KeyIs
    <3>2. "remote" \notin setup.hw
      BY <1>1, <3>1, Sources, EventNames
    <3>3. "remote" \notin setup.perf /\ "remote" \notin setup.resctrl
      BY <1>1, Sources
    <3> QED BY <3>1, <3>2, <3>3 DEF Polled
  <2>2. CASE k[1] = e
    BY <1>4, <2>1, <2>2 DEF Marks, pqos_mon_event_valid
  <2>3. CASE k[1] # e
    <3>1. ~pqos_mon_event_valid(k[1])
      BY <1>1, <2>3 DEF PollInv, Processed
    <3>2. k[1] \in setup.resctrl \ Telemetry /\ k[1] \notin grp.valid
      BY <2>1, <3>1 DEF pqos_mon_event_valid
    <3> QED
      BY <1>4, <2>1, <2>3, <3>2 DEF Marks, pqos_mon_event_valid
  <2> QED
    BY <2>2, <2>3
<1>14. FreshOrFlagged' /\ PowerExact'
  BY <1>2 DEF FreshOrFlagged, PowerExact
<1>15. CountersRun'
  BY <1>1, <1>2 DEF PollInv, CountersRun
<1>16. EnergyRight'
  <2>1. "energy" \in setup.resctrl => Energy \in Keys(setup)
    BY <1>1, OneKey DEF Polled, ByRegion, Energy
  <2>2. grp.power.valid => "energy" \in setup.resctrl /\ "power" \in setup.event
    BY <1>1 DEF PollInv, EnergyRight
  <2>3. "energy" \in setup.resctrl /\ spoilt'[Energy] = {} => Clean(Energy, o) /\ exact'[Energy] = ExactAfter(Energy, o)
    BY <1>5, <2>1
  <2> QED
    BY <1>4, <2>2, <2>3 DEF EnergyRight, Samples, Energy
<1>17. DeltaExact'
  <2>1. o.grp.dlt \in [Slots(setup) -> 0 .. Wide - 1]
    BY <1>4 DEF Typed, Group
  <2>2. \A slot \in Slots(setup) : KeyOf(setup, slot) \in Keys(setup)
    BY <1>1, SlotIs
  <2>3. \A slot \in Slots(setup) : spoilt'[KeyOf(setup, slot)] = {} => Clean(KeyOf(setup, slot), o)
    BY <1>5, <2>2
  <2> QED
    BY <1>4, <2>1, <2>2, <2>3 DEF Differences, DeltaExact, pqos_mon_get_value, Worth
<1> QED
  BY <1>7, <1>8, <1>9, <1>10, <1>11, <1>12, <1>13, <1>14, <1>15, <1>16, <1>17 DEF PollInv

-----------------------------------------------------------------------------
(***************************************************************************)
(* Readings that are not of resctrl.                                       *)
(***************************************************************************)
\* Nothing but the values of e is touched; counters may be reset.
Others(e, o) ==
  /\ o.fs = fs /\ o.grp.store = grp.store /\ o.grp.tel = grp.tel /\ o.grp.ts = grp.ts
  /\ o.grp.prev = grp.prev /\ o.grp.power = grp.power /\ o.grp.valid = grp.valid
  /\ \A k \in Keys(setup) : o.cnt[k] = cnt[k] \/ (k[1] = e /\ \A u \in Unit : o.cnt[k][u] = 0)
  /\ \A slot \in Slots(setup) :
       slot[1] # e => o.grp.val[slot] = grp.val[slot] /\ o.grp.dlt[slot] = grp.dlt[slot]
  /\ \A k \in o.stored : k[1] = e

OwnAt(e, o, slot) ==
  LET k == KeyOf(setup, slot)
  IN  /\ k \notin GapAfter(e, o) \/ (Cyclic(k) /\ k \in fresh \cup o.stored) =>
           Balanced(o.grp, o.cnt[k], SinceAfter(k, o), slot)
      /\ o.grp.dlt[slot] = ExactAfter(k, o) * Worth(e)

Own(e, o) ==
  /\ o.ret = "OK" => \A k \in Keys(setup) : k[1] = e => k \in o.stored
  /\ e \notin Gauges =>
       \A slot \in Slots(setup) : slot[1] = e /\ Clean(KeyOf(setup, slot), o) => OwnAt(e, o, slot)

LEMMA LocalReading ==
  ASSUME PollInv, phase = "poll", NEW e \in todo, e \notin setup.resctrl, NEW o,
         Typed(o), Flagging(e, o), NarrowValues(o.grp), Others(e, o), Own(e, o)
  PROVE  Reading(e, o)
<1>1. PollTypeOK /\ setup \in Setups \cup {NoSetup} /\ phase # "off"
  BY DEF PollInv, PollTypeOK
<1>2. \A k \in Keys(setup) : cnt[k] \in [Unit -> Nat] /\ o.cnt[k] \in [Unit -> Nat]
  BY <1>1 DEF PollTypeOK, Typed
<1>3. Totals(o)
  BY <1>2 DEF Totals, Others
<1>4. DirsCover(o.fs, o.cnt)
  <2>1. DirsCover(fs, cnt)
    BY <1>1 DEF PollInv, Dirs
  <2> QED
    BY <2>1 DEF Others, DirsCover
<1>5. Balancing(e, o)
  <2> SUFFICES ASSUME NEW slot \in Slots(setup), slot[1] \notin Gauges, Clean(KeyOf(setup, slot), o),
                      KeyOf(setup, slot) \notin GapAfter(e, o)
                        \/ (Cyclic(KeyOf(setup, slot)) /\ KeyOf(setup, slot) \in fresh \cup o.stored)
               PROVE  Balanced(o.grp, o.cnt[KeyOf(setup, slot)], SinceAfter(KeyOf(setup, slot), o), slot)
    BY DEF Balancing
  <2> DEFINE k == KeyOf(setup, slot)
  <2>1. k \in Keys(setup) /\ k[1] = slot[1]
    BY <1>1, SlotIs
  <2>2. CASE slot[1] = e
    BY <2>2 DEF Own, OwnAt
  <2>3. CASE slot[1] # e
    <3>1. k \notin o.stored /\ o.cnt[k] = cnt[k] /\ SinceAfter(k, o) = since[k]
      BY <2>1, <2>3 DEF Others, SinceAfter
    <3>2. k \in gap => k \in GapAfter(e, o)
      BY <3>1 DEF GapAfter
    <3>3. Balanced(grp, cnt[k], since[k], slot)
      BY <1>1, <3>1, <3>2 DEF PollInv, Balance, Clean
    <3> QED
      BY <2>3, <3>1, <3>3 DEF Others, Balanced
  <2> QED
    BY <2>2, <2>3
<1>6. Differences(o)
  <2> SUFFICES ASSUME NEW slot \in Slots(setup), slot[1] \notin Gauges \cup Telemetry, Clean(KeyOf(setup, slot), o)
               PROVE  o.grp.dlt[slot] = ExactAfter(KeyOf(setup, slot), o) * Worth(slot[1])
    BY DEF Differences
  <2> DEFINE k == KeyOf(setup, slot)
  <2>1. k \in Keys(setup) /\ k[1] = slot[1]
    BY <1>1, SlotIs
  <2>2. CASE slot[1] = e
    BY <2>2 DEF Own, OwnAt
  <2>3. CASE slot[1] # e
    <3>1. k \notin o.stored /\ ExactAfter(k, o) = exact[k]
      BY <2>1, <2>3 DEF Others, ExactAfter
    <3>2. grp.dlt \in [Slots(setup) -> 0 .. Wide - 1]
      BY <1>1 DEF PollTypeOK, Group
    <3>3. grp.dlt[slot] = exact[k] * Worth(slot[1])
      BY <1>1, <3>2 DEF PollInv, DeltaExact, Clean, pqos_mon_get_value
    <3> QED
      BY <2>3, <3>1, <3>3 DEF Others
  <2> QED
    BY <2>2, <2>3
<1>7. Marks(e, o)
  <2>1. ~fatal(e, o.ret) => o.ret = "OK"
    BY DEF fatal
  <2> QED
    BY <2>1 DEF Marks, Others, Own
<1>8. Samples(o)
  <2>1. "energy" \in setup.resctrl => Energy \notin o.stored
    BY DEF Others, Energy, Key0
  <2>2. "energy" \in setup.resctrl => ExactAfter(Energy, o) = exact[Energy]
    BY <2>1 DEF ExactAfter
  <2> QED
    BY <1>1, <2>2 DEF PollInv, EnergyRight, Samples, Others, Clean
<1> QED
  BY <1>3, <1>4, <1>5, <1>6, <1>7, <1>8 DEF Reading

\* Readings that change no flag.
LEMMA FlagsSame ==
  ASSUME PollInv, phase = "poll", NEW e \in todo, e \notin setup.resctrl, NEW o,
         o.ret \in {"OK", "ERROR", "UNAVAILABLE"},
         o.grp.valid = grp.valid, o.grp.ts = grp.ts, o.grp.ioRead = grp.ioRead, o.grp.mbmRead = grp.mbmRead,
         \A k \in o.stored : k[1] = e /\ (k[1] \in Gauges \/ k \notin gap \/ (setup.inter = "MSR" /\ e \in setup.hw \cap Mbm)),
         ~ByRegion(setup, e) \/ o.stored = {}
  PROVE  Flagging(e, o)
<1>1. Flagged(grp, gap) /\ RegionsRead(grp, fresh)
  BY DEF PollInv, Flags
<1>2. \A k : k[1] \notin Gauges => (k \in GapAfter(e, o) <=> k \in gap)
  BY DEF GapAfter
<1>3. Flagged(o.grp, GapAfter(e, o))
  <2>1. \A k : Unbased(setup, o.grp, k) <=> Unbased(setup, grp, k)
    BY DEF Unbased
  <2> QED
    BY <1>1, <1>2, <2>1 DEF Flagged
<1>4. RegionsRead(o.grp, fresh \cup o.stored)
  BY <1>1 DEF RegionsRead, ByRegion
<1> QED
  BY <1>3, <1>4 DEF Flagging

IsOutcome(o, g, status, stored) ==
  /\ o.grp = g /\ o.cnt = cnt /\ o.fs = fs /\ o.ret = status /\ o.stored = stored /\ o.spoil = {}

LEMMA OutcomeIs ==
  ASSUME NEW g, NEW status, NEW stored
  PROVE  IsOutcome(Outcome(g, status, stored), g, status, stored)
  BY DEF Outcome, IsOutcome

\* A reading that fails leaves everything, or the value of a gauge, behind.
LEMMA FailedReading ==
  ASSUME PollInv, phase = "poll", NEW e \in todo, e \notin setup.resctrl, NEW o,
         NEW status \in {"ERROR", "UNAVAILABLE"}, IsOutcome(o, grp, status, {})
  PROVE  Reading(e, o)
<1>1. PollTypeOK /\ setup \in Setups \cup {NoSetup} /\ phase # "off"
  BY DEF PollInv, PollTypeOK
<1>2. o.grp = grp /\ o.cnt = cnt /\ o.fs = fs /\ o.ret = status /\ o.stored = {} /\ o.spoil = {}
  BY DEF IsOutcome
<1>3. Typed(o)
  BY <1>1, <1>2 DEF PollTypeOK, Typed
<1>4. Flagging(e, o)
  BY <1>2, FlagsSame
<1>5. NarrowValues(o.grp)
  BY <1>1, <1>2 DEF PollInv, Narrow
<1>6. Others(e, o)
  BY <1>2 DEF Others
<1>7. Own(e, o)
  <2> SUFFICES ASSUME NEW slot \in Slots(setup), slot[1] = e, e \notin Gauges, Clean(KeyOf(setup, slot), o)
               PROVE  OwnAt(e, o, slot)
    BY <1>2 DEF Own
  <2> DEFINE k == KeyOf(setup, slot)
  <2>1. k \in gap => k \in GapAfter(e, o)
    BY <1>2 DEF GapAfter
  <2>2. SinceAfter(k, o) = since[k] /\ ExactAfter(k, o) = exact[k]
    BY <1>2 DEF SinceAfter, ExactAfter
  <2>3. k \notin GapAfter(e, o) \/ (Cyclic(k) /\ k \in fresh \cup o.stored) => Balanced(grp, cnt[k], since[k], slot)
    BY <1>1, <1>2, <2>1 DEF PollInv, Balance, Clean
  <2>4. slot[1] \notin Telemetry
    <3>1. e \in Polled(setup) /\ setup.inter \in {"MSR", "OS", "MMIO"}
      BY <1>1, SetupIs DEF PollInv, Processed
    <3> QED
      BY <1>1, <3>1, Sources, EventNames DEF Polled
  <2>5. grp.dlt[slot] = exact[k] * Worth(e)
    <3>1. grp.dlt \in [Slots(setup) -> 0 .. Wide - 1]
      BY <1>1 DEF PollTypeOK, Group
    <3> QED
      BY <1>1, <2>4, <3>1 DEF PollInv, DeltaExact, Clean, pqos_mon_get_value
  <2> QED
    BY <1>2, <2>2, <2>3, <2>5 DEF OwnAt
<1> QED
  BY <1>3, <1>4, <1>5, <1>6, <1>7, LocalReading

\* The group with a new value and a new delta at a slot.
Put(slot, v, d) == [grp EXCEPT !.val[slot] = v, !.dlt[slot] = d]

\* g is the group with v and d at slot, up to its two flags.
IsPut(g, slot, v, d) ==
  /\ g \in Group(setup)
  /\ g.val = [grp.val EXCEPT ![slot] = v] /\ g.dlt = [grp.dlt EXCEPT ![slot] = d]
  /\ g.store = grp.store /\ g.tel = grp.tel /\ g.ts = grp.ts /\ g.prev = grp.prev
  /\ g.power = grp.power /\ g.valid = grp.valid

LEMMA PutIs ==
  ASSUME grp \in Group(setup), NEW slot \in Slots(setup), NEW v \in 0 .. Wide - 1, NEW d \in 0 .. Wide - 1
  PROVE  /\ IsPut(Put(slot, v, d), slot, v, d)
         /\ Put(slot, v, d).mbmRead = grp.mbmRead /\ Put(slot, v, d).ioRead = grp.ioRead
<1> DEFINE g == Put(slot, v, d)
<1>1. g = [[grp EXCEPT !.val = [grp.val EXCEPT ![slot] = v]] EXCEPT !.dlt = [grp.dlt EXCEPT ![slot] = d]]
  BY DEF Group, Put
<1>2. [grp.val EXCEPT ![slot] = v] \in [Slots(setup) -> 0 .. Wide - 1]
      /\ [grp.dlt EXCEPT ![slot] = d] \in [Slots(setup) -> 0 .. Wide - 1]
  BY DEF Group
<1> HIDE DEF g
<1>3. g \in Group(setup)
  BY <1>1, <1>2 DEF Group
<1>4. g.val = [grp.val EXCEPT ![slot] = v] /\ g.dlt = [grp.dlt EXCEPT ![slot] = d]
      /\ g.store = grp.store /\ g.tel = grp.tel /\ g.ts = grp.ts /\ g.prev = grp.prev
      /\ g.power = grp.power /\ g.valid = grp.valid /\ g.mbmRead = grp.mbmRead /\ g.ioRead = grp.ioRead
  BY <1>1 DEF Group
<1> QED
  BY <1>3, <1>4 DEF IsPut, g

\* What is stored for an event with one key.
OnePut(e, o, v, d) ==
  /\ Typed(o) /\ Others(e, o)
  /\ o.grp.val[Key0(e)] = v /\ o.grp.dlt[Key0(e)] = d
  /\ Key0(e) \in Keys(setup) /\ Key0(e) \in Slots(setup) /\ KeyOf(setup, Key0(e)) = Key0(e)
  /\ \A k \in Keys(setup) : k[1] = e => k = Key0(e)
  /\ \A slot \in Slots(setup) : slot[1] = e => slot = Key0(e)

LEMMA PutOthers ==
  ASSUME PollInv, phase = "poll", NEW e \in todo, ~ByRegion(setup, e), NEW o,
         NEW v, NEW d, IsPut(o.grp, Key0(e), v, d), o.cnt = cnt, o.fs = fs, o.stored \subseteq {Key0(e)},
         o.ret \in {"OK", "ERROR", "UNAVAILABLE", "OVERFLOW"},
         \A x \in o.spoil : x[2] \in {"foreign", "overflow", "twice", "unread", "wrap"}
  PROVE  OnePut(e, o, v, d)
<1>1. PollTypeOK /\ setup \in Setups \cup {NoSetup} /\ e \in Polled(setup)
  BY DEF PollInv, PollTypeOK, Processed
<1>2. /\ Key0(e) \in Keys(setup) /\ Key0(e) \in Slots(setup) /\ Key0(e)[1] = e
      /\ KeyOf(setup, Key0(e)) = Key0(e)
      /\ \A k \in Keys(setup) : k[1] = e => k = Key0(e)
      /\ \A slot \in Slots(setup) : slot[1] = e => slot = Key0(e)
  BY <1>1, OneKey
<1>3. Typed(o)
  BY <1>1, <1>2 DEF PollTypeOK, Typed, IsPut
<1>4. grp.val \in [Slots(setup) -> 0 .. Wide - 1] /\ grp.dlt \in [Slots(setup) -> 0 .. Wide - 1]
  BY <1>1 DEF PollTypeOK, Group
<1>5. /\ o.grp.val[Key0(e)] = v /\ o.grp.dlt[Key0(e)] = d
      /\ \A slot \in Slots(setup) : slot # Key0(e) => o.grp.val[slot] = grp.val[slot] /\ o.grp.dlt[slot] = grp.dlt[slot]
  BY <1>2, <1>4 DEF IsPut
<1>6. Others(e, o)
  BY <1>2, <1>5 DEF Others, IsPut
<1> QED
  BY <1>2, <1>3, <1>5, <1>6 DEF OnePut

\* A key that always has a baseline.
LEMMA Based ==
  ASSUME PollInv, phase = "poll", NEW k \in Keys(setup),
         k[1] \in (setup.hw \cap (Pmu \cup {"pcie"})) \cup setup.perf, k[1] \notin Gauges
  PROVE  k \notin gap
<1>1. setup \in Setups \cup {NoSetup} /\ Flagged(grp, gap) /\ setup.inter \in {"MSR", "OS", "MMIO"}
  BY SetupIs DEF PollInv, PollTypeOK, Flags
<1>2. setup.hw \cap setup.perf = {} /\ setup.perf \cap setup.resctrl = {} /\ setup.hw \cap setup.resctrl = {}
      /\ (setup.inter = "OS" => setup.hw = {})
  BY <1>1, Sources
<1>3. ~Unbased(setup, grp, k)
  <2>1. k[1] \notin setup.resctrl /\ k[1] \notin setup.hw \cap ({"io_total", "io_miss"} \cup Mbm)
    BY <1>2, EventNames
  <2> QED
    BY <2>1 DEF Unbased, Classic
<1> QED
  BY <1>1, <1>3 DEF Flagged

\* perf_mon_poll(), mon_read_perf() and uncore_mon_poll() when they succeed.
LEMMA SumReading ==
  ASSUME PollInv, phase = "poll", NEW e \in todo,
         e \in (setup.hw \cap (Pmu \cup {"pcie"})) \cup setup.perf,
         NEW d \in 0 .. Wide - 1,
         e \notin Gauges => \A n \in Nat : SumOf(cnt[Key0(e)]) = grp.val[Key0(e)] + n => d = n,
         NEW o, IsOutcome(o, Put(Key0(e), SumOf(cnt[Key0(e)]), d), "OK", {Key0(e)})
  PROVE  Reading(e, o)
<1> DEFINE k == Key0(e)
           v == SumOf(cnt[k])
<1>1. PollTypeOK /\ setup \in Setups \cup {NoSetup} /\ phase # "off" /\ setup.inter \in {"MSR", "OS", "MMIO"}
      /\ grp \in Group(setup)
  BY SetupIs DEF PollInv, PollTypeOK
<1>2. e \notin setup.resctrl /\ ~ByRegion(setup, e) /\ e \in Polled(setup)
      /\ ~(setup.inter = "MSR" /\ e \in Mbm) /\ e \notin Telemetry
  BY <1>1, Sources, EventNames DEF ByRegion, Polled
<1>3. k \in Keys(setup) /\ k \in Slots(setup) /\ k[1] = e /\ KeyOf(setup, k) = k
  BY <1>1, <1>2, OneKey
<1>4. ~Cyclic(k)
  BY <1>2, <1>3 DEF Cyclic
<1>5. cnt[k] \in [Unit -> Nat] /\ v \in Nat
  BY <1>1, <1>3, SumType DEF PollTypeOK
<1>6. v \in 0 .. Wide - 1
  <2>1. v <= spent.traffic + OldContent
    BY <1>1, <1>3, <1>4 DEF PollInv, Bounded
  <2>2. spent.traffic \in Nat /\ spent.traffic <= MaxTraffic
    BY <1>1, BoundAssumption DEF PollTypeOK
  <2> QED
    BY <1>5, <2>1, <2>2, Fits, Positive DEF MostCounted
<1>7. /\ o.grp = Put(k, v, d) /\ o.cnt = cnt /\ o.fs = fs /\ o.ret = "OK" /\ o.stored = {k} /\ o.spoil = {}
  BY DEF IsOutcome
<1> HIDE DEF v
<1>8. IsPut(o.grp, k, v, d) /\ o.grp.mbmRead = grp.mbmRead /\ o.grp.ioRead = grp.ioRead
  BY <1>1, <1>3, <1>6, <1>7, PutIs
<1>9. /\ Typed(o) /\ Others(e, o)
      /\ o.grp.val[k] = v /\ o.grp.dlt[k] = d
      /\ \A x \in Keys(setup) : x[1] = e => x = k
      /\ \A slot \in Slots(setup) : slot[1] = e => slot = k
  <2>1. o.stored \subseteq {k} /\ o.ret \in {"OK", "ERROR", "UNAVAILABLE", "OVERFLOW"} /\ o.cnt = cnt /\ o.fs = fs
        /\ \A x \in o.spoil : x[2] \in {"foreign", "overflow", "twice", "unread", "wrap"}
    BY <1>7
  <2>2. ~ByRegion(setup, e) /\ IsPut(o.grp, k, v, d)
    BY <1>2, <1>8
  <2>3. OnePut(e, o, v, d)
    BY <2>1, <2>2, PutOthers
  <2> QED BY <2>3 DEF OnePut
<1>10. e \notin Gauges => k \notin gap
  BY <1>3, Based
<1>11. Flagging(e, o)
  <2>1. \A x \in o.stored : x[1] = e /\ (x[1] \in Gauges \/ x \notin gap \/ (setup.inter = "MSR" /\ e \in setup.hw \cap Mbm))
    BY <1>3, <1>7, <1>10
  <2>2. o.ret \in {"OK", "ERROR", "UNAVAILABLE"} /\ o.grp.valid = grp.valid /\ o.grp.ts = grp.ts
        /\ o.grp.ioRead = grp.ioRead /\ o.grp.mbmRead = grp.mbmRead
    BY <1>7, <1>8 DEF IsPut
  <2> QED
    BY <1>2, <2>1, <2>2, FlagsSame
<1>12. NarrowValues(o.grp)
  <2>1. \A slot \in Slots(setup) : Cyclic(slot) => slot[1] # e
    BY <1>2 DEF Cyclic
  <2> QED
    BY <1>1, <1>9, <2>1 DEF PollInv, Narrow, NarrowValues, Others
<1>13. Own(e, o)
  <2> SUFFICES ASSUME NEW slot \in Slots(setup), slot[1] = e, e \notin Gauges, Clean(KeyOf(setup, slot), o)
               PROVE  OwnAt(e, o, slot)
    BY <1>7, <1>9 DEF Own
  <2>1. slot = k /\ KeyOf(setup, slot) = k
    BY <1>3, <1>9
  <2>2. SinceAfter(k, o) = 0 /\ ExactAfter(k, o) = since[k] /\ since[k] \in Nat
    BY <1>1, <1>3, <1>7, <1>10 DEF SinceAfter, ExactAfter, PollTypeOK
  <2>3. Worth(e) = 1
    BY <1>1, <1>2, Sources DEF Worth
  <2>4. Balanced(grp, cnt[k], since[k], k)
    BY <1>1, <1>3, <1>10, <2>1 DEF PollInv, Balance, Clean
  <2>5. e \notin (setup.resctrl \cap Mbm) \cup {"energy"}
    BY <1>2, EventNames
  <2>6. grp.val[k] \in Nat
    BY <1>1, <1>3, Positive DEF Group
  <2>7. v = grp.val[k] + since[k]
    <3>1. Worth(e) * v = grp.val[k] + Worth(e) * since[k]
      BY <1>3, <1>4, <2>4, <2>5 DEF Balanced, v
    <3> QED
      BY <1>5, <2>2, <2>3, <2>6, <3>1
  <2>8. d = since[k] /\ d * Worth(e) = d
    BY <2>2, <2>3, <2>7 DEF v
  <2>9. Balanced(o.grp, o.cnt[k], 0, k)
    <3>1. Worth(e) * v = v + Worth(e) * 0
      BY <1>5, <2>3
    <3> QED
      BY <1>3, <1>4, <1>7, <1>9, <2>5, <3>1 DEF Balanced, v
  <2> QED
    BY <1>9, <2>1, <2>2, <2>8, <2>9 DEF OwnAt
<1> QED
  BY <1>2, <1>9, <1>11, <1>12, <1>13, LocalReading

\* A reading of a gauge, whatever it leaves.
LEMMA GaugeReading ==
  ASSUME PollInv, phase = "poll", NEW e \in todo, e \in Gauges \ setup.resctrl,
         NEW v \in 0 .. Wide - 1, NEW o, IsPut(o.grp, Key0(e), v, grp.dlt[Key0(e)]),
         o.grp.mbmRead = grp.mbmRead, o.grp.ioRead = grp.ioRead,
         o.cnt = cnt, o.fs = fs, o.ret \in {"OK", "ERROR", "UNAVAILABLE"},
         o.stored = IF o.ret = "OK" THEN {Key0(e)} ELSE {},
         \A x \in o.spoil : x[2] \in {"foreign", "overflow", "twice", "unread", "wrap"}
  PROVE  Reading(e, o)
<1>1. ~ByRegion(setup, e) /\ e \notin Mbm
  BY EventNames DEF ByRegion
<1>2. /\ Typed(o) /\ Others(e, o) /\ \A x \in Keys(setup) : x[1] = e => x = Key0(e)
  <2>1. OnePut(e, o, v, grp.dlt[Key0(e)])
    BY <1>1, PutOthers
  <2> QED BY <2>1 DEF OnePut
<1>3. Flagging(e, o)
  <2>1. \A k \in o.stored : k[1] = e
    BY DEF Key0
  <2> QED
    BY <1>1, <2>1, FlagsSame DEF IsPut
<1>4. NarrowValues(o.grp)
  <2>1. \A slot \in Slots(setup) : Cyclic(slot) => slot[1] # e
    BY <1>1 DEF Cyclic
  <2> QED
    BY <1>2, <2>1 DEF PollInv, Narrow, NarrowValues, Others
<1>5. Own(e, o)
  BY <1>2 DEF Own
<1> QED
  BY <1>2, <1>3, <1>4, <1>5, LocalReading

LEMMA PutValue ==
  ASSUME grp \in Group(setup), NEW slot \in Slots(setup), NEW v
  PROVE  [grp EXCEPT !.val[slot] = v] = Put(slot, v, grp.dlt[slot])
<1>1. grp.dlt = [grp.dlt EXCEPT ![slot] = grp.dlt[slot]]
  BY DEF Group
<1>2. grp = [grp EXCEPT !.dlt = grp.dlt]
  BY DEF Group
<1> QED
  BY <1>1, <1>2 DEF Group, Put

\* What a poll computes from the counters of a unit fits.
LEMMA CountFits ==
  ASSUME PollInv, phase = "poll", NEW k \in Keys(setup), ~Cyclic(k)
  PROVE  /\ cnt[k] \in [Unit -> Nat] /\ SumOf(cnt[k]) \in Nat /\ SumOf(cnt[k]) <= MostCounted
         /\ SumOf(cnt[k]) \in 0 .. Wide - 1
<1>1. PollTypeOK
  BY DEF PollInv
<1>2. cnt[k] \in [Unit -> Nat] /\ SumOf(cnt[k]) \in Nat
  BY <1>1, SumType DEF PollTypeOK
<1>3. SumOf(cnt[k]) <= spent.traffic + OldContent
  BY DEF PollInv, Bounded
<1>4. spent.traffic \in Nat /\ spent.traffic <= MaxTraffic
  BY <1>1, BoundAssumption DEF PollTypeOK
<1>5. SumOf(cnt[k]) <= MostCounted
  BY <1>2, <1>3, <1>4, Fits, Positive DEF MostCounted
<1> QED
  BY <1>2, <1>5, Fits, Positive

\* The sum over some of the units is not more than that over all.
LEMMA SumInIs ==
  ASSUME NEW f \in [Unit -> Nat], NEW units
  PROVE  SumIn(f, units) \in Nat /\ SumIn(f, units) <= SumOf(f)
<1> DEFINE h == [u \in Unit |-> IF u \in units THEN f[u] ELSE 0]
<1>1. h \in [Unit -> Nat] /\ \A u \in Unit : h[u] <= f[u]
  OBVIOUS
<1>2. SumIn(f, units) = SumOf(h)
  BY DEF SumIn
<1> HIDE DEF h
<1> QED
  BY <1>1, <1>2, SumMono, SumType

\* mmio_mon_read_counter() for an occupancy.
LEMMA OccupReading ==
  ASSUME PollInv, phase = "poll", NEW e \in todo, e \in setup.hw \cap {"l3", "io_l3"}, setup.inter = "MMIO", NEW fault
  PROVE  Reading(e, mmio_read_occup(e, fault))
<1> DEFINE k == Key0(e)
           o == mmio_read_occup(e, fault)
           part == scale_event(SumIn(cnt[k], Unit \ {Cardinality(Unit)}))
           v == IF fault \in {"mmio", "noton"} THEN part ELSE scale_event(SumOf(cnt[k]))
           status == IF fault = "mmio" THEN "ERROR" ELSE IF fault = "noton" THEN "UNAVAILABLE" ELSE "OK"
<1>1. PollTypeOK /\ setup \in Setups \cup {NoSetup} /\ e \in Polled(setup) /\ ~ByRegion(setup, e)
      /\ grp \in Group(setup)
  BY DEF PollInv, PollTypeOK, Processed, ByRegion
<1>2. k \in Keys(setup) /\ k \in Slots(setup) /\ k[1] = e /\ ~Cyclic(k)
  BY <1>1, OneKey DEF Cyclic
<1>3. v \in 0 .. Wide - 1
  <2>1. cnt[k] \in [Unit -> Nat] /\ SumOf(cnt[k]) \in Nat /\ SumOf(cnt[k]) <= MostCounted
    BY <1>2, CountFits
  <2>2. SumIn(cnt[k], Unit \ {Cardinality(Unit)}) \in Nat /\ SumIn(cnt[k], Unit \ {Cardinality(Unit)}) <= MostCounted
    BY <2>1, SumInIs, Fits, Positive
  <2> QED
    BY <2>1, <2>2, ScaleFits
<1>4. IsOutcome(o, [grp EXCEPT !.val[k] = v], status, IF status = "OK" THEN {k} ELSE {})
  BY OutcomeIs DEF mmio_read_occup, Outcome, IsOutcome
<1>5. [grp EXCEPT !.val[k] = v] = Put(k, v, grp.dlt[k])
  BY <1>1, <1>2, PutValue
<1>6. status \in {"OK", "ERROR", "UNAVAILABLE"}
  OBVIOUS
<1>7. e \in Gauges \ setup.resctrl
  BY <1>1, Sources, EventNames
<1>8. grp.dlt[k] \in 0 .. Wide - 1
  BY <1>1, <1>2 DEF Group
<1> HIDE DEF o, v, status
<1>9. IsPut(o.grp, k, v, grp.dlt[k]) /\ o.grp.mbmRead = grp.mbmRead /\ o.grp.ioRead = grp.ioRead
  BY <1>1, <1>2, <1>3, <1>4, <1>5, <1>8, PutIs DEF IsOutcome
<1>10. o.cnt = cnt /\ o.fs = fs /\ o.ret \in {"OK", "ERROR", "UNAVAILABLE"}
       /\ o.stored = (IF o.ret = "OK" THEN {Key0(e)} ELSE {}) /\ o.spoil = {}
  BY <1>4, <1>6 DEF IsOutcome
<1>11. Reading(e, o)
  BY <1>3, <1>7, <1>9, <1>10, GaugeReading
<1> QED
  BY <1>11 DEF o

\* The flags of the bandwidth counters and of the ones of I/O.
LEMMA MbmFlag ==
  ASSUME NEW s \in Setups \cup {NoSetup}, NEW k \in Keys(s), k[1] \in s.hw \cap Mbm, NEW g
  PROVE  Unbased(s, g, k) <=> ~g.mbmRead
<1>1. k[1] \notin s.resctrl /\ k[1] # "energy" /\ k[1] \notin {"io_total", "io_miss"}
  BY Sources, EventNames
<1>2. k # Energy
  BY <1>1 DEF Energy, Key0
<1> QED
  BY <1>1, <1>2 DEF Unbased, Classic

LEMMA IoFlag ==
  ASSUME NEW s \in Setups \cup {NoSetup}, NEW k \in Keys(s), k[1] \in s.hw \cap {"io_total", "io_miss"}, NEW g
  PROVE  Unbased(s, g, k) <=> k[1] \notin g.ioRead
<1>1. k[1] \notin s.resctrl /\ k[1] # "energy" /\ k[1] \notin Mbm
  BY Sources, EventNames
<1>2. k # Energy
  BY <1>1 DEF Energy, Key0
<1> QED
  BY <1>1, <1>2 DEF Unbased, Classic

MbmOutcome(e, o, sum, own, wrapped, d) ==
  /\ own => sum = (SumOf(cnt[Key0(e)]) % Modulus)
  /\ d = IF grp.mbmRead THEN scale_event(get_delta(Modulus, grp.val[Key0(e)], sum)) ELSE 0
  /\ o.grp = [Put(Key0(e), sum, d) EXCEPT !.mbmRead = IF wrapped THEN FALSE ELSE grp.mbmRead]
  /\ o.cnt = cnt /\ o.fs = fs /\ o.ret = (IF wrapped THEN "OVERFLOW" ELSE "OK") /\ o.stored = {Key0(e)}
  /\ o.spoil = IF own THEN {} ELSE {<<Key0(e), "foreign">>}

\* A counter of the MSRs in 24 or 32 bits that has been read: `own` says that
\* the data is ours, `wrapped` that the counter is said to have gone round.
LEMMA MbmReading ==
  ASSUME PollInv, phase = "poll", NEW e \in todo, e \in setup.hw \cap Mbm, setup.inter = "MSR",
         NEW sum \in 0 .. Modulus - 1, NEW own \in BOOLEAN, NEW wrapped \in BOOLEAN,
         NEW d, NEW o, MbmOutcome(e, o, sum, own, wrapped, d)
  PROVE  Reading(e, o)
<1> DEFINE k == Key0(e)
<1> USE DEF MbmOutcome
<1>1. PollTypeOK /\ setup \in Setups \cup {NoSetup} /\ e \in Polled(setup) /\ ~ByRegion(setup, e)
      /\ grp \in Group(setup) /\ phase # "off"
  BY DEF PollInv, PollTypeOK, Processed, ByRegion
<1>2. k \in Keys(setup) /\ k \in Slots(setup) /\ k[1] = e /\ KeyOf(setup, k) = k /\ Cyclic(k)
  BY <1>1, OneKey DEF Cyclic
<1>3. e \notin setup.resctrl /\ e \notin Gauges /\ Worth(e) = Scale
  BY <1>1, Sources, EventNames DEF Worth
<1>4. cnt[k] \in [Unit -> Nat] /\ SumOf(cnt[k]) \in Nat /\ since[k] \in Nat /\ since[k] < Modulus
  BY <1>1, <1>2, SumType DEF PollTypeOK, PollInv, Narrow
<1>5. grp.val[k] \in 0 .. Modulus - 1
  <2>1. grp.val[k] < Modulus
    BY <1>1, <1>2 DEF PollInv, Narrow, NarrowValues
  <2>2. grp.val[k] \in Nat
    BY <1>1, <1>2, Positive DEF Group
  <2> QED
    BY <2>1, <2>2, Positive
<1>6. d \in 0 .. Wide - 1 /\ sum \in 0 .. Wide - 1
  <2>1. get_delta(Modulus, grp.val[k], sum) \in Nat /\ get_delta(Modulus, grp.val[k], sum) < Modulus
    BY <1>5, Positive DEF get_delta
  <2>2. scale_event(get_delta(Modulus, grp.val[k], sum)) \in 0 .. Wide - 1
    BY <2>1, ScaleFits
  <2> QED
    BY <2>2, Fits, Positive
<1>7. k \in gap <=> ~grp.mbmRead
  <2>1. k \in gap <=> Unbased(setup, grp, k)
    BY <1>1, <1>2, <1>3 DEF PollInv, Flags, Flagged
  <2>2. Unbased(setup, grp, k) <=> ~grp.mbmRead
    BY <1>1, <1>2, MbmFlag
  <2> QED BY <2>1, <2>2
<1> DEFINE m == IF wrapped THEN FALSE ELSE grp.mbmRead
<1>8. IsPut(o.grp, k, sum, d) /\ o.grp.mbmRead = m /\ o.grp.ioRead = grp.ioRead
  <2> DEFINE p == Put(k, sum, d)
  <2>1. IsPut(p, k, sum, d) /\ p.mbmRead = grp.mbmRead /\ p.ioRead = grp.ioRead
    BY <1>1, <1>2, <1>6, PutIs
  <2>2. o.grp = [p EXCEPT !.mbmRead = m]
    OBVIOUS
  <2>3. m \in BOOLEAN
    BY <1>1 DEF Group
  <2> HIDE DEF p, m
  <2>4. p \in Group(setup)
    BY <2>1 DEF IsPut
  <2>5. o.grp \in Group(setup)
    BY <2>2, <2>3, <2>4 DEF Group
  <2>6. o.grp.mbmRead = m /\ o.grp.ioRead = p.ioRead /\ o.grp.val = p.val /\ o.grp.dlt = p.dlt /\ o.grp.store = p.store
        /\ o.grp.tel = p.tel /\ o.grp.ts = p.ts /\ o.grp.prev = p.prev /\ o.grp.power = p.power /\ o.grp.valid = p.valid
    BY <2>2, <2>4 DEF Group
  <2> QED
    BY <2>1, <2>5, <2>6 DEF IsPut
<1>9. OnePut(e, o, sum, d)
  BY <1>1, <1>8, PutOthers
<1>10. Flagging(e, o)
  <2>1. Flagged(grp, gap) /\ RegionsRead(grp, fresh)
    BY <1>1 DEF PollInv, Flags
  <2>2. GapAfter(e, o) = gap \cup (IF wrapped THEN {x \in Keys(setup) : x[1] \in Mbm} ELSE {})
    <3>1. e \notin {"io_total", "io_miss"} /\ e \in setup.hw \cap Mbm
      BY EventNames
    <3>2. CASE wrapped
      <4>1. o.ret = "OVERFLOW"
        BY <3>2
      <4> QED BY <3>1, <3>2, <4>1 DEF GapAfter
    <3>3. CASE ~wrapped
      <4>1. o.ret = "OK"
        BY <3>3
      <4> QED BY <3>1, <3>3, <4>1 DEF GapAfter
    <3> QED
      BY <3>2, <3>3
  <2>3. ASSUME NEW x \in Keys(setup), x[1] \notin Gauges
        PROVE  x \in GapAfter(e, o) <=> Unbased(setup, o.grp, x)
    <3>1. x \in gap <=> Unbased(setup, grp, x)
      BY <2>1, <2>3 DEF Flagged
    <3>2. CASE ~wrapped
      <4>1. Unbased(setup, o.grp, x) <=> Unbased(setup, grp, x)
        BY <1>8, <3>2 DEF Unbased, IsPut
      <4> QED BY <2>2, <3>1, <3>2, <4>1
    <3>3. CASE wrapped /\ x[1] \in Mbm
      <4>1. x[1] \in setup.hw
        BY <1>1, <3>3, KeyIs, Sources, EventNames DEF Polled
      <4>2. ~o.grp.mbmRead
        BY <1>8, <3>3
      <4>3. Unbased(setup, o.grp, x)
        BY <1>1, <3>3, <4>1, <4>2, MbmFlag
      <4> QED BY <2>2, <3>3, <4>3
    <3>4. CASE wrapped /\ x[1] \notin Mbm
      <4>1. Unbased(setup, o.grp, x) <=> Unbased(setup, grp, x)
        BY <1>8, <3>4 DEF Unbased, IsPut, Classic
      <4> QED BY <2>2, <3>1, <3>4, <4>1
    <3> QED
      BY <3>2, <3>3, <3>4
  <2> QED
    BY <2>3 DEF Flagging, Flagged, RegionsRead
<1>11. NarrowValues(o.grp)
  <2>1. \A slot \in Slots(setup) : slot[1] # e => o.grp.val[slot] = grp.val[slot]
    BY <1>9 DEF OnePut, Others
  <2>2. \A slot \in Slots(setup) : slot[1] = e => o.grp.val[slot] = sum
    BY <1>9 DEF OnePut
  <2> QED
    BY <1>1, <2>1, <2>2, Positive DEF PollInv, Narrow, NarrowValues
<1>12. Own(e, o)
  <2> SUFFICES ASSUME NEW slot \in Slots(setup), slot[1] = e, Clean(KeyOf(setup, slot), o)
               PROVE  OwnAt(e, o, slot)
    BY <1>9 DEF Own, OnePut
  <2>1. slot = k /\ KeyOf(setup, slot) = k
    BY <1>9 DEF OnePut
  <2>2. own /\ spoilt[k] = {}
    <3>1. ~own => <<k, "foreign">> \in o.spoil /\ <<k, "foreign">>[1] = k
      OBVIOUS
    <3>2. \A x \in o.spoil : x[1] # k
      BY <2>1 DEF Clean
    <3> QED
      BY <2>1, <3>1, <3>2 DEF Clean
  <2>3. PICK q \in Int : SumOf(cnt[k]) = sum + q * Modulus
    BY <1>4, <2>2, Turned
  <2>4. Balanced(o.grp, cnt[k], 0, k)
    <3>1. SumOf(cnt[k]) = sum + 0 + q * Modulus
      BY <2>3
    <3>2. o.grp.val[k] = sum
      BY <1>9 DEF OnePut
    <3>3. \E i \in Int : SumOf(cnt[k]) = o.grp.val[k] + 0 + i * Modulus
      BY <3>1, <3>2
    <3> QED
      BY <1>2, <3>3, EventNames DEF Balanced, Cyclic
  <2>5. SinceAfter(k, o) = 0 /\ ExactAfter(k, o) = IF k \in gap THEN 0 ELSE since[k]
    BY DEF SinceAfter, ExactAfter
  <2>6. CASE k \in gap
    <3>1. d = 0 /\ 0 * Scale = 0
      BY <1>7, <2>6, Positive
    <3>2. o.grp.dlt[k] = ExactAfter(k, o) * Worth(e)
      BY <1>3, <1>9, <2>5, <2>6, <3>1 DEF OnePut
    <3> QED
      BY <2>1, <2>4, <2>5, <3>2 DEF OwnAt
  <2>7. CASE k \notin gap
    <3>1. Balanced(grp, cnt[k], since[k], k)
      BY <1>1, <1>2, <1>3, <2>2, <2>7 DEF PollInv, Balance
    <3>2. PICK i \in Int : SumOf(cnt[k]) = grp.val[k] + since[k] + i * Modulus
      BY <1>2, <3>1 DEF Balanced
    <3>3. get_delta(Modulus, grp.val[k], sum) = since[k]
      <4>1. since[k] \in 0 .. Modulus - 1
        BY <1>4, Positive
      <4>2. grp.val[k] + since[k] + i * Modulus = sum + q * Modulus
        BY <2>3, <3>2
      <4> QED
        BY <1>5, <4>1, <4>2, CycleDelta
    <3>4. d = since[k] * Scale
      BY <1>7, <2>7, <3>3 DEF scale_event
    <3>5. o.grp.dlt[k] = ExactAfter(k, o) * Worth(e)
      BY <1>3, <1>9, <2>5, <2>7, <3>4 DEF OnePut
    <3> QED
      BY <2>1, <2>4, <2>5, <3>5 DEF OwnAt
  <2> QED
    BY <2>6, <2>7
<1> QED
  BY <1>3, <1>9, <1>10, <1>11, <1>12, LocalReading DEF OnePut

\* hw_mon_read_counter(), for the MSRs, whatever its attempts meet.
LEMMA CounterReading ==
  ASSUME PollInv, phase = "poll", NEW e \in todo, e \in setup.hw \cap {"l3", "local", "total"},
         setup.inter = "MSR", NEW script
  PROVE  Reading(e, hw_mon_read_counter(e, script))
<1> DEFINE k == Key0(e)
           r == hw_mon_read(script)
           at == [u \in Unit |-> IF u = 1 /\ r.from # "own" THEN Modulus - 1 ELSE cnt[k][u]]
           sum == (SumOf(at) % Modulus)
           own == r.from = "own"
           local == IF Key0("local") \in Slots(setup) THEN grp.val[Key0("local")] ELSE 0
           wrapped == setup.is32 /\ e \in Mbm /\ local > sum
           d == IF grp.mbmRead THEN scale_event(get_delta(Modulus, grp.val[k], sum)) ELSE 0
           o == hw_mon_read_counter(e, script)
<1>1. PollTypeOK /\ setup \in Setups \cup {NoSetup} /\ e \in Polled(setup) /\ ~ByRegion(setup, e)
      /\ grp \in Group(setup) /\ e \notin setup.resctrl
  BY Sources DEF PollInv, PollTypeOK, Processed, ByRegion, Polled
<1>2. k \in Keys(setup) /\ k \in Slots(setup) /\ k[1] = e /\ cnt[k] \in [Unit -> Nat]
  BY <1>1, OneKey DEF PollTypeOK
<1>3. sum \in 0 .. Modulus - 1 /\ (own => sum = (SumOf(cnt[k]) % Modulus))
  <2>1. at \in [Unit -> Nat]
    BY <1>2, Positive
  <2>2. own => at = cnt[k]
    BY <1>2
  <2> HIDE DEF at, own
  <2>3. SumOf(at) \in Nat
    BY <2>1, SumType
  <2> QED
    BY <2>2, <2>3, Positive
<1>4. CASE r.ret # "OK"
  <2>1. IsOutcome(o, grp, "ERROR", {})
    BY <1>4, OutcomeIs DEF hw_mon_read_counter
  <2>2. Reading(e, o)
    <3> HIDE DEF o
    <3> QED BY <1>1, <2>1, FailedReading
  <2> QED BY <2>2
<1>5. CASE r.ret = "OK" /\ e = "l3"
  <2>1. o = [Outcome([grp EXCEPT !.val[k] = scale_event(sum)], IF wrapped THEN "OVERFLOW" ELSE "OK", {k})
               EXCEPT !.spoil = IF r.from = "own" THEN {} ELSE {<<k, "foreign">>}]
    BY <1>5 DEF hw_mon_read_counter
  <2>2. ~wrapped
    BY <1>5, EventNames
  <2> HIDE DEF sum, own, wrapped
  <2>3. o.grp = [grp EXCEPT !.val[k] = scale_event(sum)] /\ o.ret = "OK" /\ o.cnt = cnt /\ o.fs = fs
        /\ o.stored = {k} /\ o.spoil = IF r.from = "own" THEN {} ELSE {<<k, "foreign">>}
    BY <2>1, <2>2 DEF Outcome
  <2>4. scale_event(sum) \in 0 .. Wide - 1 /\ grp.dlt[k] \in 0 .. Wide - 1
    <3>1. sum \in Nat /\ sum < Modulus
      BY <1>3, Positive
    <3>2. scale_event(sum) \in 0 .. Wide - 1
      BY <3>1, ScaleFits
    <3>3. grp.dlt[k] \in 0 .. Wide - 1
      BY <1>1, <1>2 DEF Group
    <3> QED BY <3>2, <3>3
  <2>5. o.grp = Put(k, scale_event(sum), grp.dlt[k])
    BY <1>1, <1>2, <2>3, PutValue
  <2>6. \A x \in o.spoil : x[2] \in {"foreign", "overflow", "twice", "unread", "wrap"}
    BY <2>3
  <2> HIDE DEF o, r
  <2>7. IsPut(o.grp, k, scale_event(sum), grp.dlt[k]) /\ o.grp.mbmRead = grp.mbmRead /\ o.grp.ioRead = grp.ioRead
    BY <1>1, <1>2, <2>4, <2>5, PutIs
  <2>8. e \in Gauges \ setup.resctrl /\ o.ret \in {"OK", "ERROR", "UNAVAILABLE"}
        /\ o.stored = (IF o.ret = "OK" THEN {Key0(e)} ELSE {}) /\ o.cnt = cnt /\ o.fs = fs
    BY <1>1, <1>5, <2>3, EventNames
  <2>9. Reading(e, o)
    BY <2>4, <2>6, <2>7, <2>8, GaugeReading
  <2> QED BY <2>9 DEF o
<1>6. CASE r.ret = "OK" /\ e # "l3"
  <2>1. o = [Outcome([grp EXCEPT !.val[k] = sum, !.dlt[k] = d, !.mbmRead = IF wrapped THEN FALSE ELSE grp.mbmRead],
                     IF wrapped THEN "OVERFLOW" ELSE "OK", {k})
               EXCEPT !.spoil = IF r.from = "own" THEN {} ELSE {<<k, "foreign">>}]
    BY <1>6 DEF hw_mon_read_counter, overflow_valid
  <2>2. e \in setup.hw \cap Mbm
    BY <1>6, EventNames
  <2>3. d = IF grp.mbmRead THEN scale_event(get_delta(Modulus, grp.val[k], sum)) ELSE 0
    OBVIOUS
  <2>4. own \in BOOLEAN /\ wrapped \in BOOLEAN /\ (own <=> r.from = "own")
    <3>1. setup.is32 \in BOOLEAN
      BY <1>1, SetupIs DEF Setup
    <3> QED BY <3>1
  <2> HIDE DEF sum, own, wrapped, d
  <2>5. /\ o.grp = [grp EXCEPT !.val[k] = sum, !.dlt[k] = d, !.mbmRead = IF wrapped THEN FALSE ELSE grp.mbmRead]
        /\ o.ret = (IF wrapped THEN "OVERFLOW" ELSE "OK") /\ o.cnt = cnt /\ o.fs = fs /\ o.stored = {k}
        /\ o.spoil = (IF own THEN {} ELSE {<<k, "foreign">>})
    BY <2>1, <2>4 DEF Outcome
  <2>6. o.grp = [Put(k, sum, d) EXCEPT !.mbmRead = IF wrapped THEN FALSE ELSE grp.mbmRead]
    BY <1>1, <2>5 DEF Group, Put
  <2> HIDE DEF o, r
  <2>7. Reading(e, o)
    <3>1. MbmOutcome(e, o, sum, own, wrapped, d)
      BY <1>3, <2>3, <2>5, <2>6 DEF MbmOutcome
    <3> QED
      BY <1>3, <2>2, <2>4, <3>1, MbmReading
  <2> QED BY <2>7 DEF o
<1> QED
  BY <1>4, <1>5, <1>6

\* What a delta of a memory mapped counter is worth.
LEMMA ScaledDelta ==
  ASSUME NEW c \in Nat, c <= MostCounted, NEW old \in 0 .. Wide - 1, NEW n \in Nat,
         Scale * c = old + Scale * n
  PROVE  Minus(scale_event(c), old) = n * Scale /\ scale_event(c) \in 0 .. Wide - 1
<1>1. scale_event(c) \in 0 .. Wide - 1
  BY ScaleFits
<1>2. Scale * n \in Nat /\ Scale * n = n * Scale /\ Scale * c = c * Scale
  BY Positive
<1>3. scale_event(c) = old + Scale * n
  BY <1>2 DEF scale_event
<1>4. Minus(scale_event(c), old) = Scale * n
  BY <1>1, <1>2, <1>3, MinusIs
<1> QED
  BY <1>1, <1>2, <1>4

\* mmio_mon_read_counter() for I/O channels.
LEMMA IoReading ==
  ASSUME PollInv, phase = "poll", NEW e \in todo, e \in setup.hw \cap {"io_total", "io_miss"},
         setup.inter = "MMIO", NEW fault \in {"none", "mmio", "noton", "overflow"}
  PROVE  Reading(e, mmio_read_io(e, fault))
<1> DEFINE k == Key0(e)
           now == scale_event(SumOf(cnt[k]))
           d == IF e \in grp.ioRead THEN Minus(now, grp.val[k]) ELSE 0
           o == mmio_read_io(e, fault)
<1>1. PollTypeOK /\ setup \in Setups \cup {NoSetup} /\ e \in Polled(setup) /\ ~ByRegion(setup, e)
      /\ grp \in Group(setup) /\ e \notin setup.resctrl /\ phase # "off"
  BY Sources DEF PollInv, PollTypeOK, Processed, ByRegion, Polled
<1>2. k \in Keys(setup) /\ k \in Slots(setup) /\ k[1] = e /\ cnt[k] \in [Unit -> Nat] /\ ~Cyclic(k)
      /\ KeyOf(setup, k) = k /\ (\A x \in Keys(setup) : x[1] = e => x = k)
      /\ \A slot \in Slots(setup) : slot[1] = e => slot = k
  BY <1>1, OneKey DEF PollTypeOK, Cyclic
<1>3. e \notin Gauges /\ e \notin Mbm /\ Worth(e) = Scale /\ e # "energy" /\ e # "total"
  BY EventNames DEF Worth
<1>4. SumOf(cnt[k]) \in Nat /\ SumOf(cnt[k]) <= MostCounted
  BY <1>2, CountFits
<1>5. k \in gap <=> e \notin grp.ioRead
  <2>1. k \in gap <=> Unbased(setup, grp, k)
    BY <1>1, <1>2, <1>3 DEF PollInv, Flags, Flagged
  <2> QED BY <1>1, <1>2, <2>1, IoFlag
<1>6. Flagged(grp, gap) /\ RegionsRead(grp, fresh) /\ NarrowValues(grp)
  BY <1>1 DEF PollInv, Flags, Narrow
<1>7. CASE fault \in {"mmio", "noton"}
  <2>1. IsOutcome(o, grp, IF fault = "mmio" THEN "ERROR" ELSE "UNAVAILABLE", {})
    BY <1>7, OutcomeIs DEF mmio_read_io
  <2>2. Reading(e, o)
    <3> HIDE DEF o
    <3> QED BY <1>1, <2>1, FailedReading
  <2> QED BY <2>2
<1>8. CASE fault = "overflow"
  <2>1. o = [Outcome(io_overflow(e), "OVERFLOW", {}) EXCEPT !.cnt = [cnt EXCEPT ![k] = [u \in Unit |-> 0]]]
    BY <1>8 DEF mmio_read_io
  <2>2. o.grp = [grp EXCEPT !.ioRead = @ \ {e}] /\ o.cnt = [cnt EXCEPT ![k] = [u \in Unit |-> 0]] /\ o.fs = fs
        /\ o.ret = "OVERFLOW" /\ o.stored = {} /\ o.spoil = {}
    BY <2>1 DEF Outcome, io_overflow
  <2> HIDE DEF o
  <2>3. cnt \in [Keys(setup) -> [Unit -> Nat]]
    BY <1>1 DEF PollTypeOK
  <2>4. o.grp \in Group(setup) /\ o.grp.ioRead = grp.ioRead \ {e}
    BY <1>1, <2>2 DEF Group
  <2>5. o.grp.val = grp.val /\ o.grp.dlt = grp.dlt /\ o.grp.store = grp.store /\ o.grp.tel = grp.tel
        /\ o.grp.ts = grp.ts /\ o.grp.prev = grp.prev /\ o.grp.power = grp.power /\ o.grp.valid = grp.valid
        /\ o.grp.mbmRead = grp.mbmRead
    BY <1>1, <2>2 DEF Group
  <2>6. Typed(o)
    <3>1. o.cnt \in [Keys(setup) -> [Unit -> Nat]]
      BY <1>2, <2>2, <2>3
    <3>2. o.fs \in [dirs : SUBSET Unit, tag : Unit \cup {0}, at : Unit]
      BY <1>1, <2>2 DEF PollTypeOK
    <3> QED
      BY <2>2, <2>4, <3>1, <3>2 DEF Typed
  <2>7. Others(e, o)
    <3>1. \A x \in Keys(setup) : o.cnt[x] = cnt[x] \/ (x[1] = e /\ \A u \in Unit : o.cnt[x][u] = 0)
      BY <1>2, <2>2, <2>3
    <3> QED
      BY <2>2, <2>5, <3>1 DEF Others
  <2>8. GapAfter(e, o) = gap \cup {k}
    BY <2>2, <1>3 DEF GapAfter
  <2>9. Flagging(e, o)
    <3>1. ASSUME NEW x \in Keys(setup), x[1] \notin Gauges
          PROVE  x \in GapAfter(e, o) <=> Unbased(setup, o.grp, x)
      <4>1. x \in gap <=> Unbased(setup, grp, x)
        BY <1>6, <3>1 DEF Flagged
      <4>2. CASE x = k
        BY <1>1, <1>2, <2>4, <2>8, <4>2, IoFlag
      <4>3. CASE x # k
        <5>1. x[1] # e
          BY <1>2, <4>3
        <5>2. Unbased(setup, o.grp, x) <=> Unbased(setup, grp, x)
          BY <2>4, <2>5, <5>1 DEF Unbased, Classic
        <5> QED BY <2>8, <4>1, <4>3, <5>2
      <4> QED BY <4>2, <4>3
    <3> QED
      BY <1>6, <2>2, <2>5, <3>1 DEF Flagging, Flagged, RegionsRead
  <2>10. NarrowValues(o.grp)
    BY <1>6, <2>5 DEF NarrowValues
  <2>11. Own(e, o)
    <3> SUFFICES ASSUME NEW slot \in Slots(setup), slot[1] = e, Clean(KeyOf(setup, slot), o)
                 PROVE  OwnAt(e, o, slot)
      BY <2>2 DEF Own
    <3>1. slot = k /\ KeyOf(setup, slot) = k
      BY <1>2
    <3>2. grp.dlt[k] = exact[k] * Worth(e)
      <4>1. grp.dlt \in [Slots(setup) -> 0 .. Wide - 1] /\ e \notin Telemetry
        BY <1>1, EventNames DEF Group
      <4> QED
        BY <1>1, <1>2, <1>3, <3>1, <4>1 DEF PollInv, DeltaExact, Clean, pqos_mon_get_value
    <3> QED
      BY <1>2, <2>2, <2>5, <2>8, <3>1, <3>2 DEF OwnAt, ExactAfter
  <2>12. Reading(e, o)
    BY <1>1, <2>6, <2>7, <2>9, <2>10, <2>11, LocalReading
  <2> QED BY <2>12 DEF o
<1>9. CASE fault = "none"
  <2>1. o = Outcome([grp EXCEPT !.val[k] = now, !.dlt[k] = d, !.ioRead = @ \cup {e}], "OK", {k})
    BY <1>9 DEF mmio_read_io
  <2>2. now \in 0 .. Wide - 1 /\ grp.val[k] \in 0 .. Wide - 1
    BY <1>1, <1>2, <1>4, ScaleFits DEF Group
  <2>3. d \in 0 .. Wide - 1
    <3>1. Minus(now, grp.val[k]) \in 0 .. Wide - 1
      <4> HIDE DEF now
      <4> QED BY <2>2, MinusIs
    <3>2. 0 \in 0 .. Wide - 1
      BY Fits, Positive
    <3> QED BY <3>1, <3>2
  <2>4. now = scale_event(SumOf(cnt[k])) /\ d = IF e \in grp.ioRead THEN Minus(now, grp.val[k]) ELSE 0
    OBVIOUS
  <2> HIDE DEF now, d
  <2>5. IsOutcome(o, [grp EXCEPT !.val[k] = now, !.dlt[k] = d, !.ioRead = @ \cup {e}], "OK", {k})
    BY <2>1, OutcomeIs
  <2> HIDE DEF o
  <2>6. /\ o.grp = [Put(k, now, d) EXCEPT !.ioRead = grp.ioRead \cup {e}] /\ o.cnt = cnt /\ o.fs = fs
        /\ o.ret = "OK" /\ o.stored = {k} /\ o.spoil = {}
    BY <1>1, <2>5 DEF IsOutcome, Group, Put
  <2>7. IsPut(o.grp, k, now, d) /\ o.grp.ioRead = grp.ioRead \cup {e} /\ o.grp.mbmRead = grp.mbmRead
    <3> DEFINE p == Put(k, now, d)
    <3>1. IsPut(p, k, now, d) /\ p.mbmRead = grp.mbmRead
      BY <1>1, <1>2, <2>2, <2>3, PutIs
    <3>2. grp.ioRead \cup {e} \in SUBSET {"io_total", "io_miss"}
      BY <1>1 DEF Group
    <3>3. o.grp = [p EXCEPT !.ioRead = grp.ioRead \cup {e}]
      BY <2>6
    <3> HIDE DEF p
    <3>4. p \in Group(setup)
      BY <3>1 DEF IsPut
    <3>5. o.grp \in Group(setup)
      BY <3>2, <3>3, <3>4 DEF Group
    <3>6. o.grp.ioRead = grp.ioRead \cup {e} /\ o.grp.mbmRead = p.mbmRead /\ o.grp.val = p.val /\ o.grp.dlt = p.dlt
          /\ o.grp.store = p.store /\ o.grp.tel = p.tel /\ o.grp.ts = p.ts /\ o.grp.prev = p.prev
          /\ o.grp.power = p.power /\ o.grp.valid = p.valid
      BY <3>3, <3>4 DEF Group
    <3> QED
      BY <3>1, <3>5, <3>6 DEF IsPut
  <2>8. OnePut(e, o, now, d)
    BY <1>1, <2>6, <2>7, PutOthers
  <2>9. GapAfter(e, o) = gap \ {k}
    BY <1>3, <2>6 DEF GapAfter
  <2>10. Flagging(e, o)
    <3>1. ASSUME NEW x \in Keys(setup), x[1] \notin Gauges
          PROVE  x \in GapAfter(e, o) <=> Unbased(setup, o.grp, x)
      <4>1. x \in gap <=> Unbased(setup, grp, x)
        BY <1>6, <3>1 DEF Flagged
      <4>2. CASE x = k
        BY <1>1, <1>2, <2>7, <2>9, <4>2, IoFlag
      <4>3. CASE x # k
        <5>1. x[1] # e
          BY <1>2, <4>3
        <5>2. Unbased(setup, o.grp, x) <=> Unbased(setup, grp, x)
          BY <2>7, <5>1 DEF Unbased, Classic, IsPut
        <5> QED BY <2>9, <4>1, <4>3, <5>2
      <4> QED BY <4>2, <4>3
    <3>2. RegionsRead(o.grp, fresh \cup o.stored)
      BY <1>2, <1>3, <1>6, <2>6, <2>7 DEF RegionsRead
    <3> QED
      BY <3>1, <3>2 DEF Flagging, Flagged
  <2>11. NarrowValues(o.grp)
    <3>1. \A slot \in Slots(setup) : ~Cyclic(slot)
      BY DEF Cyclic
    <3> QED BY <3>1 DEF NarrowValues
  <2>12. Own(e, o)
    <3> SUFFICES ASSUME NEW slot \in Slots(setup), slot[1] = e, Clean(KeyOf(setup, slot), o)
                 PROVE  OwnAt(e, o, slot)
      BY <1>2, <2>6 DEF Own
    <3>1. slot = k /\ KeyOf(setup, slot) = k
      BY <1>2
    <3>2. SinceAfter(k, o) = 0 /\ ExactAfter(k, o) = IF k \in gap THEN 0 ELSE since[k]
      BY <2>6 DEF SinceAfter, ExactAfter
    <3>3. since[k] \in Nat
      BY <1>1, <1>2 DEF PollTypeOK
    <3>4. Balanced(o.grp, o.cnt[k], 0, k)
      <4>1. Scale * SumOf(cnt[k]) = now + Scale * 0
        BY <1>4, <2>4, Positive DEF scale_event
      <4> QED
        BY <1>2, <1>3, <2>6, <2>8, <4>1 DEF Balanced, OnePut
    <3>5. d = ExactAfter(k, o) * Scale
      <4>1. CASE k \in gap
        BY <1>5, <2>4, <3>2, <4>1, Positive
      <4>2. CASE k \notin gap
        <5>1. Balanced(grp, cnt[k], since[k], k)
          BY <1>1, <1>2, <1>3, <3>1, <4>2 DEF PollInv, Balance, Clean
        <5>2. Scale * SumOf(cnt[k]) = grp.val[k] + Scale * since[k]
          BY <1>2, <1>3, <5>1 DEF Balanced
        <5> QED
          BY <1>4, <1>5, <2>2, <2>4, <3>2, <3>3, <4>2, <5>2, ScaledDelta
      <4> QED BY <4>1, <4>2
    <3> QED
      BY <1>3, <2>8, <3>1, <3>2, <3>4, <3>5 DEF OwnAt, OnePut
  <2>13. Reading(e, o)
    BY <1>1, <2>8, <2>10, <2>11, <2>12, LocalReading DEF OnePut
  <2> QED BY <2>13 DEF o
<1> QED
  BY <1>7, <1>8, <1>9

\* mmio_mon_read_counter() for the memory bandwidth of the group's regions.
LEMMA TotalReading ==
  ASSUME PollInv, phase = "poll", "total" \in todo, "total" \in setup.hw,
         setup.inter = "MMIO", NEW fault \in {"none", "mmio", "noton", "overflow"}
  PROVE  Reading("total", mmio_read_total(fault))
<1> DEFINE e == "total"
           pos == 0 .. Len(setup.regions) - 1
           now(j) == scale_event(SumOf(cnt[KeyOf(setup, <<"total", j>>)]))
           val == [s \in Slots(setup) |-> IF s[1] = "total" THEN now(s[2]) ELSE grp.val[s]]
           dlt == [s \in Slots(setup) |-> IF s[1] # "total" THEN grp.dlt[s]
                                          ELSE IF grp.mbmRead THEN Minus(now(s[2]), grp.val[s]) ELSE 0]
           o == mmio_read_total(fault)
<1>1. PollTypeOK /\ setup \in Setups \cup {NoSetup} /\ e \in Polled(setup) /\ ByRegion(setup, e)
      /\ grp \in Group(setup) /\ e \notin setup.resctrl /\ phase # "off"
  BY Sources DEF PollInv, PollTypeOK, Polled, ByRegion
<1>2. grp.val \in [Slots(setup) -> 0 .. Wide - 1] /\ grp.dlt \in [Slots(setup) -> 0 .. Wide - 1]
      /\ cnt \in [Keys(setup) -> [Unit -> Nat]]
  BY <1>1 DEF Group, PollTypeOK
<1>3. e \notin Gauges /\ e \in Mbm /\ Worth(e) = Scale /\ e # "energy" /\ e \notin Telemetry
  BY EventNames DEF Worth
<1>4. \A k \in Keys(setup) : ~Cyclic(k) /\ SumOf(cnt[k]) \in Nat /\ SumOf(cnt[k]) <= MostCounted
  <2>1. \A k : ~Cyclic(k)
    BY DEF Cyclic
  <2> QED BY <2>1, CountFits
<1>5. \A k \in Keys(setup) : k[1] = e => (k \in gap <=> ~grp.mbmRead)
  <2> SUFFICES ASSUME NEW k \in Keys(setup), k[1] = e PROVE k \in gap <=> ~grp.mbmRead
    OBVIOUS
  <2>1. k \in gap <=> Unbased(setup, grp, k)
    BY <1>1, <1>3 DEF PollInv, Flags, Flagged
  <2> QED BY <1>1, <1>3, <2>1, MbmFlag
<1>6. Flagged(grp, gap) /\ RegionsRead(grp, fresh) /\ NarrowValues(grp)
  BY <1>1 DEF PollInv, Flags, Narrow
<1>7. CASE fault \in {"mmio", "noton"}
  <2>1. IsOutcome(o, grp, IF fault = "mmio" THEN "ERROR" ELSE "UNAVAILABLE", {})
    BY <1>7, OutcomeIs DEF mmio_read_total
  <2>2. Reading(e, o)
    <3> HIDE DEF o
    <3> QED BY <1>1, <2>1, FailedReading
  <2> QED BY <2>2
<1>8. CASE fault = "overflow"
  <2>1. o = [Outcome(grp, "OVERFLOW", {}) EXCEPT
               !.cnt = [k \in DOMAIN cnt |-> IF k[1] = "total" THEN [u \in Unit |-> 0] ELSE cnt[k]],
               !.spoil = {<<k, "overflow">> : k \in {x \in DOMAIN cnt : x[1] = "total"}}]
    BY <1>8 DEF mmio_read_total
  <2>2. /\ o.grp = grp /\ o.fs = fs /\ o.ret = "OVERFLOW" /\ o.stored = {}
        /\ o.cnt = [k \in Keys(setup) |-> IF k[1] = "total" THEN [u \in Unit |-> 0] ELSE cnt[k]]
        /\ o.spoil = {<<k, "overflow">> : k \in {x \in Keys(setup) : x[1] = "total"}}
    BY <1>2, <2>1 DEF Outcome
  <2> HIDE DEF o
  <2>3. o.cnt \in [Keys(setup) -> [Unit -> Nat]]
    BY <1>2, <2>2
  <2>4. o.fs \in [dirs : SUBSET Unit, tag : Unit \cup {0}, at : Unit]
    BY <1>1, <2>2 DEF PollTypeOK
  <2>5. \A x \in o.spoil : x[2] \in {"foreign", "overflow", "twice", "unread", "wrap"}
    BY <2>2
  <2>6. Typed(o)
    BY <1>1, <2>2, <2>3, <2>4, <2>5 DEF Typed
  <2>7. Others(e, o)
    <3>1. \A k \in Keys(setup) : o.cnt[k] = cnt[k] \/ (k[1] = e /\ \A u \in Unit : o.cnt[k][u] = 0)
      BY <2>2
    <3> QED
      BY <2>2, <3>1 DEF Others
  <2>8. GapAfter(e, o) = gap
    BY <2>2 DEF GapAfter
  <2>9. Flagging(e, o)
    BY <1>6, <2>2, <2>8 DEF Flagging
  <2>10. Own(e, o)
    <3> SUFFICES ASSUME NEW slot \in Slots(setup), slot[1] = e PROVE ~Clean(KeyOf(setup, slot), o)
      BY <2>2 DEF Own
    <3> DEFINE k == KeyOf(setup, slot)
    <3>1. k \in Keys(setup) /\ k[1] = e
      BY <1>1, SlotIs
    <3> HIDE DEF k
    <3>2. <<k, "overflow">> \in o.spoil /\ <<k, "overflow">>[1] = k
      BY <2>2, <3>1
    <3> QED
      BY <3>2 DEF Clean, k
  <2>11. Reading(e, o)
    BY <1>1, <1>6, <2>2, <2>6, <2>7, <2>9, <2>10, LocalReading
  <2> QED BY <2>11 DEF o
<1>9. CASE fault = "none"
  <2>1. o = Outcome([grp EXCEPT
              !.val = [s \in DOMAIN @ |-> IF s[1] = "total" THEN now(s[2]) ELSE @[s]],
              !.dlt = [s \in DOMAIN @ |-> IF s[1] # "total" THEN @[s]
                                          ELSE IF grp.mbmRead THEN Minus(now(s[2]), grp.val[s]) ELSE 0],
              !.mbmRead = TRUE], "OK", {KeyOf(setup, <<"total", j>>) : j \in pos})
    BY <1>9 DEF mmio_read_total
  <2>2. DOMAIN grp.val = Slots(setup) /\ DOMAIN grp.dlt = Slots(setup)
    BY <1>2
  <2>3. [s \in DOMAIN grp.val |-> IF s[1] = "total" THEN now(s[2]) ELSE grp.val[s]] = val
        /\ [s \in DOMAIN grp.dlt |-> IF s[1] # "total" THEN grp.dlt[s]
                                     ELSE IF grp.mbmRead THEN Minus(now(s[2]), grp.val[s]) ELSE 0] = dlt
    BY <2>2
  <2>4. \A slot \in Slots(setup) : slot[1] = e =>
          /\ \E j \in pos : slot = <<"total", j>>
          /\ KeyOf(setup, slot) \in Keys(setup) /\ KeyOf(setup, slot)[1] = e
          /\ now(slot[2]) = scale_event(SumOf(cnt[KeyOf(setup, slot)]))
          /\ now(slot[2]) \in 0 .. Wide - 1 /\ Minus(now(slot[2]), grp.val[slot]) \in 0 .. Wide - 1
    <3> SUFFICES ASSUME NEW slot \in Slots(setup), slot[1] = e
                 PROVE  /\ \E j \in pos : slot = <<"total", j>>
                        /\ KeyOf(setup, slot) \in Keys(setup) /\ KeyOf(setup, slot)[1] = e
                        /\ now(slot[2]) = scale_event(SumOf(cnt[KeyOf(setup, slot)]))
                        /\ now(slot[2]) \in 0 .. Wide - 1 /\ Minus(now(slot[2]), grp.val[slot]) \in 0 .. Wide - 1
      OBVIOUS
    <3>1. PICK j \in pos : slot = <<"total", j>>
      BY <1>1, SlotIs
    <3>2. KeyOf(setup, slot) \in Keys(setup) /\ KeyOf(setup, slot)[1] = e
      BY <1>1, SlotIs
    <3>3. now(slot[2]) = scale_event(SumOf(cnt[KeyOf(setup, slot)]))
      BY <3>1
    <3>4. scale_event(SumOf(cnt[KeyOf(setup, slot)])) \in 0 .. Wide - 1
      BY <1>4, <3>2, ScaleFits
    <3>5. grp.val[slot] \in 0 .. Wide - 1
      BY <1>2
    <3>6. now(slot[2]) \in 0 .. Wide - 1
      BY <3>3, <3>4
    <3> HIDE DEF now
    <3>7. Minus(now(slot[2]), grp.val[slot]) \in 0 .. Wide - 1
      BY <3>5, <3>6, MinusIs
    <3> QED
      BY <3>1, <3>2, <3>3, <3>6, <3>7
  <2> HIDE DEF now
  <2>5. val \in [Slots(setup) -> 0 .. Wide - 1] /\ dlt \in [Slots(setup) -> 0 .. Wide - 1]
    <3>1. 0 \in 0 .. Wide - 1
      BY Fits, Positive
    <3> QED BY <1>2, <2>4, <3>1
  <2>6. \A slot \in Slots(setup) :
          /\ slot[1] # e => val[slot] = grp.val[slot] /\ dlt[slot] = grp.dlt[slot]
          /\ slot[1] = e => val[slot] = now(slot[2])
                            /\ dlt[slot] = IF grp.mbmRead THEN Minus(now(slot[2]), grp.val[slot]) ELSE 0
    OBVIOUS
  <2>7. IsOutcome(o, [grp EXCEPT !.val = val, !.dlt = dlt, !.mbmRead = TRUE], "OK", {KeyOf(setup, <<"total", j>>) : j \in pos})
    <3> DEFINE g == [grp EXCEPT
              !.val = [s \in DOMAIN @ |-> IF s[1] = "total" THEN now(s[2]) ELSE @[s]],
              !.dlt = [s \in DOMAIN @ |-> IF s[1] # "total" THEN @[s]
                                          ELSE IF grp.mbmRead THEN Minus(now(s[2]), grp.val[s]) ELSE 0],
              !.mbmRead = TRUE]
               keys == {KeyOf(setup, <<"total", j>>) : j \in pos}
    <3>1. g = [grp EXCEPT !.val = val, !.dlt = dlt, !.mbmRead = TRUE]
      <4>1. g = [grp EXCEPT !.val = [s \in DOMAIN grp.val |-> IF s[1] = "total" THEN now(s[2]) ELSE grp.val[s]],
                            !.dlt = [s \in DOMAIN grp.dlt |-> IF s[1] # "total" THEN grp.dlt[s]
                                     ELSE IF grp.mbmRead THEN Minus(now(s[2]), grp.val[s]) ELSE 0],
                            !.mbmRead = TRUE]
        BY <1>1 DEF Group
      <4> HIDE DEF g, val, dlt
      <4> QED BY <2>3, <4>1
    <3>2. o = Outcome(g, "OK", keys)
      BY <2>1
    <3> HIDE DEF o, g, keys
    <3>3. IsOutcome(o, g, "OK", keys)
      BY <3>2, OutcomeIs
    <3> QED
      BY <3>1, <3>3 DEF keys
  <2> HIDE DEF o, val, dlt
  <2>8. /\ o.grp = [grp EXCEPT !.val = val, !.dlt = dlt, !.mbmRead = TRUE] /\ o.cnt = cnt /\ o.fs = fs
        /\ o.ret = "OK" /\ o.stored = {KeyOf(setup, <<"total", j>>) : j \in pos} /\ o.spoil = {}
    BY <2>7 DEF IsOutcome
  <2>9. o.grp \in Group(setup)
    <3>1. [grp EXCEPT !.val = val, !.dlt = dlt, !.mbmRead = TRUE] \in Group(setup)
      BY <1>1, <2>5 DEF Group
    <3>2. o.grp = [grp EXCEPT !.val = val, !.dlt = dlt, !.mbmRead = TRUE]
      BY <2>8
    <3> QED
      BY <3>1, <3>2
  <2>10. o.grp.val = val /\ o.grp.dlt = dlt /\ o.grp.mbmRead = TRUE /\ o.grp.store = grp.store /\ o.grp.tel = grp.tel
         /\ o.grp.ts = grp.ts /\ o.grp.prev = grp.prev /\ o.grp.power = grp.power /\ o.grp.valid = grp.valid
         /\ o.grp.ioRead = grp.ioRead
    BY <1>1, <2>8 DEF Group
  <2>11. o.stored = {k \in Keys(setup) : k[1] = e}
    <3>1. \A k \in o.stored : k \in Keys(setup) /\ k[1] = e
      <4>1. \A j \in pos : KeyOf(setup, <<"total", j>>) \in Keys(setup) /\ KeyOf(setup, <<"total", j>>)[1] = e
        BY <1>1, RegionKeys
      <4>2. o.stored = {KeyOf(setup, <<"total", j>>) : j \in pos}
        BY <2>8
      <4>3. ASSUME NEW k \in o.stored PROVE k \in Keys(setup) /\ k[1] = e
        <5>1. PICK j \in pos : k = KeyOf(setup, <<"total", j>>)
          BY <4>2
        <5> QED BY <4>1, <5>1
      <4> QED BY <4>3
    <3>2. \A k \in Keys(setup) : k[1] = e => k \in o.stored
      BY <1>1, <2>8, KeyIs
    <3> QED BY <3>1, <3>2
  <2>12. Typed(o)
    BY <1>1, <1>2, <2>8, <2>9, <2>11 DEF Typed, PollTypeOK
  <2>13. Others(e, o)
    BY <2>6, <2>8, <2>10, <2>11 DEF Others
  <2>14. GapAfter(e, o) = gap \ o.stored
    BY <2>8 DEF GapAfter
  <2>15. Flagging(e, o)
    <3>1. ASSUME NEW x \in Keys(setup), x[1] \notin Gauges
          PROVE  x \in GapAfter(e, o) <=> Unbased(setup, o.grp, x)
      <4>1. x \in gap <=> Unbased(setup, grp, x)
        BY <1>6, <3>1 DEF Flagged
      <4>2. CASE x[1] = e
        BY <1>1, <1>3, <2>10, <2>11, <2>14, <4>2, MbmFlag
      <4>3. CASE x[1] # e
        <5>1. x[1] \notin setup.hw \cap Mbm
          BY <1>1, <4>3, Sources, EventNames
        <5>2. Unbased(setup, o.grp, x) <=> Unbased(setup, grp, x)
          BY <2>10, <5>1 DEF Unbased, Classic
        <5> QED BY <2>11, <2>14, <4>1, <4>3, <5>2
      <4> QED BY <4>2, <4>3
    <3> QED
      BY <2>10, <3>1 DEF Flagging, Flagged, RegionsRead
  <2>16. NarrowValues(o.grp)
    <3>1. \A slot \in Slots(setup) : ~Cyclic(slot)
      BY DEF Cyclic
    <3> QED BY <3>1 DEF NarrowValues
  <2>17. Own(e, o)
    <3> SUFFICES ASSUME NEW slot \in Slots(setup), slot[1] = e, Clean(KeyOf(setup, slot), o)
                 PROVE  OwnAt(e, o, slot)
      BY <2>11 DEF Own
    <3> DEFINE k == KeyOf(setup, slot)
    <3>1. k \in Keys(setup) /\ k[1] = e /\ k \in o.stored
      BY <2>4, <2>11
    <3>2. SinceAfter(k, o) = 0 /\ ExactAfter(k, o) = IF k \in gap THEN 0 ELSE since[k]
      BY <3>1 DEF SinceAfter, ExactAfter
    <3>3. since[k] \in Nat /\ SumOf(cnt[k]) \in Nat /\ SumOf(cnt[k]) <= MostCounted
      BY <1>1, <1>4, <3>1 DEF PollTypeOK
    <3>4. o.grp.val[slot] = scale_event(SumOf(cnt[k])) /\ grp.val[slot] \in 0 .. Wide - 1
      BY <1>2, <2>4, <2>6, <2>10
    <3>5. o.grp.dlt[slot] = IF grp.mbmRead THEN Minus(scale_event(SumOf(cnt[k])), grp.val[slot]) ELSE 0
      BY <2>4, <2>6, <2>10
    <3>6. ~Cyclic(slot) /\ e \notin setup.resctrl \cap Mbm
      BY <1>1 DEF Cyclic
    <3>7. k \notin gap => Balanced(grp, cnt[k], since[k], slot)
      BY <1>1, <1>3 DEF PollInv, Balance, Clean
    <3>8. k \in gap <=> ~grp.mbmRead
      BY <1>5, <3>1
    <3> HIDE DEF k
    <3>9. Balanced(o.grp, o.cnt[k], 0, slot)
      <4>1. Scale * SumOf(cnt[k]) = scale_event(SumOf(cnt[k])) + Scale * 0
        BY <3>3, Positive DEF scale_event
      <4> QED
        BY <1>3, <2>8, <3>4, <3>6, <4>1 DEF Balanced
    <3>10. o.grp.dlt[slot] = ExactAfter(k, o) * Scale
      <4>1. CASE k \in gap
        BY <3>2, <3>5, <3>8, <4>1, Positive
      <4>2. CASE k \notin gap
        <5>1. Scale * SumOf(cnt[k]) = grp.val[slot] + Scale * since[k]
          BY <1>3, <3>6, <3>7, <4>2 DEF Balanced
        <5>2. Minus(scale_event(SumOf(cnt[k])), grp.val[slot]) = since[k] * Scale
          BY <3>3, <3>4, <5>1, ScaledDelta
        <5> QED
          BY <3>2, <3>5, <3>8, <4>2, <5>2
      <4> QED BY <4>1, <4>2
    <3> QED
      BY <1>3, <3>2, <3>9, <3>10 DEF OwnAt, k
  <2>18. Reading(e, o)
    BY <1>1, <2>12, <2>13, <2>15, <2>16, <2>17, LocalReading
  <2> QED BY <2>18 DEF o
<1> QED
  BY <1>7, <1>8, <1>9

-----------------------------------------------------------------------------
(***************************************************************************)
(* Readings of resctrl.                                                    *)
(***************************************************************************)
\* The cores of the group are moved back into a directory of its own.
LEMMA RestoreIs ==
  ASSUME PollInv, phase = "poll", NEW f, f = resctrl_mon_assoc_restore
  PROVE  /\ f \in [dirs : SUBSET Unit, tag : Unit \cup {0}, at : Unit] /\ DirsCover(f, cnt)
         /\ f.tag \in f.dirs
<1>1. fs \in [dirs : SUBSET Unit, tag : Unit \cup {0}, at : Unit] /\ DirsCover(fs, cnt)
  BY DEF PollInv, PollTypeOK, Dirs
<1>2. f \in [dirs : SUBSET Unit, tag : Unit \cup {0}, at : Unit] /\ f.tag = fs.at /\ f.dirs = fs.dirs \cup {fs.at}
  BY <1>1 DEF resctrl_mon_assoc_restore
<1> QED
  BY <1>1, <1>2 DEF DirsCover

\* The directories of the group hold all that has been counted.
LEMMA LiveIs ==
  ASSUME PollInv, phase = "poll", NEW k \in Keys(setup), k[1] \in setup.resctrl, NEW f, f = resctrl_mon_assoc_restore
  PROVE  SumIn(cnt[k], f.dirs) = SumOf(cnt[k])
<1>1. cnt[k] \in [Unit -> Nat]
  BY DEF PollInv, PollTypeOK
<1>2. \A u \in Unit : u \notin f.dirs => cnt[k][u] = 0
  BY RestoreIs DEF DirsCover
<1>3. [u \in Unit |-> IF u \in f.dirs THEN cnt[k][u] ELSE 0] = cnt[k]
  BY <1>1, <1>2
<1> QED
  BY <1>3 DEF SumIn

\* A file that cannot be read, or says that there is nothing to read.
LEMMA FileReading ==
  ASSUME PollInv, phase = "poll", NEW e \in todo, e \in setup.resctrl, NEW o,
         o.fs = resctrl_mon_assoc_restore, o.cnt = cnt, o.stored = {}, o.spoil = {},
         \/ o.ret = "ERROR" /\ o.grp = grp
         \/ o.ret = "UNAVAILABLE" /\ o.grp = resctrl_away(e) /\ e \notin Telemetry
  PROVE  Reading(e, o)
<1>1. PollTypeOK /\ setup \in Setups \cup {NoSetup} /\ grp \in Group(setup) /\ phase # "off"
      /\ e \in Polled(setup) /\ ~ByRegion(setup, e) /\ setup.inter = "OS" /\ setup.hw = {}
  BY Sources DEF PollInv, PollTypeOK, Polled, ByRegion
<1>2. Key0(e) \in Keys(setup) /\ Key0(e)[1] = e /\ \A x \in Keys(setup) : x[1] = e => x = Key0(e)
  BY <1>1, OneKey
<1>3. /\ o.grp \in Group(setup) /\ o.grp.val = grp.val /\ o.grp.dlt = grp.dlt /\ o.grp.store = grp.store
      /\ o.grp.tel = grp.tel /\ o.grp.ts = grp.ts /\ o.grp.prev = grp.prev /\ o.grp.power = grp.power
      /\ o.grp.ioRead = grp.ioRead /\ o.grp.mbmRead = grp.mbmRead
      /\ o.grp.valid = IF o.ret = "ERROR" THEN grp.valid ELSE grp.valid \ {e}
  <2>1. CASE o.ret = "ERROR" /\ o.grp = grp
    BY <1>1, <2>1
  <2>2. CASE o.ret = "UNAVAILABLE" /\ o.grp = resctrl_away(e)
    BY <1>1, <2>2 DEF resctrl_away, Group
  <2> QED
    BY <2>1, <2>2
<1>4. o.ret \in {"ERROR", "UNAVAILABLE"} /\ (o.ret = "UNAVAILABLE" => e \notin Telemetry)
  OBVIOUS
<1>5. GapAfter(e, o) = IF o.ret = "ERROR" THEN gap ELSE gap \cup {Key0(e)}
  <2>1. CASE o.ret = "ERROR"
    BY <2>1 DEF GapAfter
  <2>2. CASE o.ret = "UNAVAILABLE"
    BY <2>2 DEF GapAfter
  <2> QED
    BY <1>4, <2>1, <2>2
<1>6. Typed(o)
  BY <1>1, <1>3, <1>4, RestoreIs DEF Typed, PollTypeOK
<1>7. Totals(o)
  <2>1. \A k \in Keys(setup), u \in Unit : cnt[k][u] <= cnt[k][u]
    BY <1>1 DEF PollTypeOK
  <2> QED
    BY <1>3, <2>1 DEF Totals
<1>8. DirsCover(o.fs, o.cnt)
  BY RestoreIs
<1>9. Flagging(e, o)
  <2>1. Flagged(grp, gap) /\ RegionsRead(grp, fresh)
    BY <1>1 DEF PollInv, Flags
  <2>2. ASSUME NEW x \in Keys(setup), x[1] \notin Gauges
        PROVE  x \in GapAfter(e, o) <=> Unbased(setup, o.grp, x)
    <3>1. x \in gap <=> Unbased(setup, grp, x)
      BY <2>1, <2>2 DEF Flagged
    <3>2. CASE o.ret = "UNAVAILABLE" /\ x = Key0(e)
      <4>1. Classic(setup, x) /\ x[1] \notin o.grp.valid
        BY <1>2, <1>3, <1>4, <3>2 DEF Classic
      <4>2. x[1] \in setup.resctrl /\ x[1] # "energy" /\ x[1] \notin setup.hw /\ x[1] \notin setup.perf
        BY <1>1, <1>2, <1>4, <3>2, Sources, EventNames
      <4>3. Unbased(setup, o.grp, x)
        BY <1>1, <2>2, <4>1, <4>2, FlagOf
      <4>4. x \in GapAfter(e, o)
        BY <1>4, <1>5, <3>2
      <4> QED
        BY <4>3, <4>4
    <3>3. CASE ~(o.ret = "UNAVAILABLE" /\ x = Key0(e))
      <4>1. x[1] \in o.grp.valid <=> x[1] \in grp.valid
        BY <1>2, <1>3, <1>4, <3>3
      <4>2. Unbased(setup, o.grp, x) <=> Unbased(setup, grp, x)
        BY <1>3, <4>1 DEF Unbased
      <4> QED
        BY <1>4, <1>5, <3>1, <3>3, <4>2
    <3> QED
      BY <3>2, <3>3
  <2> QED
    BY <1>1, <2>2 DEF Flagging, Flagged, RegionsRead
<1>10. Balancing(e, o)
  <2> SUFFICES ASSUME NEW slot \in Slots(setup), slot[1] \notin Gauges, Clean(KeyOf(setup, slot), o),
                      KeyOf(setup, slot) \notin GapAfter(e, o)
                        \/ (Cyclic(KeyOf(setup, slot)) /\ KeyOf(setup, slot) \in fresh \cup o.stored)
               PROVE  Balanced(o.grp, o.cnt[KeyOf(setup, slot)], SinceAfter(KeyOf(setup, slot), o), slot)
    BY DEF Balancing
  <2>1. KeyOf(setup, slot) \notin gap
    BY <1>1, <1>5 DEF Cyclic
  <2>2. Balanced(grp, cnt[KeyOf(setup, slot)], since[KeyOf(setup, slot)], slot)
    BY <1>1, <2>1 DEF PollInv, Balance, Clean
  <2> QED
    BY <1>3, <2>2 DEF Balanced, SinceAfter
<1>11. Differences(o)
  <2>1. grp.dlt \in [Slots(setup) -> 0 .. Wide - 1]
    BY <1>1 DEF Group
  <2> QED
    BY <1>1, <1>3, <2>1 DEF Differences, PollInv, DeltaExact, Clean, ExactAfter, pqos_mon_get_value
<1>12. NarrowValues(o.grp)
  BY <1>1 DEF NarrowValues, Cyclic
<1>13. Marks(e, o)
  BY <1>3, <1>4 DEF Marks, fatal
<1>14. Samples(o)
  BY <1>1, <1>3 DEF PollInv, EnergyRight, Samples, Clean, ExactAfter
<1> QED
  BY <1>6, <1>7, <1>8, <1>9, <1>10, <1>11, <1>12, <1>13, <1>14 DEF Reading

LEMMA KeepIs ==
  ASSUME NEW e, NEW empty, NEW fault
  PROVE  keep(e, empty, fault) \subseteq empty
<1> DEFINE first == {u \in empty : \A v \in empty : u <= v}
<1>1. keep(e, empty, fault) \in {empty \ first, {}, first, empty}
  BY DEF keep
<1> QED
  BY <1>1

\* What resctrl_mon_purge() leaves behind: what a directory had counted is
\* saved, or the key is spoilt.
LEMMA PurgeIs ==
  ASSUME PollInv, phase = "poll", NEW g \in Group(setup), g.store = grp.store, NEW k \in Keys(setup),
         NEW fault, NEW f, f = resctrl_mon_assoc_restore, NEW o, o = resctrl_mon_purge(g, f, k, fault)
  PROVE  /\ Typed(o) /\ Totals(o) /\ DirsCover(o.fs, o.cnt)
         /\ o.ret \in {"OK", "ERROR"} /\ o.stored = {k}
         /\ o.grp = [g EXCEPT !.store = o.grp.store]
         /\ \A x \in Keys(setup) : x[1] \notin setup.resctrl => o.cnt[x] = cnt[x]
         /\ \A x \in Keys(setup) : x[1] = "energy" /\ Clean(x, o) => o.cnt[x] = cnt[x]
<1> DEFINE empty == Empty(f)
           gone == remove(empty, fault)
           kept(e) == IF e \in Mbm THEN keep(e, empty, fault) ELSE {}
           files == {x \in Keys(setup) : x[1] \in setup.resctrl}
           lost(x, units) == x[1] \in Mbm \cup {"energy"} /\ \E u \in units : cnt[x][u] > 0
           store == [e \in Mbm |-> IF e \in setup.resctrl THEN grp.store[e] + SumIn(cnt[Key0(e)], kept(e)) ELSE grp.store[e]]
<1>1. PollTypeOK /\ setup \in Setups \cup {NoSetup} /\ grp \in Group(setup) /\ cnt \in [Keys(setup) -> [Unit -> Nat]]
      /\ grp.store \in [Mbm -> Nat]
  BY DEF PollInv, PollTypeOK, Group
<1>2. f \in [dirs : SUBSET Unit, tag : Unit \cup {0}, at : Unit] /\ DirsCover(f, cnt) /\ f.tag \in f.dirs
  BY RestoreIs
<1>3. empty \subseteq f.dirs \ {f.tag} /\ empty \subseteq Unit
  BY <1>2 DEF Empty
<1>4. gone \subseteq empty /\ \A e \in Mbm : kept(e) \subseteq empty
  BY KeepIs DEF remove
<1>5. /\ o.grp = [g EXCEPT !.store = [e \in Mbm |-> IF e \in setup.resctrl
                                                  THEN g.store[e] + SumIn(cnt[Key0(e)], kept(e)) ELSE g.store[e]]]
      /\ o.cnt = [x \in Keys(setup) |->
                    IF x \in files THEN [u \in Unit |-> IF u \in gone THEN 0 ELSE cnt[x][u]] ELSE cnt[x]]
      /\ o.fs = [f EXCEPT !.dirs = @ \ gone]
      /\ o.ret = (IF empty # {} /\ fault[2] = "file" THEN "ERROR" ELSE "OK")
      /\ o.stored = {k}
      /\ o.spoil = {<<x, "twice">> : x \in {y \in files : lost(y, kept(y[1]) \ gone)}}
                   \cup {<<x, "unread">> : x \in {y \in files : lost(y, gone \ kept(y[1]))}}
  BY <1>1 DEF resctrl_mon_purge, Group
<1> HIDE DEF empty, gone, files, lost
<1>6. \A x \in Keys(setup) : x \in files <=> x[1] \in setup.resctrl
  BY DEF files
<1>7. \A x \in Keys(setup), u \in Unit :
        o.cnt[x][u] = IF x[1] \in setup.resctrl /\ u \in gone THEN 0 ELSE cnt[x][u]
  BY <1>1, <1>5, <1>6
<1>8. o.cnt \in [Keys(setup) -> [Unit -> Nat]]
  BY <1>1, <1>5
<1>9. o.fs \in [dirs : SUBSET Unit, tag : Unit \cup {0}, at : Unit] /\ o.fs.tag = f.tag /\ o.fs.dirs = f.dirs \ gone
  BY <1>2, <1>5
<1>10. DirsCover(o.fs, o.cnt)
  BY <1>2, <1>3, <1>4, <1>7, <1>9 DEF DirsCover
<1>11. store \in [Mbm -> Nat]
  <2>1. \A e \in Mbm \cap setup.resctrl : Key0(e) \in Keys(setup)
    BY <1>1, Sources, OneKey DEF Polled, ByRegion
  <2>2. \A e \in Mbm \cap setup.resctrl : cnt[Key0(e)] \in [Unit -> Nat]
    BY <1>1, <2>1
  <2> HIDE DEF kept
  <2>3. \A e \in Mbm \cap setup.resctrl : SumIn(cnt[Key0(e)], kept(e)) \in Nat
    BY <2>2, SumInIs
  <2> QED
    BY <1>1, <2>3
<1>12. o.grp \in Group(setup) /\ o.grp.store = store /\ o.grp = [g EXCEPT !.store = o.grp.store]
  <2>1. o.grp = [g EXCEPT !.store = store]
    BY <1>5
  <2> HIDE DEF store
  <2> QED
    BY <1>11, <2>1 DEF Group
<1>13. \A x \in Keys(setup) : Clean(x, o) /\ x[1] \in setup.resctrl =>
         ~lost(x, kept(x[1]) \ gone) /\ ~lost(x, gone \ kept(x[1]))
  <2> SUFFICES ASSUME NEW x \in Keys(setup), Clean(x, o), x[1] \in setup.resctrl
               PROVE  ~lost(x, kept(x[1]) \ gone) /\ ~lost(x, gone \ kept(x[1]))
    OBVIOUS
  <2> HIDE DEF kept
  <2>1. x \in files
    BY <1>6
  <2>2. lost(x, kept(x[1]) \ gone) => <<x, "twice">> \in o.spoil
    BY <1>5, <2>1
  <2>3. lost(x, gone \ kept(x[1])) => <<x, "unread">> \in o.spoil
    BY <1>5, <2>1
  <2>4. <<x, "twice">> \notin o.spoil /\ <<x, "unread">> \notin o.spoil
    BY DEF Clean
  <2> QED
    BY <2>2, <2>3, <2>4
<1>14. \A x \in Keys(setup) : x[1] \notin setup.resctrl => o.cnt[x] = cnt[x]
  BY <1>5, <1>6
<1>15. \A x \in Keys(setup) : x[1] = "energy" /\ Clean(x, o) => o.cnt[x] = cnt[x]
  <2> SUFFICES ASSUME NEW x \in Keys(setup), x[1] = "energy", Clean(x, o), x[1] \in setup.resctrl
               PROVE  o.cnt[x] = cnt[x]
    BY <1>14
  <2>1. kept(x[1]) = {}
    BY EventNames
  <2>2. ~\E u \in gone : cnt[x][u] > 0
    <3>1. ~lost(x, gone \ kept(x[1]))
      BY <1>13
    <3> QED BY <2>1, <3>1 DEF lost
  <2>3. \A u \in Unit : o.cnt[x][u] = cnt[x][u]
    BY <1>1, <1>7, <2>2
  <2> QED
    BY <1>1, <1>8, <2>3
<1>16. Totals(o)
  <2>1. \A x \in Keys(setup), u \in Unit : o.cnt[x][u] <= cnt[x][u]
    BY <1>1, <1>7
  <2>2. ASSUME NEW x \in Keys(setup), x[1] \in setup.resctrl \cap Mbm, Clean(x, o)
        PROVE  SumOf(o.cnt[x]) + o.grp.store[x[1]] = SumOf(cnt[x]) + grp.store[x[1]]
    <3> DEFINE h == [u \in Unit |-> IF u \in kept(x[1]) THEN cnt[x][u] ELSE 0]
    <3>1. x = Key0(x[1])
      BY <1>1, <2>2, KeyIs, Sources DEF ByRegion
    <3>2. cnt[x] \in [Unit -> Nat] /\ o.cnt[x] \in [Unit -> Nat] /\ h \in [Unit -> Nat]
      BY <1>1, <1>8
    <3>3. \A u \in Unit : u \in kept(x[1]) \ gone \/ u \in gone \ kept(x[1]) => cnt[x][u] = 0
      <4>1. ~lost(x, kept(x[1]) \ gone) /\ ~lost(x, gone \ kept(x[1]))
        BY <1>13, <2>2
      <4> HIDE DEF kept
      <4> QED BY <2>2, <3>2, <4>1 DEF lost
    <3>4. \A u \in Unit : cnt[x][u] = o.cnt[x][u] + h[u]
      <4> HIDE DEF kept
      <4> QED BY <1>7, <2>2, <3>2, <3>3
    <3>5. o.grp.store[x[1]] = grp.store[x[1]] + SumOf(h)
      <4> HIDE DEF kept
      <4> QED BY <1>12, <2>2, <3>1 DEF SumIn
    <3> HIDE DEF h
    <3>6. SumOf(cnt[x]) = SumOf(o.cnt[x]) + SumOf(h)
      BY <3>2, <3>4, SumAdd
    <3>7. SumOf(o.cnt[x]) \in Nat /\ SumOf(h) \in Nat /\ grp.store[x[1]] \in Nat
      BY <1>1, <2>2, <3>2, SumType
    <3> QED
      BY <3>5, <3>6, <3>7
  <2> QED
    BY <2>1, <2>2 DEF Totals
<1>17. Typed(o)
  <2>1. \A x \in o.spoil : x[2] \in {"foreign", "overflow", "twice", "unread", "wrap"}
    <3> SUFFICES ASSUME NEW x \in o.spoil PROVE x[2] \in {"twice", "unread"}
      OBVIOUS
    <3> HIDE DEF kept
    <3>1. \/ \E y \in files : x = <<y, "twice">>
          \/ \E y \in files : x = <<y, "unread">>
      BY <1>5
    <3> QED
      BY <3>1
  <2> QED
    BY <1>5, <1>8, <1>9, <1>12, <2>1 DEF Typed
<1> QED
  BY <1>5, <1>10, <1>12, <1>14, <1>15, <1>16, <1>17

\* What a reading of resctrl stores in g, before the directories are purged.
Filed(e, g) ==
  LET k == Key0(e)
  IN  /\ g \in Group(setup)
      /\ g.store = grp.store /\ g.ioRead = grp.ioRead /\ g.mbmRead = grp.mbmRead /\ g.power = grp.power
      /\ g.valid = IF e \in Telemetry THEN grp.valid ELSE grp.valid \cup {e}
      /\ \A slot \in Slots(setup) : slot # k => g.val[slot] = grp.val[slot] /\ g.dlt[slot] = grp.dlt[slot]
      /\ e # "energy" => g.ts = grp.ts /\ g.prev = grp.prev /\ g.tel["energy"] = grp.tel["energy"]
      /\ e = "energy" =>
           /\ g.ts # 0 /\ g.prev = grp.ts
           /\ g.tel["energy"].valid /\ g.tel["energy"].current = SumOf(cnt[k])
           /\ g.tel["energy"].previous = grp.tel["energy"].current
      /\ e \in Mbm /\ spoilt[k] = {} =>
           g.val[k] = SumOf(cnt[k]) + grp.store[e] /\ g.dlt[k] = IF k \in gap THEN 0 ELSE since[k]

LEMMA PurgeReading ==
  ASSUME PollInv, phase = "poll", NEW e \in todo, e \in setup.resctrl, NEW g, Filed(e, g),
         NEW fault, NEW f, f = resctrl_mon_assoc_restore
  PROVE  Reading(e, resctrl_mon_purge(g, f, Key0(e), fault))
<1> DEFINE k == Key0(e)
           o == resctrl_mon_purge(g, f, k, fault)
<1>1. PollTypeOK /\ setup \in Setups \cup {NoSetup} /\ grp \in Group(setup) /\ phase # "off"
      /\ e \in Polled(setup) /\ ~ByRegion(setup, e) /\ setup.inter = "OS" /\ setup.hw = {}
      /\ e \in {"l3", "local", "total", "energy", "activity"} /\ g \in Group(setup)
  BY Sources DEF PollInv, PollTypeOK, Polled, ByRegion, Filed
<1>2. k \in Keys(setup) /\ k \in Slots(setup) /\ k[1] = e /\ \A x \in Keys(setup) : x[1] = e => x = k
  BY <1>1, OneKey
<1>3. \A slot \in Slots(setup) : slot \in Keys(setup) /\ KeyOf(setup, slot) = slot /\ slot = Key0(slot[1])
  BY <1>1, SlotIs DEF ByRegion
<1>4. /\ Typed(o) /\ Totals(o) /\ DirsCover(o.fs, o.cnt) /\ o.ret \in {"OK", "ERROR"} /\ o.stored = {k}
      /\ o.grp = [g EXCEPT !.store = o.grp.store]
      /\ \A x \in Keys(setup) : x[1] \notin setup.resctrl => o.cnt[x] = cnt[x]
      /\ \A x \in Keys(setup) : x[1] = "energy" /\ Clean(x, o) => o.cnt[x] = cnt[x]
  <2>1. g.store = grp.store
    BY DEF Filed
  <2> QED
    BY <1>1, <1>2, <2>1, PurgeIs
<1> HIDE DEF o, k
<1>5. /\ o.grp.val = g.val /\ o.grp.dlt = g.dlt /\ o.grp.tel = g.tel /\ o.grp.ts = g.ts /\ o.grp.prev = g.prev
      /\ o.grp.valid = g.valid /\ o.grp.ioRead = g.ioRead /\ o.grp.mbmRead = g.mbmRead /\ o.grp.power = g.power
  <2> DEFINE store == o.grp.store
  <2>1. o.grp = [g EXCEPT !.store = store]
    BY <1>4
  <2> HIDE DEF store
  <2> QED
    BY <1>1, <2>1 DEF Group
<1>6. GapAfter(e, o) = gap \ {k}
  BY <1>1, <1>4 DEF GapAfter
<1>7. \A x : ~Cyclic(x)
  BY <1>1 DEF Cyclic
<1>8. Flagged(grp, gap)
  BY <1>1 DEF PollInv, Flags
<1>9. Energy = k <=> e = "energy"
  BY DEF Energy, Key0, k
<1>10. Flagging(e, o)
  <2>1. ASSUME NEW x \in Keys(setup), x[1] \notin Gauges
        PROVE  x \in GapAfter(e, o) <=> Unbased(setup, o.grp, x)
    <3>1. x \in gap <=> Unbased(setup, grp, x)
      BY <1>8, <2>1 DEF Flagged
    <3>2. x[1] \notin setup.hw
      BY <1>1
    <3>3. \/ x[1] \in setup.resctrl \cap Mbm /\ (Unbased(setup, o.grp, x) <=> x[1] \notin o.grp.valid)
          \/ x[1] \in setup.resctrl /\ x[1] = "energy" /\ x = Energy /\ (Unbased(setup, o.grp, x) <=> o.grp.ts = 0)
          \/ x[1] \in setup.perf /\ ~Unbased(setup, o.grp, x)
      BY <1>1, <2>1, <3>2, FlagOf
    <3>4. \/ x[1] \in setup.resctrl \cap Mbm /\ (Unbased(setup, grp, x) <=> x[1] \notin grp.valid)
          \/ x[1] \in setup.resctrl /\ x[1] = "energy" /\ x = Energy /\ (Unbased(setup, grp, x) <=> grp.ts = 0)
          \/ x[1] \in setup.perf /\ ~Unbased(setup, grp, x)
      BY <1>1, <2>1, <3>2, FlagOf
    <3>5. setup.perf \cap setup.resctrl = {} /\ "energy" \notin Mbm /\ Telemetry \cap Mbm = {}
      BY <1>1, Sources, EventNames
    <3>6. CASE x = k
      <4>1. e \in Mbm => e \in o.grp.valid
        BY <1>5, <3>5 DEF Filed
      <4>2. e = "energy" => o.grp.ts # 0
        BY <1>5 DEF Filed
      <4>3. ~Unbased(setup, o.grp, x)
        BY <1>2, <3>3, <3>5, <3>6, <4>1, <4>2
      <4> QED
        BY <1>6, <3>6, <4>3
    <3>7. CASE x # k
      <4>1. x[1] # e
        BY <1>2, <3>7
      <4>2. x[1] \in o.grp.valid <=> x[1] \in grp.valid
        BY <1>5, <4>1 DEF Filed
      <4>3. x[1] = "energy" => o.grp.ts = grp.ts
        BY <1>5, <4>1 DEF Filed
      <4>4. Unbased(setup, o.grp, x) <=> Unbased(setup, grp, x)
        BY <3>3, <3>4, <3>5, <4>2, <4>3
      <4> QED
        BY <1>6, <3>1, <3>7, <4>4
    <3> QED
      BY <3>6, <3>7
  <2> QED
    BY <1>1, <2>1 DEF Flagging, Flagged, RegionsRead
<1>11. Balancing(e, o)
  <2> SUFFICES ASSUME NEW slot \in Slots(setup), slot[1] \notin Gauges, Clean(KeyOf(setup, slot), o),
                      KeyOf(setup, slot) \notin GapAfter(e, o)
                        \/ (Cyclic(KeyOf(setup, slot)) /\ KeyOf(setup, slot) \in fresh \cup o.stored)
               PROVE  Balanced(o.grp, o.cnt[KeyOf(setup, slot)], SinceAfter(KeyOf(setup, slot), o), slot)
    BY DEF Balancing
  <2>1. slot \in Keys(setup) /\ KeyOf(setup, slot) = slot /\ slot = Key0(slot[1]) /\ slot \notin gap \ {k}
        /\ Clean(slot, o) /\ spoilt[slot] = {}
    BY <1>3, <1>6, <1>7 DEF Clean
  <2>2. slot[1] \in setup.resctrl \cap Mbm =>
          SumOf(o.cnt[slot]) + o.grp.store[slot[1]] = SumOf(cnt[slot]) + grp.store[slot[1]]
    BY <1>4, <2>1 DEF Totals
  <2>3. slot[1] = "energy" => o.cnt[slot] = cnt[slot]
    BY <1>4, <2>1
  <2>4. slot[1] \notin (setup.resctrl \cap Mbm) \cup {"energy"} => slot[1] \notin setup.resctrl
    <3>1. setup.resctrl \subseteq {"l3", "local", "total", "energy", "activity"}
      BY <1>1, Sources
    <3> QED
      BY <3>1, EventNames
  <2>5. CASE slot = k
    <3>1. SinceAfter(slot, o) = 0
      BY <1>4, <2>5 DEF SinceAfter
    <3>2. cnt[k] \in [Unit -> Nat] /\ SumOf(cnt[k]) \in Nat
      BY <1>1, <1>2, SumType DEF PollTypeOK
    <3>3. slot[1] = e /\ e \in (setup.resctrl \cap Mbm) \cup {"energy"}
      BY <1>2, <2>4, <2>5
    <3>4. e = "energy" => SumOf(o.cnt[slot]) = o.grp.tel["energy"].current + 0
      <4>1. e = "energy" => g.tel["energy"].current = SumOf(cnt[k])
        BY DEF Filed, k
      <4> QED
        BY <1>5, <2>3, <2>5, <3>2, <3>3, <4>1
    <3>5. e \in Mbm => SumOf(o.cnt[slot]) + o.grp.store[e] = o.grp.val[slot] + 0
      <4>1. e \in Mbm => g.val[k] = SumOf(cnt[k]) + grp.store[e]
        BY <2>1, <2>5 DEF Filed, k
      <4>2. e \in Mbm => grp.store[e] \in Nat
        BY <1>1 DEF Group
      <4> QED
        BY <1>1, <1>5, <2>2, <2>5, <3>2, <3>3, <4>1, <4>2
    <3> QED
      BY <1>7, <2>1, <3>1, <3>3, <3>4, <3>5 DEF Balanced
  <2>6. CASE slot # k
    <3>1. SinceAfter(slot, o) = since[slot] /\ slot \notin gap
      BY <1>4, <2>1, <2>6 DEF SinceAfter
    <3>2. Balanced(grp, cnt[slot], since[slot], slot)
      BY <1>1, <2>1, <3>1 DEF PollInv, Balance
    <3>3. o.grp.val[slot] = grp.val[slot]
      BY <1>5, <2>6 DEF Filed, k
    <3>4. slot[1] = "energy" => o.grp.tel["energy"] = grp.tel["energy"]
      <4>1. slot[1] # e
        BY <1>2, <2>1, <2>6
      <4> QED
        BY <1>5, <4>1 DEF Filed
    <3>5. slot[1] \notin (setup.resctrl \cap Mbm) \cup {"energy"} => o.cnt[slot] = cnt[slot]
      BY <1>4, <2>1, <2>4
    <3>6. slot[1] \in setup.resctrl \cap Mbm => SumOf(o.cnt[slot]) + o.grp.store[slot[1]] = o.grp.val[slot] + since[slot]
      BY <1>7, <2>2, <3>2, <3>3 DEF Balanced
    <3>7. slot[1] = "energy" => SumOf(o.cnt[slot]) = o.grp.tel["energy"].current + since[slot]
      BY <2>3, <3>2, <3>4 DEF Balanced
    <3>8. slot[1] \notin (setup.resctrl \cap Mbm) \cup {"energy"} =>
            Worth(slot[1]) * SumOf(o.cnt[slot]) = o.grp.val[slot] + Worth(slot[1]) * since[slot]
      BY <1>7, <3>2, <3>3, <3>5 DEF Balanced
    <3> QED
      BY <1>7, <2>1, <3>1, <3>6, <3>7, <3>8 DEF Balanced
  <2> QED
    BY <2>5, <2>6
<1>12. Differences(o)
  <2> SUFFICES ASSUME NEW slot \in Slots(setup), slot[1] \notin Gauges \cup Telemetry, Clean(KeyOf(setup, slot), o)
               PROVE  o.grp.dlt[slot] = ExactAfter(KeyOf(setup, slot), o) * Worth(slot[1])
    BY DEF Differences
  <2>1. slot \in Keys(setup) /\ KeyOf(setup, slot) = slot /\ spoilt[slot] = {}
    BY <1>3 DEF Clean
  <2>2. CASE slot = k
    <3>1. ExactAfter(slot, o) = IF k \in gap THEN 0 ELSE since[k]
      BY <1>4, <2>2 DEF ExactAfter
    <3>2. e \in Mbm
      BY <1>1, <1>2, <2>2, EventNames
    <3>3. g.dlt[k] = IF k \in gap THEN 0 ELSE since[k]
      BY <2>1, <2>2, <3>2 DEF Filed, k
    <3>4. Worth(slot[1]) = 1
      BY <1>1 DEF Worth
    <3>5. since[k] \in Nat
      BY <1>1, <1>2 DEF PollTypeOK
    <3> QED
      BY <1>5, <2>1, <2>2, <3>1, <3>3, <3>4, <3>5
  <2>3. CASE slot # k
    <3>1. ExactAfter(slot, o) = exact[slot] /\ o.grp.dlt[slot] = grp.dlt[slot]
      BY <1>4, <1>5, <2>3 DEF ExactAfter, Filed, k
    <3>2. grp.dlt \in [Slots(setup) -> 0 .. Wide - 1]
      BY <1>1 DEF Group
    <3>3. grp.dlt[slot] = exact[slot] * Worth(slot[1])
      BY <1>1, <2>1, <3>2 DEF PollInv, DeltaExact, pqos_mon_get_value
    <3> QED
      BY <2>1, <3>1, <3>3
  <2> QED
    BY <2>2, <2>3
<1>13. NarrowValues(o.grp)
  BY <1>7 DEF NarrowValues
<1>14. Marks(e, o)
  BY <1>2, <1>4, <1>5 DEF Marks, Filed
<1>15. Samples(o)
  <2>1. CASE e = "energy"
    <3>1. k = Energy /\ Energy \in Keys(setup) /\ Energy \in Slots(setup) /\ Energy[1] = "energy"
      BY <1>2, <1>9, <2>1
    <3>2. o.grp.tel["energy"].current = SumOf(cnt[Energy])
          /\ o.grp.tel["energy"].previous = grp.tel["energy"].current /\ o.grp.prev = grp.ts /\ o.grp.power = grp.power
      BY <1>5, <2>1, <3>1 DEF Filed, k
    <3>3. ASSUME Clean(Energy, o), o.grp.prev # 0
          PROVE  SumOf(cnt[Energy]) - grp.tel["energy"].current = ExactAfter(Energy, o)
      <4>1. Energy \notin gap
        <5>1. Energy[1] \notin Gauges /\ Energy[1] \notin Mbm /\ Energy[1] \notin setup.perf
          BY <1>1, <2>1, <3>1, Sources, EventNames
        <5>2. Unbased(setup, grp, Energy) <=> grp.ts = 0
          BY <1>1, <3>1, <5>1, FlagOf
        <5> QED
          BY <1>8, <3>1, <3>2, <3>3, <5>1, <5>2 DEF Flagged
      <4>2. KeyOf(setup, Energy) = Energy /\ Energy[1] \notin Gauges
        BY <1>3, <3>1, EventNames
      <4>3. Balanced(grp, cnt[Energy], since[Energy], Energy)
        BY <1>1, <3>1, <3>3, <4>1, <4>2 DEF PollInv, Balance, Clean
      <4>4. SumOf(cnt[Energy]) = grp.tel["energy"].current + since[Energy]
        BY <3>1, <4>3 DEF Balanced
      <4>5. ExactAfter(Energy, o) = since[Energy]
        BY <1>4, <3>1, <4>1 DEF ExactAfter
      <4>6. since[Energy] \in Nat /\ grp.tel["energy"].current \in Nat
        BY <1>1, <3>1 DEF PollTypeOK, Group, Telemetry
      <4> QED
        BY <4>4, <4>5, <4>6
    <3> QED
      BY <2>1, <3>2, <3>3 DEF Samples
  <2>2. CASE e # "energy"
    <3>1. o.grp.tel["energy"] = grp.tel["energy"] /\ o.grp.prev = grp.prev /\ o.grp.power = grp.power
      BY <1>5, <2>2 DEF Filed
    <3>2. ExactAfter(Energy, o) = exact[Energy]
      BY <1>4, <1>9, <2>2 DEF ExactAfter
    <3> QED
      BY <1>1, <3>1, <3>2 DEF PollInv, EnergyRight, Samples, Clean
  <2> QED
    BY <2>1, <2>2
<1> QED
  BY <1>4, <1>10, <1>11, <1>12, <1>13, <1>14, <1>15 DEF Reading, o, k

\* What resctrl_mon_poll() stores for a classic event.
ClassicStored(e, now, d, g) ==
  /\ now = IF e = "l3" THEN SumOf(cnt[Key0(e)]) ELSE (SumOf(cnt[Key0(e)]) + grp.store[e]) % Wide
  /\ d = IF e = "l3" THEN grp.dlt[Key0(e)]
         ELSE IF e \in grp.valid THEN get_delta64(grp.val[Key0(e)], now) ELSE 0
  /\ g = [Put(Key0(e), now, d) EXCEPT !.valid = grp.valid \cup {e}]

LEMMA ClassicFiled ==
  ASSUME PollInv, phase = "poll", NEW e \in todo, e \in setup.resctrl \ Telemetry,
         NEW now, NEW d, NEW g, ClassicStored(e, now, d, g)
  PROVE  Filed(e, g)
<1> DEFINE k == Key0(e)
           n == SumOf(cnt[k])
<1>1. PollTypeOK /\ setup \in Setups \cup {NoSetup} /\ grp \in Group(setup) /\ phase # "off"
      /\ e \in Polled(setup) /\ ~ByRegion(setup, e) /\ setup.inter = "OS" /\ setup.hw = {}
      /\ (e = "l3" \/ e \in Mbm) /\ e # "energy" /\ ~("l3" \in Mbm)
  BY Sources, EventNames DEF PollInv, PollTypeOK, Polled, ByRegion
<1>2. k \in Keys(setup) /\ k \in Slots(setup) /\ k[1] = e /\ KeyOf(setup, k) = k
  BY <1>1, OneKey
<1>3. ~Cyclic(k)
  BY <1>1 DEF Cyclic
<1>4. n \in Nat /\ n \in 0 .. Wide - 1
  BY <1>2, <1>3, CountFits
<1>5. grp.val[k] \in 0 .. Wide - 1 /\ grp.dlt[k] \in 0 .. Wide - 1 /\ \A x \in Mbm : grp.store[x] \in Nat
  BY <1>1, <1>2 DEF Group
<1> HIDE DEF n, k
<1>6. now \in 0 .. Wide - 1
  <2>1. CASE e = "l3"
    BY <1>4, <2>1 DEF n, k, ClassicStored
  <2>2. CASE e # "l3"
    <3>1. now = (n + grp.store[e]) % Wide /\ n + grp.store[e] \in Nat
      BY <1>1, <1>4, <1>5, <2>2 DEF n, k, ClassicStored
    <3> QED
      BY <3>1, Fits, Positive
  <2> QED
    BY <2>1, <2>2
<1>7. d \in 0 .. Wide - 1
  <2>1. get_delta64(grp.val[k], now) \in 0 .. Wide - 1
    BY <1>5, <1>6, Delta64
  <2>2. 0 \in 0 .. Wide - 1
    BY <1>6, Positive
  <2> QED
    BY <1>5, <2>1, <2>2 DEF k, ClassicStored
<1>8. IsPut(Put(k, now, d), k, now, d) /\ Put(k, now, d).mbmRead = grp.mbmRead /\ Put(k, now, d).ioRead = grp.ioRead
  BY <1>1, <1>2, <1>6, <1>7, PutIs
<1>9. /\ g \in Group(setup) /\ g.val = [grp.val EXCEPT ![k] = now] /\ g.dlt = [grp.dlt EXCEPT ![k] = d]
      /\ g.store = grp.store /\ g.ioRead = grp.ioRead /\ g.mbmRead = grp.mbmRead /\ g.power = grp.power
      /\ g.valid = grp.valid \cup {e} /\ g.ts = grp.ts /\ g.prev = grp.prev /\ g.tel = grp.tel
  <2> DEFINE p == Put(k, now, d)
             v == grp.valid \cup {e}
  <2>1. p \in Group(setup) /\ v \in SUBSET setup.resctrl
    BY <1>1, <1>8 DEF IsPut, Group
  <2>2. g = [p EXCEPT !.valid = v]
    BY DEF k, ClassicStored
  <2>3. /\ p.val = [grp.val EXCEPT ![k] = now] /\ p.dlt = [grp.dlt EXCEPT ![k] = d]
        /\ p.store = grp.store /\ p.ioRead = grp.ioRead /\ p.mbmRead = grp.mbmRead /\ p.power = grp.power
        /\ p.ts = grp.ts /\ p.prev = grp.prev /\ p.tel = grp.tel
    BY <1>8 DEF IsPut
  <2> HIDE DEF p, v
  <2>4. g \in Group(setup) /\ g.valid = v /\ g.val = p.val /\ g.dlt = p.dlt /\ g.store = p.store
        /\ g.ioRead = p.ioRead /\ g.mbmRead = p.mbmRead /\ g.power = p.power /\ g.ts = p.ts
        /\ g.prev = p.prev /\ g.tel = p.tel
    BY <2>1, <2>2 DEF Group
  <2> QED
    BY <2>3, <2>4 DEF v
<1>10. g.val[k] = now /\ g.dlt[k] = d
       /\ \A slot \in Slots(setup) : slot # k => g.val[slot] = grp.val[slot] /\ g.dlt[slot] = grp.dlt[slot]
  <2>1. grp.val \in [Slots(setup) -> 0 .. Wide - 1] /\ grp.dlt \in [Slots(setup) -> 0 .. Wide - 1]
    BY <1>1 DEF Group
  <2> QED
    BY <1>2, <1>9, <2>1
<1>11. e \in Mbm /\ spoilt[k] = {} => now = n + grp.store[e] /\ d = IF k \in gap THEN 0 ELSE since[k]
  <2> SUFFICES ASSUME e \in Mbm, spoilt[k] = {}
               PROVE  now = n + grp.store[e] /\ d = IF k \in gap THEN 0 ELSE since[k]
    OBVIOUS
  <2>1. n + grp.store[e] <= spent.traffic
    BY <1>1, <1>2 DEF PollInv, Bounded, n
  <2>2. spent.traffic \in Nat /\ spent.traffic <= MaxTraffic
    BY <1>1, BoundAssumption DEF PollTypeOK
  <2>3. n + grp.store[e] \in Nat /\ n + grp.store[e] < Wide
    BY <1>4, <1>5, <2>1, <2>2, Fits, Positive
  <2>4. now = n + grp.store[e]
    <3>1. now = (n + grp.store[e]) % Wide
      BY <1>1 DEF n, k, ClassicStored
    <3> QED
      BY <2>3, <3>1, Positive
  <2>5. e \notin Gauges
    BY <1>1, EventNames
  <2>6. k \in gap <=> e \notin grp.valid
    <3>1. k \in gap <=> Unbased(setup, grp, k)
      BY <1>1, <1>2, <2>5 DEF PollInv, Flags, Flagged
    <3>2. e \notin setup.hw /\ e \notin setup.perf
      BY <1>1, Sources
    <3>3. Unbased(setup, grp, k) <=> e \notin grp.valid
      BY <1>1, <1>2, <2>5, <3>2, FlagOf
    <3> QED
      BY <3>1, <3>3
  <2>7. CASE k \in gap
    BY <1>1, <2>4, <2>6, <2>7 DEF ClassicStored
  <2>8. CASE k \notin gap
    <3>1. Balanced(grp, cnt[k], since[k], k)
      BY <1>1, <1>2, <2>5, <2>8 DEF PollInv, Balance
    <3>2. n + grp.store[e] = grp.val[k] + since[k]
      BY <1>2, <1>3, <3>1 DEF Balanced, n
    <3>3. since[k] \in Nat
      BY <1>1, <1>2 DEF PollTypeOK
    <3>4. get_delta64(grp.val[k], now) = since[k]
      <4>1. now = grp.val[k] + since[k]
        BY <2>4, <3>2
      <4>2. \A more \in Nat : now = grp.val[k] + more => get_delta64(grp.val[k], now) = more
        <5> HIDE DEF k
        <5> QED BY <1>5, <1>6, Delta64
      <4> HIDE DEF k
      <4> QED
        BY <3>3, <4>1, <4>2
    <3>5. d = get_delta64(grp.val[k], now)
      BY <1>1, <2>6, <2>8 DEF k, ClassicStored
    <3> QED
      BY <2>4, <2>8, <3>4, <3>5
  <2> QED
    BY <2>7, <2>8
<1>12. e \notin Telemetry
  OBVIOUS
<1> QED
  BY <1>1, <1>9, <1>10, <1>11, <1>12 DEF Filed, n, k

\* resctrl_mon_poll() for occupancy and bandwidth.
LEMMA ClassicReading ==
  ASSUME PollInv, phase = "poll", NEW e \in todo, e \in setup.resctrl \ Telemetry, NEW fault, NEW purge
  PROVE  Reading(e, resctrl_mon_poll(e, fault, purge))
<1> DEFINE k == Key0(e)
           o == resctrl_mon_poll(e, fault, purge)
           f == resctrl_mon_assoc_restore
           now == IF e = "l3" THEN SumOf(cnt[k]) ELSE (SumOf(cnt[k]) + grp.store[e]) % Wide
           d == IF e = "l3" THEN grp.dlt[k] ELSE IF e \in grp.valid THEN get_delta64(grp.val[k], now) ELSE 0
           g == [Put(k, now, d) EXCEPT !.valid = grp.valid \cup {e}]
<1>1. CASE fault \in {"file", "away"}
  <2>1. /\ o.fs = f /\ o.cnt = cnt /\ o.stored = {} /\ o.spoil = {}
        /\ \/ o.ret = "ERROR" /\ o.grp = grp
           \/ o.ret = "UNAVAILABLE" /\ o.grp = resctrl_away(e)
    BY <1>1 DEF resctrl_mon_poll, Outcome
  <2> HIDE DEF o
  <2>2. Reading(e, o)
    BY <2>1, FileReading
  <2> QED
    BY <2>2 DEF o
<1>2. CASE fault \notin {"file", "away"}
  <2>1. PollTypeOK /\ setup \in Setups \cup {NoSetup} /\ grp \in Group(setup)
        /\ e \in Polled(setup) /\ ~ByRegion(setup, e)
    BY Sources DEF PollInv, PollTypeOK, Polled, ByRegion
  <2>2. k \in Keys(setup) /\ k[1] = e
    BY <2>1, OneKey
  <2>3. SumIn(cnt[k], f.dirs) = SumOf(cnt[k])
    BY <2>2, LiveIs
  <2>4. o = resctrl_mon_purge([grp EXCEPT !.val[k] = now, !.dlt[k] = d, !.valid = grp.valid \cup {e}], f, k, purge)
    BY <1>2, <2>1, <2>3 DEF resctrl_mon_poll, resctrl_mon_read_counters, Group
  <2>5. [grp EXCEPT !.val[k] = now, !.dlt[k] = d, !.valid = grp.valid \cup {e}] = g
    <3> HIDE DEF now, d
    <3> QED
      BY <2>1 DEF Put, Group
  <2> HIDE DEF o, g, now, d
  <2>6. Filed(e, g)
    <3>1. ClassicStored(e, now, d, g)
      BY DEF ClassicStored, g, now, d
    <3> QED
      BY <3>1, ClassicFiled
  <2>7. Reading(e, resctrl_mon_purge(g, f, k, purge))
    BY <2>6, PurgeReading
  <2> QED
    BY <2>4, <2>5, <2>7 DEF o
<1> QED
  BY <1>1, <1>2

\* What resctrl_mon_poll() stores for telemetry.
TelemetryStored(e, tick, slot, g) ==
  /\ slot = [previous |-> grp.tel[e].current, current |-> SumOf(cnt[Key0(e)]), valid |-> TRUE]
  /\ g = IF e = "energy"
         THEN [grp EXCEPT !.tel[e] = slot, !.prev = grp.ts, !.ts = IF @ = 0 THEN 1 ELSE @ + tick]
         ELSE [grp EXCEPT !.tel[e] = slot]

LEMMA TelemetryFiled ==
  ASSUME PollInv, phase = "poll", NEW e \in todo, e \in setup.resctrl \cap Telemetry, NEW tick \in {0, 1},
         NEW slot, NEW g, TelemetryStored(e, tick, slot, g)
  PROVE  Filed(e, g)
<1>1. PollTypeOK /\ setup \in Setups \cup {NoSetup} /\ grp \in Group(setup)
      /\ e \in Polled(setup) /\ ~ByRegion(setup, e) /\ setup.inter = "OS"
      /\ e \in Telemetry /\ e \notin Mbm
  BY Sources, EventNames DEF PollInv, PollTypeOK, Polled, ByRegion
<1>2. Key0(e) \in Keys(setup)
  BY <1>1, OneKey
<1>3. SumOf(cnt[Key0(e)]) \in Nat
  BY <1>1, <1>2, SumType DEF PollTypeOK
<1>4. slot \in [previous : Nat, current : Nat, valid : BOOLEAN]
  <2>1. grp.tel[e].current \in Nat
    BY <1>1 DEF Group
  <2> QED
    BY <1>3, <2>1 DEF TelemetryStored
<1> DEFINE tel == [grp.tel EXCEPT ![e] = slot]
           ts == IF grp.ts = 0 THEN 1 ELSE grp.ts + tick
<1>5. tel \in [Telemetry -> [previous : Nat, current : Nat, valid : BOOLEAN]] /\ ts \in Nat \ {0} /\ grp.ts \in Nat
  BY <1>1, <1>4 DEF Group
<1>6. e = "energy" => tel["energy"] = slot
  <2>1. DOMAIN grp.tel = Telemetry
    BY <1>1 DEF Group
  <2> QED
    BY <1>1, <2>1
<1>7. e # "energy" => tel["energy"] = grp.tel["energy"]
  OBVIOUS
<1>8. g = IF e = "energy" THEN [[[grp EXCEPT !.tel = tel] EXCEPT !.prev = grp.ts] EXCEPT !.ts = ts]
          ELSE [grp EXCEPT !.tel = tel]
  BY <1>1 DEF Group, TelemetryStored
<1> HIDE DEF tel, ts
<1>9. /\ g \in Group(setup) /\ g.val = grp.val /\ g.dlt = grp.dlt
      /\ g.store = grp.store /\ g.ioRead = grp.ioRead /\ g.mbmRead = grp.mbmRead /\ g.power = grp.power
      /\ g.valid = grp.valid /\ g.tel = tel
      /\ e # "energy" => g.ts = grp.ts /\ g.prev = grp.prev
      /\ e = "energy" => g.ts = ts /\ g.prev = grp.ts
  <2>1. CASE e = "energy"
    <3>1. g = [[[grp EXCEPT !.tel = tel] EXCEPT !.prev = grp.ts] EXCEPT !.ts = ts]
      BY <1>8, <2>1
    <3>2. g \in Group(setup)
      BY <1>1, <1>5, <3>1 DEF Group
    <3> QED
      BY <1>1, <2>1, <3>1, <3>2 DEF Group
  <2>2. CASE e # "energy"
    <3>1. g = [grp EXCEPT !.tel = tel]
      BY <1>8, <2>2
    <3>2. g \in Group(setup)
      BY <1>1, <1>5, <3>1 DEF Group
    <3> QED
      BY <1>1, <2>2, <3>1, <3>2 DEF Group
  <2> QED
    BY <2>1, <2>2
<1>10. e = "energy" => g.tel["energy"].valid /\ g.tel["energy"].current = SumOf(cnt[Key0(e)])
                      /\ g.tel["energy"].previous = grp.tel["energy"].current
  <2>1. slot.valid /\ slot.current = SumOf(cnt[Key0(e)]) /\ (e = "energy" => slot.previous = grp.tel["energy"].current)
    BY DEF TelemetryStored
  <2> QED
    BY <1>6, <1>9, <2>1
<1> QED
  BY <1>1, <1>5, <1>7, <1>9, <1>10 DEF Filed

\* resctrl_mon_poll() for telemetry.
LEMMA TelemetryReading ==
  ASSUME PollInv, phase = "poll", NEW e \in todo, e \in setup.resctrl \cap Telemetry, NEW fault, NEW purge,
         NEW tick \in {0, 1}
  PROVE  Reading(e, resctrl_tel_poll(e, fault, purge, tick))
<1> DEFINE k == Key0(e)
           o == resctrl_tel_poll(e, fault, purge, tick)
           f == resctrl_mon_assoc_restore
           slot == [previous |-> grp.tel[e].current, current |-> SumOf(cnt[k]), valid |-> TRUE]
           g == IF e = "energy"
                THEN [grp EXCEPT !.tel[e] = slot, !.prev = grp.ts, !.ts = IF @ = 0 THEN 1 ELSE @ + tick]
                ELSE [grp EXCEPT !.tel[e] = slot]
<1>1. CASE fault = "file"
  <2>1. o.fs = f /\ o.cnt = cnt /\ o.stored = {} /\ o.spoil = {} /\ o.ret = "ERROR" /\ o.grp = grp
    BY <1>1 DEF resctrl_tel_poll, Outcome
  <2> HIDE DEF o
  <2>2. Reading(e, o)
    BY <2>1, FileReading
  <2> QED
    BY <2>2 DEF o
<1>2. CASE fault # "file"
  <2>1. PollTypeOK /\ setup \in Setups \cup {NoSetup}
        /\ e \in Polled(setup) /\ ~ByRegion(setup, e)
    BY Sources DEF PollInv, PollTypeOK, Polled, ByRegion
  <2>2. k \in Keys(setup) /\ k[1] = e
    BY <2>1, OneKey
  <2>3. SumIn(cnt[k], f.dirs) = SumOf(cnt[k])
    BY <2>2, LiveIs
  <2>4. o = resctrl_mon_purge(g, f, k, purge)
    BY <1>2, <2>3 DEF resctrl_tel_poll, resctrl_mon_read_tel_pkgs
  <2> HIDE DEF o, g
  <2>5. Filed(e, g)
    <3> HIDE DEF slot
    <3>1. TelemetryStored(e, tick, slot, g)
      BY DEF TelemetryStored, g, slot
    <3> QED
      BY <3>1, TelemetryFiled
  <2>6. Reading(e, resctrl_mon_purge(g, f, k, purge))
    BY <2>5, PurgeReading
  <2> QED
    BY <2>4, <2>6 DEF o
<1> QED
  BY <1>1, <1>2

-----------------------------------------------------------------------------
(***************************************************************************)
(* One event of a poll, whatever it meets.                                 *)
(***************************************************************************)
\* A fault counts against the bound, and a memory mapped counter meets only
\* those of its kind.
LEMMA TroubleIs ==
  ASSUME PollInv, phase = "poll", NEW e \in todo, NEW t \in Troubles(e)
  PROVE  /\ (t.script = NoTries /\ t.fault = "none" /\ t.purge[1] = "none") \/ spent.moves < MaxMoves
         /\ setup.inter = "MMIO" /\ e \in setup.hw \cap {"total", "io_total", "io_miss"} =>
              t.fault \in {"none", "mmio", "noton", "overflow"}
<1> DEFINE calm == [script |-> NoTries, fault |-> "none", purge |-> <<"none", "none">>]
           with(kinds) == {[calm EXCEPT !.fault = f] : f \in kinds \cap Faults}
           purges == IF "purge" \in Faults
                     THEN {[calm EXCEPT !.purge = p] : p \in (Mbm \X {"away", "file"}) \cup {<<"rmdir", "file">>}}
                     ELSE {}
           mapped == {"mmio", "noton"} \cup (IF e \in Gauges THEN {} ELSE {"overflow"})
           some == CASE e \in setup.resctrl /\ e \notin Telemetry -> with({"file", "away"}) \cup purges
                     [] e \in setup.resctrl /\ e \in Telemetry -> with({"file"}) \cup purges
                     [] e \in setup.perf -> with({"perf"})
                     [] e \in Pmu \cup {"pcie"} -> with({"msr"})
                     [] setup.inter = "MMIO" -> with(mapped)
                     [] OTHER -> IF "tries" \in Faults THEN {[calm EXCEPT !.script = s] : s \in Tries} ELSE {}
<1>1. Troubles(e) = {calm} \cup (IF spent.moves < MaxMoves THEN some ELSE {})
  BY DEF Troubles
<1>2. calm.script = NoTries /\ calm.fault = "none" /\ calm.purge[1] = "none"
  OBVIOUS
<1>3. setup.inter = "MMIO" /\ e \in setup.hw \cap {"total", "io_total", "io_miss"} => some = with(mapped)
  <2> HIDE DEF with, purges, calm, mapped
  <2> SUFFICES ASSUME setup.inter = "MMIO", e \in setup.hw, e \in {"total", "io_total", "io_miss"}
               PROVE  some = with(mapped)
    OBVIOUS
  <2>1. setup \in Setups \cup {NoSetup}
    BY DEF PollInv, PollTypeOK
  <2>2. e \notin setup.resctrl /\ e \notin setup.perf /\ e \notin Pmu \cup {"pcie"}
    BY <2>1, Sources, EventNames
  <2> QED
    BY <2>2
<1>4. \A x \in with(mapped) : x.fault \in {"none", "mmio", "noton", "overflow"}
  <2> SUFFICES ASSUME NEW f \in mapped PROVE [calm EXCEPT !.fault = f].fault \in {"none", "mmio", "noton", "overflow"}
    OBVIOUS
  <2>1. [calm EXCEPT !.fault = f].fault = f
    OBVIOUS
  <2> QED
    BY <2>1
<1> HIDE DEF some, calm, with
<1>5. CASE t = calm
  BY <1>2, <1>5
<1>6. CASE spent.moves < MaxMoves /\ t \in some
  BY <1>3, <1>4, <1>6
<1> QED
  BY <1>1, <1>5, <1>6

\* perf_mon_poll().
LEMMA PerfReading ==
  ASSUME PollInv, phase = "poll", NEW e \in todo, e \in setup.perf, NEW fault
  PROVE  Reading(e, perf_mon_poll(e, fault))
<1> DEFINE k == Key0(e)
           n == SumOf(cnt[k])
           d == IF e = "l3" THEN grp.dlt[k] ELSE get_delta64(grp.val[k], n)
           o == perf_mon_poll(e, fault)
<1>1. PollTypeOK /\ setup \in Setups \cup {NoSetup} /\ grp \in Group(setup) /\ e \in Polled(setup)
      /\ ~ByRegion(setup, e) /\ e \notin setup.resctrl /\ ~(setup.inter = "MSR" /\ e \in Mbm)
  BY Sources, EventNames DEF PollInv, PollTypeOK, Polled, ByRegion
<1>2. k \in Keys(setup) /\ k \in Slots(setup) /\ k[1] = e
  BY <1>1, OneKey
<1>3. CASE fault = "perf"
  <2>1. IsOutcome(o, grp, "ERROR", {})
    BY <1>3, OutcomeIs DEF perf_mon_poll
  <2> HIDE DEF o
  <2>2. Reading(e, o)
    BY <1>1, <2>1, FailedReading
  <2> QED
    BY <2>2 DEF o
<1>4. CASE fault # "perf"
  <2>1. IsOutcome(o, [grp EXCEPT !.val[k] = n, !.dlt[k] = d], "OK", {k})
    BY <1>1, <1>4, OutcomeIs DEF perf_mon_poll, Outcome, IsOutcome, Group
  <2>2. grp.val[k] \in 0 .. Wide - 1 /\ grp.dlt[k] \in 0 .. Wide - 1
    BY <1>1, <1>2 DEF Group
  <2>3. n \in 0 .. Wide - 1
    <3>1. ~Cyclic(k)
      BY <1>1, <1>2 DEF Cyclic
    <3> QED
      BY <1>2, <3>1, CountFits
  <2> HIDE DEF n, k, o
  <2>4. get_delta64(grp.val[k], n) \in 0 .. Wide - 1 /\ \A m \in Nat : n = grp.val[k] + m => get_delta64(grp.val[k], n) = m
    BY <2>2, <2>3, Delta64
  <2>5. d \in 0 .. Wide - 1
    BY <2>2, <2>4
  <2>6. e \notin Gauges => \A m \in Nat : n = grp.val[k] + m => d = m
    BY <2>4, EventNames
  <2> HIDE DEF d
  <2>7. IsOutcome(o, Put(k, n, d), "OK", {k})
    BY <2>1 DEF Put
  <2>8. e \in (setup.hw \cap (Pmu \cup {"pcie"})) \cup setup.perf
    OBVIOUS
  <2>9. Reading(e, o)
    BY <2>5, <2>6, <2>7, <2>8, SumReading DEF n, k
  <2> QED
    BY <2>9 DEF o
<1> QED
  BY <1>3, <1>4

\* mon_read_perf() and uncore_mon_poll().
LEMMA PmuReading ==
  ASSUME PollInv, phase = "poll", NEW e \in todo, e \in setup.hw \cap (Pmu \cup {"pcie"}), NEW fault
  PROVE  Reading(e, mon_read_perf(e, fault)) /\ Reading(e, uncore_mon_poll(e, fault))
<1> DEFINE k == Key0(e)
           n == SumOf(cnt[k])
           d == Minus(n, grp.val[k])
           o == mon_read_perf(e, fault)
<1>1. uncore_mon_poll(e, fault) = o
  BY DEF uncore_mon_poll, mon_read_perf
<1>2. PollTypeOK /\ setup \in Setups \cup {NoSetup} /\ grp \in Group(setup) /\ e \in Polled(setup)
      /\ ~ByRegion(setup, e) /\ e \notin setup.resctrl /\ ~(setup.inter = "MSR" /\ e \in Mbm)
  BY Sources, EventNames DEF PollInv, PollTypeOK, Polled, ByRegion
<1>3. k \in Keys(setup) /\ k \in Slots(setup) /\ k[1] = e
  BY <1>2, OneKey
<1>4. CASE fault = "msr"
  <2>1. IsOutcome(o, grp, "ERROR", {})
    BY <1>4, OutcomeIs DEF mon_read_perf
  <2> HIDE DEF o
  <2>2. Reading(e, o)
    BY <1>2, <2>1, FailedReading
  <2> QED
    BY <1>1, <2>2 DEF o
<1>5. CASE fault # "msr"
  <2>1. IsOutcome(o, Put(k, n, d), "OK", {k})
    BY <1>5, OutcomeIs DEF mon_read_perf, Put
  <2>2. grp.val[k] \in 0 .. Wide - 1
    BY <1>2, <1>3 DEF Group
  <2>3. n \in 0 .. Wide - 1
    <3>1. ~Cyclic(k)
      BY <1>2, <1>3 DEF Cyclic
    <3> QED
      BY <1>3, <3>1, CountFits
  <2> HIDE DEF n, k, o
  <2>4. d \in 0 .. Wide - 1 /\ \A m \in Nat : n = grp.val[k] + m => d = m
    BY <2>2, <2>3, MinusIs
  <2> HIDE DEF d
  <2>5. e \in (setup.hw \cap (Pmu \cup {"pcie"})) \cup setup.perf
    OBVIOUS
  <2>6. Reading(e, o)
    BY <2>1, <2>4, <2>5, SumReading DEF n, k
  <2> QED
    BY <1>1, <2>6 DEF o
<1> QED
  BY <1>4, <1>5

\* What Read() gives for the sources of counters, one by one.
LEMMA ReadingIs ==
  ASSUME PollInv, phase = "poll", NEW e \in todo, NEW t \in Troubles(e), NEW tick \in {0, 1}
  PROVE  Reading(e, Read(e, t, tick))
<1>1. PollTypeOK /\ setup \in Setups \cup {NoSetup} /\ e \in Polled(setup) /\ setup.inter \in {"MSR", "OS", "MMIO"}
  BY SetupIs DEF PollInv, PollTypeOK, Processed
<1>2. setup.hw \cap setup.perf = {} /\ setup.hw \cap setup.resctrl = {} /\ setup.perf \cap setup.resctrl = {}
  BY <1>1, Sources
<1>3. CASE e \in setup.resctrl /\ e \in Telemetry
  <2>1. Read(e, t, tick) = resctrl_tel_poll(e, t.fault, t.purge, tick)
    BY <1>2, <1>3 DEF Read
  <2> QED
    BY <1>3, <2>1, TelemetryReading
<1>4. CASE e \in setup.resctrl /\ e \notin Telemetry
  <2>1. Read(e, t, tick) = resctrl_mon_poll(e, t.fault, t.purge)
    BY <1>2, <1>4 DEF Read
  <2> QED
    BY <1>4, <2>1, ClassicReading
<1>5. CASE e \in setup.perf
  <2>1. Read(e, t, tick) = perf_mon_poll(e, t.fault)
    BY <1>2, <1>5 DEF Read
  <2> QED
    BY <1>5, <2>1, PerfReading
<1>6. CASE e \in setup.hw
  <2>1. e \notin setup.resctrl /\ e \notin setup.perf
    BY <1>2, <1>6
  <2>2. CASE e \in Pmu
    <3>1. Read(e, t, tick) = mon_read_perf(e, t.fault)
      BY <1>6, <2>1, <2>2, EventNames DEF Read
    <3> QED
      BY <1>6, <2>2, <3>1, PmuReading
  <2>3. CASE e = "pcie"
    <3>1. Read(e, t, tick) = uncore_mon_poll(e, t.fault)
      BY <1>6, <2>1, <2>3, EventNames DEF Read
    <3> QED
      BY <1>6, <2>3, <3>1, PmuReading
  <2>4. CASE e \notin Pmu /\ e # "pcie" /\ setup.inter = "MMIO"
    <3>1. e \in {"l3", "total", "io_l3", "io_total", "io_miss"}
      BY <1>1, <1>6, <2>4, Sources
    <3>2. CASE e \in {"l3", "io_l3"}
      <4>1. Read(e, t, tick) = mmio_read_occup(e, t.fault)
        BY <1>6, <2>1, <2>4, <3>2 DEF Read
      <4> QED
        BY <1>6, <2>4, <3>2, <4>1, OccupReading
    <3>3. CASE e = "total"
      <4>1. Read(e, t, tick) = mmio_read_total(t.fault)
        BY <1>6, <2>1, <2>4, <3>3 DEF Read
      <4>2. t.fault \in {"none", "mmio", "noton", "overflow"}
        BY <1>6, <2>4, <3>3, TroubleIs
      <4> QED
        BY <1>6, <2>4, <3>3, <4>1, <4>2, TotalReading
    <3>4. CASE e \in {"io_total", "io_miss"}
      <4>1. Read(e, t, tick) = mmio_read_io(e, t.fault)
        BY <1>6, <2>1, <2>4, <3>4 DEF Read
      <4>2. t.fault \in {"none", "mmio", "noton", "overflow"}
        BY <1>6, <2>4, <3>4, TroubleIs
      <4> QED
        BY <1>6, <2>4, <3>4, <4>1, <4>2, IoReading
    <3> QED
      BY <3>1, <3>2, <3>3, <3>4
  <2>5. CASE e \notin Pmu /\ e # "pcie" /\ setup.inter # "MMIO"
    <3>1. setup.inter = "MSR" /\ e \in {"l3", "local", "total"}
      BY <1>1, <1>6, <2>5, Sources
    <3>2. Read(e, t, tick) = hw_mon_read_counter(e, t.script)
      BY <1>6, <2>1, <2>5 DEF Read
    <3> QED
      BY <1>6, <3>1, <3>2, CounterReading
  <2> QED
    BY <2>2, <2>3, <2>4, <2>5
<1> QED
  BY <1>1, <1>3, <1>4, <1>5, <1>6 DEF Polled

\* One event of a poll preserves the invariant.
LEMMA PollEventInv ==
  ASSUME PollInv, NEW e \in todo, NEW tick \in {0, 1}, NEW t \in Troubles(e), pqos_mon_poll_event(e, t, tick)
  PROVE  PollInv'
<1> DEFINE o == Read(e, t, tick)
<1>1. phase = "poll"
  BY DEF pqos_mon_poll_event
<1>2. Reading(e, o)
  BY <1>1, ReadingIs
<1>3. Behind(e, o)
  BY <1>1 DEF pqos_mon_poll_event, Behind, ExactAfter, SinceAfter
<1>4. spent \in [traffic : 0 .. MaxTraffic, polls : 0 .. MaxPolls, starts : 0 .. MaxStarts, moves : 0 .. MaxMoves]
      /\ MaxMoves \in Nat
  BY BoundAssumption DEF PollInv, PollTypeOK
<1>5. \/ spent' = [spent EXCEPT !.moves = @]
      \/ spent' = [spent EXCEPT !.moves = @ + 1] /\ spent.moves < MaxMoves
  BY <1>1, TroubleIs DEF pqos_mon_poll_event
<1>6. spent' \in [traffic : 0 .. MaxTraffic, polls : 0 .. MaxPolls, starts : 0 .. MaxStarts, moves : 0 .. MaxMoves]
      /\ spent'.traffic = spent.traffic
  BY <1>4, <1>5
<1> HIDE DEF o
<1> QED
  BY <1>2, <1>3, <1>6, EventInv

-----------------------------------------------------------------------------
(***************************************************************************)
(* The theorems.                                                           *)
(***************************************************************************)
LEMMA StepInv ==
  ASSUME PollInv, [PollNext]_pollVars
  PROVE  PollInv'
<1>1. CASE \E s \in Setups, boot \in Boot, held \in Held, on \in BOOLEAN, last \in Unit \cup {NoStop} :
              mon_start(s, boot, held, on, last)
  BY <1>1, StartInv
<1>2. CASE mon_stop
  BY <1>2, StopInv
<1>3. CASE \E u \in Unit, work \in Works : Traffic(u, work)
  BY <1>3, TrafficInv
<1>4. CASE \E u \in Unit : Reassociated(u)
  BY <1>4, ReassociatedInv
<1>5. CASE pqos_mon_poll
  BY <1>5, PollStartInv
<1>6. CASE pqos_mon_poll_busy
  BY <1>6, PollBusyInv
<1>7. CASE \E e \in todo, tick \in {0, 1} : \E t \in Troubles(e) : pqos_mon_poll_event(e, t, tick)
  BY <1>7, PollEventInv
<1>8. CASE pqos_mon_poll_done
  BY <1>8, DoneInv
<1>9. CASE UNCHANGED pollVars
  BY <1>9, StutterInv
<1> QED
  BY <1>1, <1>2, <1>3, <1>4, <1>5, <1>6, <1>7, <1>8, <1>9 DEF PollNext

LEMMA PollInvAlways == PollSpec => []PollInv
<1>1. PollInit => PollInv
  BY InitInv
<1>2. PollInv /\ [PollNext]_pollVars => PollInv'
  BY StepInv
<1> QED
  BY <1>1, <1>2, PTL DEF PollSpec

\* When pqos_mon_poll() returns OK, every event of the group was read by this
\* very poll or pqos_mon_event_valid() says that it was not; power is the
\* energy between two samples taken at different times; and the programmable
\* and uncore counters mon_start_perf() and uncore_mon_start() enabled run until
\* mon_stop_perf() and uncore_mon_stop() have disabled every one of them, and
\* the fixed ones of the group with them, of which the library enables none: for
\* every group, every number of clusters, cores, sockets and directories, and
\* every fault a poll may meet.
THEOREM ValuesAreSound == PollSpec => []ValuesSound
<1>1. PollInv => ValuesSound
  BY DEF PollInv, ValuesSound
<1> QED
  BY <1>1, PollInvAlways, PTL

\* The delta pqos_mon_get_value() hands out is what was counted between the
\* last two readings of the event that hw_mon_read_counter(), mon_read_perf(),
\* uncore_mon_poll(), perf_mon_poll(), mmio_mon_read_counter() or
\* resctrl_mon_poll() stored, and zero where there was no earlier one: for
\* counters of every width, through the end of a counter, polls that failed,
\* classes the cores were moved to and directories that were purged.  Of the
\* counters behind IPC, which mon_start_perf() neither zeroes nor enables, the
\* first delta is all they hold, whatever that is, and later ones are what
\* another agent let them count.
THEOREM DeltasAreExact == PollSpec => []DeltaExact
<1>1. PollInv => DeltaExact
  BY DEF PollInv
<1> QED
  BY <1>1, PollInvAlways, PTL

-----------------------------------------------------------------------------
(***************************************************************************)
(* The API lock (ApiLock), for every set of processes and every bound.     *)
(***************************************************************************)
\* No action takes the variables out of their domains.
LEMMA TypeStep == TypeOK /\ [Next]_vars => TypeOK'
<1> SUFFICES ASSUME TypeOK, [Next]_vars
             PROVE  TypeOK'
  OBVIOUS
<1>0. faults' \in Environments
  BY DEF TypeOK, Next, vars
<1> USE <1>0, FieldAssumption DEF TypeOK, Record, NoFile, EmptyFile, Names, Places,
        InInit, Refused, Goto, Unlink, Exists
<1>1. ASSUME NEW p \in Proc, Start(p)
      PROVE  TypeOK'
  BY <1>1 DEF Start
<1>2. ASSUME NEW p \in Proc, Die(p)
      PROVE  TypeOK'
  BY <1>2 DEF Die
<1>3. ASSUME NEW p \in Proc, FieldChanges(p)
      PROVE  TypeOK'
  BY <1>3 DEF FieldChanges
<1>4. ASSUME NEW p \in Proc, CallInit(p)
      PROVE  TypeOK'
  BY <1>4 DEF CallInit
<1>5. ASSUME NEW p \in Proc, Step(p)
      PROVE  TypeOK'
  <2>1. CASE ProbeOpen(p)
    BY <2>1 DEF ProbeOpen
  <2>2. CASE ProbeUnlink(p)
    BY <2>2 DEF ProbeUnlink
  <2>3. CASE CreateLock(p)
    BY <2>3 DEF CreateLock, OpenExclusive
  <2>4. CASE read_lockfile(p)
    BY <2>4 DEF read_lockfile
  <2>5. CASE CheckStale(p)
    BY <2>5 DEF CheckStale
  <2>6. CASE UnlinkStale(p)
    <3>1. pc' \in [Proc -> Places]
      <4>1. PICK to \in {"recreate", "inuse"} : pc' = [pc EXCEPT ![p] = to]
        BY <2>6 DEF UnlinkStale
      <4>2. QED
        BY <4>1
    <3>2. stream' \in [Proc -> {"none", "linked", "deleted"}]
      BY <2>6 DEF UnlinkStale
    <3>3. QED
      BY <2>6, <3>1, <3>2 DEF UnlinkStale
  <2>7. CASE RecreateLock(p)
    BY <2>7 DEF RecreateLock, OpenExclusive
  <2>8. CASE WriteOpen(p)
    BY <2>8 DEF WriteOpen
  <2>9. CASE WriteClose(p)
    BY <2>9 DEF WriteClose
  <2>10. CASE InitDone(p)
    BY <2>10 DEF InitDone
  <2>11. CASE RejectAgain(p)
    BY <2>11 DEF RejectAgain
  <2>12. QED
    BY <1>5, <2>1, <2>2, <2>3, <2>4, <2>5, <2>6, <2>7, <2>8, <2>9, <2>10,
       <2>11 DEF Step
<1>6. ASSUME NEW p \in Proc, UndoInit(p)
      PROVE  TypeOK'
  BY <1>6 DEF UndoInit
<1>7. ASSUME NEW p \in Proc, LockFini(p)
      PROVE  TypeOK'
  BY <1>7 DEF LockFini
<1>8. ASSUME NEW p \in Proc, FiniUninit(p)
      PROVE  TypeOK'
  BY <1>8 DEF FiniUninit
<1>9. CASE UNCHANGED vars
  BY <1>9 DEF vars
<1>10. QED
  BY <1>1, <1>2, <1>3, <1>4, <1>5, <1>6, <1>7, <1>8, <1>9 DEF Next

\* lock_init() always leaves its shared data in the declared domains,
\* whatever faults are admitted.
THEOREM TypeCorrect == Spec => []TypeOK
<1>1. Init => TypeOK
  BY ProcAssumption, FieldAssumption
     DEF Init, TypeOK, NoFile, Record, Places, InInit, Refused
<1>2. QED
  BY <1>1, TypeStep, PTL DEF Spec

-----------------------------------------------------------------------------
(***************************************************************************)
(* Mutual exclusion of disciplined processes.                              *)
(***************************************************************************)
\* At most one process is inside lock_init().
InitSerial ==
  \A p, q \in Proc : pc[p] \in InInit /\ pc[q] \in InInit => p = q

\* A running process has a start time, so it can be recognised as alive.
StartTimeSet == \A p \in Proc : pc[p] # "dead" => field[p] # 0

\* The lock file is the process's: it has created it or is initialised.
Holds(p) == pc[p] \in Created \/ m_init_done[p]

\* A process that holds the lock file has no rival: none that holds it too and
\* none, not even itself, that has judged the file stale.
NoRival ==
  \A p, q \in Proc :
    Holds(p) =>
      /\ Holds(q) => p = q
      /\ pc[q] \notin {"unlink", "recreate"}

\* A process is initialised when lock_init() has returned 0 and until it dies;
\* its second lock_init() never comes as far as to create a file again.
HoldsOnce ==
  \A p \in Proc :
    /\ pc[p] = "owner" => m_init_done[p]
    /\ m_init_done[p] =>
         pc[p] \notin {"dead", "run", "fopen", "fclose", "mutex", "reject"}
    /\ pc[p] # "reject"

\* What is on the file, or about to be flushed to it, is the writer's name.
ClaimOnFile ==
  \A p \in Proc :
    /\ pc[p] = "mutex" \/ m_init_done[p] => lockfile = Names(p, field[p])
    /\ pc[p] = "fclose" => seen[p] = Names(p, field[p]) /\ stream[p] = "linked"

\* A lock_init() about to judge the file has read the name of the owner.
SeenOwner ==
  \A p, q \in Proc :
    pc[p] = "check" /\ m_init_done[q] => seen[p] = Names(q, field[q])

IInv ==
  /\ TypeOK /\ InitSerial /\ StartTimeSet /\ NoRival /\ HoldsOnce
  /\ ClaimOnFile /\ SeenOwner

LEMMA InitIInv == Init => IInv
  BY ProcAssumption, FieldAssumption
     DEF Init, IInv, TypeOK, InitSerial, StartTimeSet, NoRival, Holds, HoldsOnce,
         ClaimOnFile, SeenOwner, NoFile, Record, Places, InInit, Refused, Created

\* Every action preserves the inductive invariant.
LEMMA NextIInv == Disciplined /\ IInv /\ [Next]_vars => IInv'
<1> SUFFICES ASSUME Disciplined, IInv, [Next]_vars
             PROVE  IInv'
  OBVIOUS
<1>1. TypeOK'
  BY TypeStep DEF IInv
<1>2. "overlap" \notin faults /\ "unstable_field" \notin faults
      /\ "fini_uninit" \notin faults /\ "write_error" \notin faults
  BY DEF Disciplined
<1> USE <1>1, <1>2 DEF IInv, TypeOK, InitSerial, StartTimeSet, NoRival, Holds,
        HoldsOnce, ClaimOnFile, SeenOwner, InInit, Created, Refused, Places, Goto, Names
<1>3. ASSUME NEW p \in Proc, Start(p)
      PROVE  IInv'
  BY <1>3 DEF Start
<1>4. ASSUME NEW p \in Proc, Die(p)
      PROVE  IInv'
  BY <1>4 DEF Die
<1>5. ASSUME NEW p \in Proc, CallInit(p)
      PROVE  IInv'
  BY <1>5 DEF CallInit
<1>6. ASSUME NEW p \in Proc, ProbeOpen(p)
      PROVE  IInv'
  BY <1>6 DEF ProbeOpen
<1>7. ASSUME NEW p \in Proc, ProbeUnlink(p)
      PROVE  IInv'
  BY <1>7 DEF ProbeUnlink
<1>8. ASSUME NEW p \in Proc, CreateLock(p)
      PROVE  IInv'
  BY <1>8 DEF CreateLock, OpenExclusive, Exists
<1>9. ASSUME NEW p \in Proc, read_lockfile(p)
      PROVE  IInv'
  BY <1>9 DEF read_lockfile
<1>10. ASSUME NEW p \in Proc, CheckStale(p)
      PROVE  IInv'
  <2>1. ASSUME NEW q \in Proc, Holds(q)
        PROVE  ~Stale(seen[p])
    <3>1. m_init_done[q] /\ pc[q] # "dead" /\ q \in Proc
      BY <1>10, <2>1 DEF CheckStale
    <3>2. seen[p].pid = q /\ seen[p].stime = field[q]
      BY <1>10, <3>1 DEF CheckStale
    <3>3. field[q] # 0 /\ q # NoProc
      BY <3>1, ProcAssumption
    <3>4. QED
      BY <3>1, <3>2, <3>3 DEF Stale, is_pid_alive, get_process_start_time
  <2>2. QED
    BY <1>10, <2>1 DEF CheckStale
<1>11. ASSUME NEW p \in Proc, UnlinkStale(p)
      PROVE  IInv'
  BY <1>11 DEF UnlinkStale, Exists, Unlink
<1>12. ASSUME NEW p \in Proc, RecreateLock(p)
      PROVE  IInv'
  BY <1>12 DEF RecreateLock, OpenExclusive, Exists
<1>13. ASSUME NEW p \in Proc, WriteOpen(p)
      PROVE  IInv'
  BY <1>13 DEF WriteOpen
<1>14. ASSUME NEW p \in Proc, WriteClose(p)
      PROVE  IInv'
  BY <1>14 DEF WriteClose
<1>15. ASSUME NEW p \in Proc, InitDone(p)
      PROVE  IInv'
  BY <1>15 DEF InitDone
<1>16. ASSUME NEW p \in Proc, UndoInit(p)
      PROVE  IInv'
  BY <1>16 DEF UndoInit, Unlink
<1>17. ASSUME NEW p \in Proc, LockFini(p)
      PROVE  IInv'
  BY <1>17 DEF LockFini, Unlink
<1>18. ASSUME NEW p \in Proc, FieldChanges(p) \/ FiniUninit(p) \/ RejectAgain(p)
      PROVE  IInv'
  BY <1>18 DEF FieldChanges, FiniUninit, RejectAgain
<1>19. CASE UNCHANGED vars
  BY <1>19 DEF vars
<1>20. QED
  BY <1>3, <1>4, <1>5, <1>6, <1>7, <1>8, <1>9, <1>10, <1>11, <1>12, <1>13, <1>14, <1>15, <1>16, <1>17, <1>18, <1>19 DEF Next, Step

\* The inductive invariant holds wherever the processes are disciplined.
LEMMA DisciplinedIInv == Spec => [](Disciplined => IInv)
<1>1. Init => (Disciplined => IInv)
  BY InitIInv
<1>2. (Disciplined => IInv) /\ [Next]_vars => (Disciplined => IInv)'
  <2>1. [Next]_vars => Disciplined' = Disciplined
    BY DEF Next, vars, Disciplined
  <2>2. QED
    BY <2>1, NextIInv
<1>3. QED
  BY <1>1, <1>2, PTL DEF Spec

\* With lock_init() calls that do not overlap, a stable start time, checked
\* writes and disciplined callers, at most one process owns the API lock, even
\* when it calls pqos_init() again.
THEOREM SerialMutualExclusion == Spec => []MutualExclusion
<1>1. (Disciplined => IInv) => MutualExclusion
  BY DEF IInv, NoRival, Holds, MutualExclusion
<1>2. QED
  BY <1>1, DisciplinedIInv, PTL

\* Under the same conditions the lock file always names its owner, so every
\* lock_init() that finds the owner alive, the owner's own included, is refused.
THEOREM SerialOwnerOnFile == Spec => []OwnerOnFile
<1>1. (Disciplined => IInv) => OwnerOnFile
  BY DEF IInv, ClaimOnFile, OwnerOnFile
<1>2. QED
  BY <1>1, DisciplinedIInv, PTL


-----------------------------------------------------------------------------
(***************************************************************************)
(* The files of lock_init(), in every environment.                         *)
(***************************************************************************)
\* An initialised process is running and has called pqos_init() once, unless it
\* may call it again: then only it is past that call.
CalledOnce ==
  \A p \in Proc :
    /\ m_init_done[p] => pc[p] \notin {"dead", "run"}
    /\ pc[p] \in {"owner", "reject"} => m_init_done[p]
    /\ "again" \notin faults /\ m_init_done[p] => pc[p] = "owner"

FilesInv == FilesOwned /\ CalledOnce

\* FilesInv is inductive beside the types: a descriptor opens only in the step
\* that creates the file, and O_EXCL admits one prober at a time.
LEMMA FilesStep == TypeOK /\ FilesInv /\ [Next]_vars => FilesInv'
<1> SUFFICES ASSUME TypeOK, FilesInv, [Next]_vars
             PROVE  FilesInv'
  OBVIOUS
<1> USE DEF TypeOK, FilesInv, FilesOwned, CalledOnce, DescriptorOwned,
            ProbeExclusive, InInit, Created, Refused, Places, Goto
<1>0. UNCHANGED faults
  BY DEF Next, vars
<1> USE <1>0
<1>1. ASSUME NEW p \in Proc, Start(p)
      PROVE  FilesInv'
  BY <1>1 DEF Start
<1>2. ASSUME NEW p \in Proc, Die(p)
      PROVE  FilesInv'
  BY <1>2 DEF Die
<1>3. ASSUME NEW p \in Proc, FieldChanges(p)
      PROVE  FilesInv'
  BY <1>3 DEF FieldChanges
<1>4. ASSUME NEW p \in Proc, CallInit(p)
      PROVE  FilesInv'
  BY <1>4 DEF CallInit
<1>5. ASSUME NEW p \in Proc, ProbeOpen(p)
      PROVE  FilesInv'
  BY <1>5 DEF ProbeOpen
<1>6. ASSUME NEW p \in Proc, ProbeUnlink(p)
      PROVE  FilesInv'
  BY <1>6 DEF ProbeUnlink
<1>7. ASSUME NEW p \in Proc, CreateLock(p)
      PROVE  FilesInv'
  BY <1>7 DEF CreateLock, OpenExclusive, Exists
<1>8. ASSUME NEW p \in Proc, read_lockfile(p)
      PROVE  FilesInv'
  BY <1>8 DEF read_lockfile
<1>9. ASSUME NEW p \in Proc, CheckStale(p)
      PROVE  FilesInv'
  BY <1>9 DEF CheckStale
<1>10. ASSUME NEW p \in Proc, UnlinkStale(p)
      PROVE  FilesInv'
  BY <1>10 DEF UnlinkStale
<1>11. ASSUME NEW p \in Proc, RecreateLock(p)
      PROVE  FilesInv'
  BY <1>11 DEF RecreateLock, OpenExclusive, Exists
<1>12. ASSUME NEW p \in Proc, WriteOpen(p)
      PROVE  FilesInv'
  BY <1>12 DEF WriteOpen
<1>13. ASSUME NEW p \in Proc, WriteClose(p)
      PROVE  FilesInv'
  BY <1>13 DEF WriteClose
<1>14. ASSUME NEW p \in Proc, InitDone(p)
      PROVE  FilesInv'
  BY <1>14 DEF InitDone
<1>15. ASSUME NEW p \in Proc, UndoInit(p)
      PROVE  FilesInv'
  BY <1>15 DEF UndoInit
<1>16. ASSUME NEW p \in Proc, LockFini(p)
      PROVE  FilesInv'
  BY <1>16 DEF LockFini
<1>17. ASSUME NEW p \in Proc, FiniUninit(p)
      PROVE  FilesInv'
  BY <1>17 DEF FiniUninit
<1>18. ASSUME NEW p \in Proc, RejectAgain(p)
      PROVE  FilesInv'
  BY <1>18 DEF RejectAgain
<1>19. CASE UNCHANGED vars
  BY <1>19 DEF vars
<1>20. QED
  BY <1>1, <1>2, <1>3, <1>4, <1>5, <1>6, <1>7, <1>8, <1>9, <1>10, <1>11,
     <1>12, <1>13, <1>14, <1>15, <1>16, <1>17, <1>18, <1>19
     DEF Next, Step

\* Whatever the processes do, crash or find on disk: the descriptor of the lock
\* file is open while lock_init() has a file of its own and otherwise only in an
\* initialised process; it is open exactly then and never lost unless an
\* initialised process calls pqos_init() again; and no process deletes the
\* temporary file of another's directory probe.
THEOREM FilesAreOwned == Spec => []FilesOwned
<1>1. Init => FilesInv
  BY DEF Init, FilesInv, FilesOwned, CalledOnce, DescriptorOwned,
         ProbeExclusive, Created
<1>2. FilesInv => FilesOwned
  BY DEF FilesInv
<1>3. QED
  BY <1>1, <1>2, FilesStep, TypeCorrect, PTL DEF Spec

=============================================================================
