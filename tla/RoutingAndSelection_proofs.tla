--------------------- MODULE RoutingAndSelection_proofs ---------------------
(***************************************************************************)
(* Proofs about the choice of a priority and of an executor.               *)
(*                                                                         *)
(* The iterator, for any number of priorities and any exclusion: every     *)
(* priority has its share of each round, and no lower one runs ahead.      *)
(*                                                                         *)
(* The lookups, for any configuration that has the default key and any     *)
(* call: both return the best key that matches; and the two configurations *)
(* that are shipped agree about every call.                                *)
(***************************************************************************)
EXTENDS MCServiceCallRouting, FiniteSetTheorems, TLAPS

-----------------------------------------------------------------------------
(* Powers of two: the provers know none of their laws, which follow from   *)
(* the cardinality of a set of subsets.                                    *)

\* A set of numbers has a least one.
LEMMA LeastNumber ==
    ASSUME NEW T \in SUBSET Nat, T # {}
    PROVE  \E m \in T : \A k \in T : m <= k
  <1> DEFINE S == {1..m : m \in T}
  <1>1. IsWellFoundedOn(StrictSubsetOrdering(Nat), FiniteSubsetsOf(Nat))
    BY FS_StrictSubsetOrderingWellFounded
  <1>2. \A m \in T : (1..m) \in FiniteSubsetsOf(Nat)
    BY FS_Interval DEF FiniteSubsetsOf
  <1>3. S \subseteq FiniteSubsetsOf(Nat) /\ S # {}
    BY <1>2
  <1>4. PICK x \in S : \A y \in S : <<y, x>> \notin StrictSubsetOrdering(Nat)
    <2> HIDE DEF S
    <2> QED  BY <1>1, <1>3, WFMin
  <1>5. PICK m \in T : x = 1..m
    BY <1>4
  <1>6. ASSUME NEW k \in T, k < m PROVE FALSE
    <2>1. /\ 1..k \in SUBSET Nat /\ 1..m \in SUBSET Nat
          /\ 1..k \subseteq 1..m /\ m \in 1..m /\ m \notin 1..k
      BY <1>6
    <2>2. <<1..k, 1..m>> \in StrictSubsetOrdering(Nat)
      BY <2>1 DEF StrictSubsetOrdering
    <2> QED  BY <1>4, <1>5, <2>2
  <1> QED  BY <1>6

\* The number of subsets doubles with every element.
LEMMA PowersDouble ==
    ASSUME NEW n \in Nat
    PROVE  2^n \in Nat /\ 2^(n + 1) = 2 * 2^n
  <1> DEFINE S == 1..n
             T == 1..(n + 1)
             Large == {X \cup {n + 1} : X \in SUBSET S}
  <1>1. /\ IsFiniteSet(S) /\ Cardinality(S) = n
        /\ IsFiniteSet(T) /\ Cardinality(T) = n + 1
    BY FS_Interval
  <1>2. /\ IsFiniteSet(SUBSET S) /\ Cardinality(SUBSET S) = 2^n
        /\ IsFiniteSet(SUBSET T) /\ Cardinality(SUBSET T) = 2^(n + 1)
    BY <1>1, FS_SUBSET
  <1>3. Cardinality(SUBSET S) \in Nat
    BY <1>2, FS_CardinalityType
  <1>4. T = S \cup {n + 1} /\ n + 1 \notin S
    OBVIOUS
  <1> HIDE DEF S, T
  <1>5. SUBSET T = (SUBSET S) \cup Large
    <2>1. ASSUME NEW X \in SUBSET T
          PROVE  X \in (SUBSET S) \cup Large
      <3>1. CASE n + 1 \notin X
        BY <3>1, <1>4
      <3>2. CASE n + 1 \in X
        <4>1. X \ {n + 1} \in SUBSET S /\ X = (X \ {n + 1}) \cup {n + 1}
          BY <3>2, <1>4
        <4> QED  BY <4>1
      <3> QED  BY <3>1, <3>2
    <2>2. ASSUME NEW X \in SUBSET S
          PROVE  X \in SUBSET T /\ X \cup {n + 1} \in SUBSET T
      BY <1>4
    <2> QED  BY <2>1, <2>2
  <1>6. (SUBSET S) \cap Large = {}
    BY <1>4
  <1>7. IsFiniteSet(Large) /\ Cardinality(Large) = Cardinality(SUBSET S)
    <2> DEFINE f == [X \in SUBSET S |-> X \cup {n + 1}]
    <2>1. f \in [SUBSET S -> Large] /\ \A Y \in Large : \E X \in SUBSET S : f[X] = Y
      OBVIOUS
    <2>2. ASSUME NEW X \in SUBSET S, NEW Y \in SUBSET S, f[X] = f[Y]
          PROVE  X = Y
      <3>1. X \cup {n + 1} = Y \cup {n + 1} /\ n + 1 \notin X /\ n + 1 \notin Y
        BY <2>2, <1>4
      <3> QED  BY <3>1
    <2>3. f \in Bijection(SUBSET S, Large)
      <3> HIDE DEF f, Large
      <3> QED  BY <2>1, <2>2 DEF Bijection, Injection, IsInjective, Surjection
    <2>4. ExistsBijection(SUBSET S, Large)
      <3> HIDE DEF f, Large
      <3> QED  BY <2>3 DEF ExistsBijection
    <2> HIDE DEF Large
    <2> QED  BY <2>4, <1>2, FS_Bijection
  <1> HIDE DEF Large
  <1>8. Cardinality(SUBSET T) = Cardinality(SUBSET S) + Cardinality(Large)
    <2>1. Cardinality((SUBSET S) \cap Large) = 0
      BY <1>6, FS_EmptySet
    <2>2. Cardinality((SUBSET S) \cup Large)
            = Cardinality(SUBSET S) + Cardinality(Large) - Cardinality((SUBSET S) \cap Large)
      BY <1>2, <1>7, FS_Union
    <2>3. SUBSET T = (SUBSET S) \cup Large
      BY <1>5
    <2>4. Cardinality(SUBSET T) = Cardinality((SUBSET S) \cup Large)
      BY <2>3, Zenon
    <2> HIDE DEF S, T
    <2> QED  BY <2>1, <2>2, <2>4, <1>7, <1>3
  <1> QED  BY <1>2, <1>3, <1>7, <1>8

\* No power is zero: the least exponent of one would have a predecessor.
LEMMA PowersArePositive ==
    ASSUME NEW n \in Nat
    PROVE  2^n \in Nat \ {0}
  <1> DEFINE T == {k \in Nat : 2^k = 0}
  <1>1. SUFFICES ASSUME T # {} PROVE FALSE
    BY PowersDouble
  <1>2. PICK m \in T : \A k \in T : m <= k
    BY <1>1, LeastNumber
  <1>3. CASE m = 0
    BY <1>2, <1>3
  <1>4. CASE m # 0
    <2>1. m - 1 \in Nat /\ 2^m = 2 * 2^(m - 1) /\ 2^(m - 1) \in Nat
      <3>1. m - 1 \in Nat /\ (m - 1) + 1 = m
        BY <1>2, <1>4
      <3>2. 2^((m - 1) + 1) = 2 * 2^(m - 1) /\ 2^(m - 1) \in Nat
        BY <3>1, PowersDouble
      <3> QED  BY <3>1, <3>2
    <2>2. m - 1 \in T
      BY <1>2, <2>1
    <2> QED  BY <1>2, <2>2
  <1> QED  BY <1>3, <1>4

\* A power of a sum is a product of powers.
LEMMA PowersMultiply ==
    ASSUME NEW a \in Nat, NEW b \in Nat
    PROVE  2^(a + b) = 2^a * 2^b
  <1> DEFINE T == {k \in Nat : 2^(a + k) # 2^a * 2^k}
  <1>1. SUFFICES ASSUME T # {} PROVE FALSE
    OBVIOUS
  <1>2. PICK m \in T : \A k \in T : m <= k
    BY <1>1, LeastNumber
  <1>3. CASE m = 0
    <2>1. 2^a \in Nat /\ 2^0 = 1 /\ a + 0 = a
      BY PowersDouble
    <2> QED  BY <1>2, <1>3, <2>1
  <1>4. CASE m # 0
    <2> DEFINE k == m - 1
    <2>1. k \in Nat /\ m = k + 1 /\ a + m = (a + k) + 1 /\ a + k \in Nat
      BY <1>2, <1>4
    <2>2. k \notin T
      BY <1>2
    <2>3. 2^(a + k) = 2^a * 2^k
      BY <2>1, <2>2
    <2> HIDE DEF k
    <2>4. 2^(a + m) = 2 * 2^(a + k) /\ 2^m = 2 * 2^k
      BY <2>1, PowersDouble
    <2>5. 2^a \in Nat /\ 2^k \in Nat
      BY <2>1, PowersDouble
    <2>6. \A x, y \in Nat : 2 * (x * y) = x * (2 * y)
      OBVIOUS
    <2>7. 2^(a + m) = 2^a * 2^m
      BY <2>3, <2>4, <2>5, <2>6
    <2> QED  BY <1>2, <2>7
  <1> QED  BY <1>3, <1>4

-----------------------------------------------------------------------------
(* The cycle: where copies are placed, and in which order they come        *)

\* A name for powers, which keeps their exponents out of the provers' arithmetic
P(n) == 2^n

\* All that is needed of powers
LEMMA PLaws ==
    /\ \A n \in Nat : P(n) \in Nat \ {0}
    /\ \A a, b \in Nat : P(a + b) = P(a) * P(b)
    /\ P(0) = 1
  BY PowersArePositive, PowersMultiply DEF P

\* Larger exponents have larger powers.
LEMMA PowersGrow ==
    ASSUME NEW a \in Nat, NEW b \in Nat, a < b
    PROVE  P(a) < P(b)
  <1>1. /\ b - a - 1 \in Nat /\ b - a \in Nat /\ b - a = (b - a - 1) + 1
        /\ b = a + (b - a)
    OBVIOUS
  <1>2. P(b) = P(a) * P(b - a)
    BY <1>1, PLaws
  <1>3. P(b - a) = P(b - a - 1) * P(1) /\ P(1) = 2
    <2>1. P(1) = 2
      BY DEF P
    <2>2. P((b - a - 1) + 1) = P(b - a - 1) * P(1)
      BY <1>1, PLaws
    <2> QED  BY <1>1, <2>1, <2>2
  <1>4. P(a) \in Nat \ {0} /\ P(b - a - 1) \in Nat \ {0}
    BY <1>1, PLaws
  <1>5. \A x, y \in Nat \ {0} : x < x * (y * 2)
    OBVIOUS
  <1> QED  BY <1>2, <1>3, <1>4, <1>5

\* What a copy is, and its place, in terms of powers
LEMMA CopyForm ==
    /\ \A c \in Copies(N) : /\ c[1] \in 1..N /\ c[2] \in Nat \ {0}
                            /\ c = <<c[1], c[2]>>
                            /\ c[2] < P(N - c[1] + 1)
                            /\ Place(c) = c[2] * P(c[1] - 1)
                            /\ Place(c) \in Nat
                            /\ Place(c) < P(N)
    /\ \A n \in 1..N, k \in Nat \ {0} : k < P(N - n + 1) => <<n, k>> \in Copies(N)
  <1>1. \A n \in 1..N : /\ P(N - n + 1) \in Nat \ {0} /\ P(n - 1) \in Nat \ {0}
                        /\ P(N - n + 1) * P(n - 1) = P(N)
                        /\ P(N - n + 1) <= P(N)
    <2> SUFFICES ASSUME NEW n \in 1..N
                 PROVE  /\ P(N - n + 1) \in Nat \ {0} /\ P(n - 1) \in Nat \ {0}
                        /\ P(N - n + 1) * P(n - 1) = P(N)
                        /\ P(N - n + 1) <= P(N)
      OBVIOUS
    <2>1. N - n + 1 \in Nat /\ n - 1 \in Nat /\ (N - n + 1) + (n - 1) = N
      BY SelectionAssumption
    <2>2. P(N - n + 1) \in Nat \ {0} /\ P(n - 1) \in Nat \ {0}
          /\ P(N - n + 1) * P(n - 1) = P(N)
      BY <2>1, PLaws
    <2>3. \A x, y \in Nat \ {0} : x <= x * y
      OBVIOUS
    <2> QED  BY <2>2, <2>3
  <1>2. \A n \in 1..N : Weight(N, n) = P(N - n + 1) - 1
    BY DEF Weight, P
  <1>3. ASSUME NEW c \in Copies(N)
        PROVE  /\ c[1] \in 1..N /\ c[2] \in Nat \ {0} /\ c = <<c[1], c[2]>>
               /\ c[2] < P(N - c[1] + 1)
               /\ Place(c) = c[2] * P(c[1] - 1)
               /\ Place(c) \in Nat
               /\ Place(c) < P(N)
    <2>1. c \in (1..N) \X (1..Weight(N, 1)) /\ c[2] <= Weight(N, c[1])
      BY DEF Copies
    <2>2. c[1] \in 1..N /\ c[2] \in Nat \ {0} /\ c = <<c[1], c[2]>>
      BY <2>1
    <2>3. c[2] < P(N - c[1] + 1)
      BY <1>1, <1>2, <2>1, <2>2
    <2>4. Place(c) = c[2] * P(c[1] - 1)
      BY DEF Place, P
    <2>5. \A x, y, z \in Nat \ {0} : x < y => x * z \in Nat /\ x * z < y * z
      OBVIOUS
    <2>6. Place(c) \in Nat /\ Place(c) < P(N)
      BY <1>1, <2>2, <2>3, <2>4, <2>5
    <2> QED  BY <2>2, <2>3, <2>4, <2>6
  <1>4. ASSUME NEW n \in 1..N, NEW k \in Nat \ {0}, k < P(N - n + 1)
        PROVE  <<n, k>> \in Copies(N)
    <2>1. 1 \in 1..N /\ N - 1 + 1 = N
      BY SelectionAssumption
    <2>2. k <= Weight(N, n) /\ k <= Weight(N, 1)
      BY <1>1, <1>2, <1>4, <2>1
    <2>3. Weight(N, 1) \in Nat
      BY <1>1, <1>2, <2>1
    <2> QED  BY <2>2, <2>3 DEF Copies
  <1> QED  BY <1>3, <1>4

\* Copies are ordered strictly, each two of them.
LEMMA BeforeIsAnOrder ==
    ASSUME NEW a \in Copies(N), NEW b \in Copies(N), NEW c \in Copies(N)
    PROVE  /\ ~Before(a, a)
           /\ Before(a, b) /\ Before(b, c) => Before(a, c)
           /\ a # b => Before(a, b) \/ Before(b, a)
  <1>1. /\ Place(a) \in Nat /\ Place(b) \in Nat /\ Place(c) \in Nat
        /\ a[1] \in Nat /\ b[1] \in Nat /\ c[1] \in Nat
    BY CopyForm
  <1>2. ~Before(a, a) /\ (Before(a, b) /\ Before(b, c) => Before(a, c))
    BY <1>1 DEF Before
  <1>3. ASSUME a # b
        PROVE  Before(a, b) \/ Before(b, a)
    <2>1. CASE Place(a) # Place(b) \/ a[1] # b[1]
      BY <1>1, <2>1 DEF Before
    <2>2. CASE Place(a) = Place(b) /\ a[1] = b[1]
      <3>1. a[2] * P(a[1] - 1) = b[2] * P(a[1] - 1) /\ a[2] \in Nat /\ b[2] \in Nat
        BY <2>2, CopyForm
      <3>2. a[1] - 1 \in Nat
        BY CopyForm
      <3>3. P(a[1] - 1) \in Nat \ {0}
        BY <3>2, PLaws
      <3>4. \A x, y \in Nat, z \in Nat \ {0} : x * z = y * z => x = y
        OBVIOUS
      <3>5. a[2] = b[2]
        BY <3>1, <3>3, <3>4
      <3> QED  BY <1>3, <2>2, <3>5, CopyForm
    <2> QED  BY <2>1, <2>2
  <1> QED  BY <1>2, <1>3

\* The cycle has elements, and finitely many.
LEMMA CopiesAreFinite ==
    /\ IsFiniteSet(Copies(N))
    /\ Cardinality(Copies(N)) \in Nat \ {0}
  <1>1. 1 \in 1..N /\ N - 1 + 1 = N /\ N - 1 \in Nat /\ N = (N - 1) + 1
    BY SelectionAssumption
  <1>2. 1 < P(N) /\ P(N) \in Nat
    <2>1. P(1) = 2 /\ P(N) = P(N - 1) * P(1) /\ P(N - 1) \in Nat \ {0}
      <3>1. P(1) = 2
        BY DEF P
      <3>2. P((N - 1) + 1) = P(N - 1) * P(1)
        BY <1>1, PLaws
      <3>3. P(N - 1) \in Nat \ {0}
        BY <1>1, PLaws
      <3> QED  BY <1>1, <3>1, <3>2, <3>3
    <2> QED  BY <2>1
  <1>3. <<1, 1>> \in Copies(N)
    BY <1>1, <1>2, CopyForm
  <1>4. Weight(N, 1) \in Nat
    BY <1>1, <1>2 DEF Weight, P
  <1>5. IsFiniteSet((1..N) \X (1..Weight(N, 1)))
    <2>1. IsFiniteSet(1..N) /\ IsFiniteSet(1..Weight(N, 1))
      BY <1>4, SelectionAssumption, FS_Interval
    <2> QED  BY <2>1, FS_Product
  <1>6. Copies(N) \in SUBSET ((1..N) \X (1..Weight(N, 1)))
    BY DEF Copies
  <1>7. IsFiniteSet(Copies(N))
    BY <1>5, <1>6, FS_Subset
  <1>8. Cardinality(Copies(N)) \in Nat /\ Cardinality(Copies(N)) # 0
    BY <1>3, <1>7, FS_CardinalityType, FS_EmptySet
  <1> QED  BY <1>7, <1>8

\* The rank of a copy is a position of the cycle, and ranks follow the order.
LEMMA RankFollows ==
    ASSUME NEW a \in Copies(N), NEW b \in Copies(N)
    PROVE  /\ Rank(N, a) \in 1..Cardinality(Copies(N))
           /\ Before(a, b) <=> Rank(N, a) < Rank(N, b)
           /\ a # b => Rank(N, a) # Rank(N, b)
  <1> DEFINE C == Copies(N)
             Below(c) == {d \in C : Before(d, c)}
  <1>1. IsFiniteSet(C) /\ Cardinality(C) \in Nat
    BY CopiesAreFinite
  <1>2. ASSUME NEW c \in C
        PROVE  /\ IsFiniteSet(Below(c)) /\ Cardinality(Below(c)) \in Nat
               /\ Rank(N, c) = 1 + Cardinality(Below(c))
               /\ Rank(N, c) \in 1..Cardinality(C)
    <2>1. Below(c) \in SUBSET C /\ c \notin Below(c)
      BY <1>2, BeforeIsAnOrder
    <2>2. Below(c) # C
      BY <1>2, <2>1
    <2> HIDE DEF C
    <2>3. IsFiniteSet(Below(c)) /\ Cardinality(Below(c)) <= Cardinality(C)
          /\ (Cardinality(C) = Cardinality(Below(c)) => C = Below(c))
      <3> HIDE DEF Below
      <3> QED  BY <1>1, <2>1, FS_Subset
    <2>4. Cardinality(Below(c)) \in Nat
      BY <2>3, FS_CardinalityType
    <2>5. Rank(N, c) = 1 + Cardinality(Below(c))
      BY DEF Rank, C
    <2> HIDE DEF Below
    <2> QED  BY <1>1, <2>2, <2>3, <2>4, <2>5
  <1>3. ASSUME NEW c \in C, NEW d \in C, Before(c, d)
        PROVE  Rank(N, c) < Rank(N, d)
    <2>1. Below(c) \in SUBSET Below(d) /\ c \in Below(d) /\ c \notin Below(c)
      BY <1>3, BeforeIsAnOrder
    <2> HIDE DEF Below
    <2>2. /\ Cardinality(Below(c)) <= Cardinality(Below(d))
          /\ Cardinality(Below(d)) = Cardinality(Below(c)) => Below(d) = Below(c)
      BY <1>2, <2>1, FS_Subset
    <2> QED  BY <1>2, <2>1, <2>2
  <1>4. a # b => Before(a, b) \/ Before(b, a)
    BY BeforeIsAnOrder
  <1>5. ~Before(a, a)
    BY BeforeIsAnOrder
  <1>6. /\ Rank(N, a) \in 1..Cardinality(C) /\ Rank(N, b) \in 1..Cardinality(C)
        /\ Before(a, b) => Rank(N, a) < Rank(N, b)
        /\ Before(b, a) => Rank(N, b) < Rank(N, a)
    BY <1>2, <1>3
  <1> HIDE DEF C
  <1>7. a = b => ~Before(a, b)
    BY <1>5
  <1>8. \A i, j \in 1..Cardinality(C) : ~(i < j /\ j < i) /\ (i = j => ~(i < j))
    OBVIOUS
  <1> QED  BY <1>4, <1>6, <1>7, <1>8 DEF C

\* Every position of the cycle is the rank of a copy.
LEMMA RankIsOnto ==
    ASSUME NEW i \in 1..Cardinality(Copies(N))
    PROVE  \E c \in Copies(N) : Rank(N, c) = i
  <1> DEFINE C == Copies(N)
             n == Cardinality(C)
             f == [c \in C |-> Rank(N, c)]
  <1>1. IsFiniteSet(C) /\ n \in Nat
    BY CopiesAreFinite
  <1>2. \A c \in C : Rank(N, c) \in 1..n
    BY RankFollows
  <1>3. \A c, d \in C : Rank(N, c) = Rank(N, d) => c = d
    BY RankFollows
  <1> HIDE DEF C, n
  <1>4. f \in Injection(C, 1..n)
    BY <1>2, <1>3 DEF Injection, IsInjective
  <1>5. IsFiniteSet(1..n) /\ Cardinality(1..n) = n
    BY <1>1, FS_Interval
  <1>6. f \in Surjection(C, 1..n)
    <2> HIDE DEF f
    <2> QED  BY <1>4, <1>5, FS_Injection DEF n
  <1> QED  BY <1>6 DEF Surjection, C, n

\* The cycle has the priority of a copy where its rank says.
LEMMA CycleOfCopies ==
    /\ Len(Cycle) = Cardinality(Copies(N))
    /\ Len(Cycle) \in Nat \ {0}
    /\ Cycle \in Seq(1..N)
    /\ \A c \in Copies(N) : Rank(N, c) \in 1..Len(Cycle) /\ Cycle[Rank(N, c)] = c[1]
    /\ \A i \in 1..Len(Cycle) : \E c \in Copies(N) : Rank(N, c) = i /\ Cycle[i] = c[1]
  <1> DEFINE n == Cardinality(Copies(N))
             at(i) == CHOOSE copy \in Copies(N) : Rank(N, copy) = i
  <1>1. n \in Nat \ {0}
    BY CopiesAreFinite
  <1>2. \A i \in 1..n : at(i) \in Copies(N) /\ Rank(N, at(i)) = i
    BY RankIsOnto
  <1>3. Cycle = [i \in 1..n |-> at(i)[1]]
    BY DEF Cycle, BuildWeightedList
  <1>4. \A c \in Copies(N) : Rank(N, c) \in 1..n
    BY RankFollows
  <1>5. \A c \in Copies(N) : at(Rank(N, c)) = c
    BY <1>2, <1>4, RankFollows
  <1>6. \A c \in Copies(N) : c[1] \in 1..N
    BY CopyForm
  <1> HIDE DEF n, at
  <1>7. Len(Cycle) = n
    BY <1>1, <1>3
  <1>8. Cycle \in Seq(1..N)
    BY <1>1, <1>2, <1>3, <1>6
  <1>9. \A c \in Copies(N) : Rank(N, c) \in 1..Len(Cycle) /\ Cycle[Rank(N, c)] = c[1]
    BY <1>3, <1>4, <1>5, <1>7
  <1>10. \A i \in 1..Len(Cycle) : \E c \in Copies(N) : Rank(N, c) = i /\ Cycle[i] = c[1]
    BY <1>2, <1>3, <1>7
  <1> QED  BY <1>1, <1>7, <1>8, <1>9, <1>10 DEF n

-----------------------------------------------------------------------------
(* Remainders                                                              *)

\* The remainder is what is left of a multiple.
LEMMA Division ==
    ASSUME NEW n \in Nat, NEW L \in Nat \ {0}
    PROVE  /\ n % L \in 0..(L - 1)
           /\ n \div L \in Nat
           /\ n = L * (n \div L) + (n % L)
  OBVIOUS

\* ... and there is only one.
LEMMA RemainderIsUnique ==
    ASSUME NEW L \in Nat \ {0}, NEW q \in Nat, NEW r \in 0..(L - 1), NEW n \in Nat,
           n = L * q + r
    PROVE  n % L = r
  <1> DEFINE d == n \div L
             m == n % L
  <1>1. m \in 0..(L - 1) /\ d \in Nat /\ n = L * d + m
    BY Division
  <1> HIDE DEF d, m
  <1>2. q = d => m = r
    BY <1>1
  <1>3. ~(q < d)
    <2> SUFFICES ASSUME q < d PROVE FALSE  OBVIOUS
    <2>1. d - q \in Nat \ {0} /\ L * d = L * q + L * (d - q)
      BY <1>1
    <2>2. L * (d - q) >= L
      BY <2>1
    <2> QED  BY <1>1, <2>1, <2>2
  <1>4. ~(d < q)
    <2> SUFFICES ASSUME d < q PROVE FALSE  OBVIOUS
    <2>1. q - d \in Nat \ {0} /\ L * q = L * d + L * (q - d)
      BY <1>1
    <2>2. L * (q - d) >= L
      BY <2>1
    <2> QED  BY <1>1, <2>1, <2>2
  <1> QED  BY <1>1, <1>2, <1>3, <1>4 DEF m

\* A step that stays within a multiple adds to the remainder.
LEMMA RemainderWithin ==
    ASSUME NEW n \in Nat, NEW L \in Nat \ {0}, NEW d \in Nat, (n % L) + d < L
    PROVE  (n + d) % L = (n % L) + d
  <1> DEFINE q == n \div L
             r == n % L
  <1>1. r \in 0..(L - 1) /\ q \in Nat /\ n = L * q + r
    BY Division
  <1>2. r + d < L
    OBVIOUS
  <1> HIDE DEF q, r
  <1>3. r + d \in 0..(L - 1) /\ n + d \in Nat /\ n + d = L * q + (r + d)
    BY <1>1, <1>2
  <1>4. (n + d) % L = r + d
    BY <1>1, <1>3, RemainderIsUnique
  <1> QED  BY <1>4 DEF r

\* A sum may be reduced before or after.
LEMMA RemainderMoves ==
    ASSUME NEW n \in Nat, NEW L \in Nat \ {0}, NEW d \in Nat
    PROVE  ((n % L) + d) % L = (n + d) % L
  <1> DEFINE q == n \div L
             r == n % L
             e == (r + d) \div L
             s == (r + d) % L
  <1>1. r \in 0..(L - 1) /\ q \in Nat /\ n = L * q + r
    BY Division
  <1>2. s \in 0..(L - 1) /\ e \in Nat /\ r + d = L * e + s
    <2>1. r + d \in Nat
      BY <1>1
    <2> QED  BY <2>1, Division
  <1> HIDE DEF q, r, e, s
  <1>3. n + d = L * (q + e) + s
    <2>1. L * (q + e) = L * q + L * e
      BY <1>1, <1>2
    <2> QED  BY <2>1, <1>1, <1>2
  <1> DEFINE k == q + e
             x == n + d
  <1>4. k \in Nat /\ x \in Nat /\ x = L * k + s
    BY <1>1, <1>2, <1>3
  <1> HIDE DEF k, x
  <1>5. x % L = s
    BY <1>2, <1>4, RemainderIsUnique
  <1> QED  BY <1>5 DEF x, r, s

-----------------------------------------------------------------------------
(* Higher priorities between two turns of a lower one                      *)

\* After a priority, the cycle has every higher one again.
LEMMA HigherAfter ==
    ASSUME NEW i \in 1..Len(Cycle), NEW p \in 1..(Cycle[i] - 1)
    PROVE  \E m \in (i + 1)..Len(Cycle) : Cycle[m] = p
  <1>1. PICK c \in Copies(N) : Rank(N, c) = i /\ Cycle[i] = c[1]
    BY CycleOfCopies
  <1> DEFINE q == c[1]
             k == P(N - p + 1) - 1
             d == <<p, k>>
  <1>2. q \in 1..N /\ p \in 1..N /\ p < q /\ N \in Nat
    <2>1. q \in 1..N /\ p \in 1..(q - 1) /\ N \in Nat
      BY <1>1, CopyForm, SelectionAssumption
    <2> HIDE DEF q
    <2> QED  BY <2>1
  <1>3. /\ N - p + 1 \in Nat /\ N - p \in Nat /\ N - p + 1 = (N - p) + 1
        /\ p - 1 \in Nat /\ q - 1 \in Nat /\ N - q + 1 \in Nat
        /\ (N - p + 1) + (p - 1) = N /\ (N - q + 1) + (q - 1) = N
        /\ p - 1 < q - 1
    <2> HIDE DEF q, k
    <2> QED  BY <1>2
  <1>4. P(1) = 2 /\ P(N - p + 1) = P(N - p) * 2 /\ P(N - p) \in Nat \ {0}
    <2>1. P(1) = 2
      BY DEF P
    <2>2. P((N - p) + 1) = P(N - p) * P(1)
      BY <1>3, PLaws
    <2> QED  BY <1>3, <2>1, <2>2, PLaws
  <1>5. k \in Nat \ {0} /\ k < P(N - p + 1)
    BY <1>4
  <1>6. d \in Copies(N)
    BY <1>2, <1>5, CopyForm
  <1>7. /\ P(p - 1) \in Nat \ {0} /\ P(q - 1) \in Nat \ {0}
        /\ P(N - p + 1) * P(p - 1) = P(N)
        /\ P(N - q + 1) * P(q - 1) = P(N)
        /\ P(p - 1) < P(q - 1) /\ P(N) \in Nat
    BY <1>2, <1>3, PLaws, PowersGrow
  <1>8. Place(d) = P(N) - P(p - 1)
    <2>1. Place(d) = k * P(p - 1)
      BY <1>6, CopyForm
    <2>2. \A x, y \in Nat : (x - 1) * y = x * y - y
      OBVIOUS
    <2> QED  BY <2>1, <2>2, <1>4, <1>7
  <1>9. Place(c) <= P(N) - P(q - 1) /\ Place(c) \in Nat
    <2>1. c[2] \in Nat \ {0} /\ c[2] < P(N - q + 1) /\ Place(c) = c[2] * P(q - 1)
      BY CopyForm
    <2>2. P(N - q + 1) \in Nat
      BY <1>3, PLaws
    <2>3. \A x, y, z \in Nat : x < y => x * z <= y * z - z
      <3> SUFFICES ASSUME NEW x \in Nat, NEW y \in Nat, NEW z \in Nat, x < y
                   PROVE  x * z <= y * z - z
        OBVIOUS
      <3>1. x + 1 <= y /\ (x + 1) * z = x * z + z
        OBVIOUS
      <3>2. (x + 1) * z <= y * z
        BY <3>1
      <3> QED  BY <3>1, <3>2
    <2>4. c[2] * P(q - 1) <= P(N - q + 1) * P(q - 1) - P(q - 1)
      <3>1. c[2] \in Nat /\ P(q - 1) \in Nat
        BY <2>1, <1>7
      <3> HIDE DEF q
      <3> QED  BY <2>1, <2>2, <2>3, <3>1
    <2>5. Place(c) \in Nat
      BY CopyForm
    <2> HIDE DEF q
    <2> QED  BY <2>1, <2>4, <2>5, <1>7
  <1> HIDE DEF q, k
  <1>10. Before(c, d)
    <2>1. Place(c) < Place(d)
      BY <1>7, <1>8, <1>9
    <2> QED  BY <2>1 DEF Before
  <1>11. Rank(N, c) < Rank(N, d) /\ Rank(N, d) \in 1..Len(Cycle) /\ Cycle[Rank(N, d)] = p
    BY <1>6, <1>10, RankFollows, CycleOfCopies
  <1> QED  BY <1>1, <1>11

\* Between two copies of a priority, the cycle has every higher one.
LEMMA HigherBetween ==
    ASSUME NEW i \in 1..Len(Cycle), NEW j \in 1..Len(Cycle), i < j, Cycle[i] = Cycle[j],
           NEW p \in 1..(Cycle[i] - 1)
    PROVE  \E m \in (i + 1)..(j - 1) : Cycle[m] = p
  <1>1. PICK c \in Copies(N) : Rank(N, c) = i /\ Cycle[i] = c[1]
    BY CycleOfCopies
  <1>2. PICK e \in Copies(N) : Rank(N, e) = j /\ Cycle[j] = e[1]
    BY CycleOfCopies
  <1> DEFINE q == c[1]
             k == c[2]
             l == e[2]
             n == (k + 1) * P(q - p)
             d == <<p, n>>
  <1>3. q \in 1..N /\ p \in 1..N /\ p < q /\ N \in Nat /\ e[1] = q
    <2>1. q \in 1..N /\ p \in 1..(q - 1) /\ N \in Nat /\ e[1] = q
      BY <1>1, <1>2, CopyForm, SelectionAssumption
    <2> HIDE DEF q
    <2> QED  BY <2>1
  <1>4. /\ k \in Nat \ {0} /\ l \in Nat \ {0} /\ l < P(N - q + 1)
        /\ Place(c) = k * P(q - 1) /\ Place(e) = l * P(q - 1)
    <2>1. /\ k \in Nat \ {0} /\ Place(c) = k * P(q - 1)
      BY CopyForm
    <2>2. /\ l \in Nat \ {0} /\ l < P(N - e[1] + 1) /\ Place(e) = l * P(e[1] - 1)
      BY CopyForm
    <2> QED  BY <2>1, <2>2, <1>3
  <1>5. Before(c, e)
    BY <1>1, <1>2, RankFollows
  <1> HIDE DEF q, k, l
  <1>6. /\ q - 1 \in Nat /\ p - 1 \in Nat /\ q - p \in Nat /\ N - q + 1 \in Nat
        /\ (q - p) + (p - 1) = q - 1 /\ (N - q + 1) + (q - p) = N - p + 1
    BY <1>3
  <1>7. /\ P(q - 1) \in Nat \ {0} /\ P(q - p) \in Nat \ {0} /\ P(p - 1) \in Nat \ {0}
        /\ P(N - q + 1) \in Nat \ {0}
        /\ P(q - p) * P(p - 1) = P(q - 1)
        /\ P(N - q + 1) * P(q - p) = P(N - p + 1)
    <2>1. P((q - p) + (p - 1)) = P(q - p) * P(p - 1)
      BY <1>6, PLaws
    <2>2. P((N - q + 1) + (q - p)) = P(N - q + 1) * P(q - p)
      BY <1>6, PLaws
    <2>3. /\ P(q - 1) \in Nat \ {0} /\ P(q - p) \in Nat \ {0} /\ P(p - 1) \in Nat \ {0}
          /\ P(N - q + 1) \in Nat \ {0}
      BY <1>6, PLaws
    <2> QED  BY <1>6, <2>1, <2>2, <2>3
  <1>8. k < l
    <2>1. Place(c) < Place(e)
      BY <1>3, <1>5 DEF Before, q
    <2>2. \A x, y \in Nat, z \in Nat \ {0} : x * z < y * z => x < y
      OBVIOUS
    <2> QED  BY <2>1, <2>2, <1>4, <1>7
  <1>9. n \in Nat \ {0} /\ n < P(N - p + 1)
    <2>1. \A x, y \in Nat \ {0} : x * y \in Nat \ {0}
      OBVIOUS
    <2>2. \A x, y, z \in Nat \ {0} : x < y => x * z < y * z
      OBVIOUS
    <2>3. k + 1 \in Nat \ {0} /\ k + 1 < P(N - q + 1)
      <3>1. k \in Nat /\ l \in Nat /\ P(N - q + 1) \in Nat /\ l < P(N - q + 1)
        BY <1>4, <1>7
      <3> QED  BY <3>1, <1>8
    <2> QED  BY <2>1, <2>2, <2>3, <1>7
  <1>10. d \in Copies(N)
    BY <1>3, <1>9, CopyForm
  <1>11. Place(d) = (k + 1) * P(q - 1)
    <2>1. Place(d) = n * P(p - 1)
      <3> HIDE DEF n
      <3> QED  BY <1>10, CopyForm
    <2>2. \A x, y, z \in Nat : (x * y) * z = x * (y * z)
      OBVIOUS
    <2>3. k + 1 \in Nat
      BY <1>4
    <2> QED  BY <2>1, <2>2, <2>3, <1>7
  <1>12. Place(c) < Place(d) /\ Place(d) <= Place(e) /\ Place(d) \in Nat /\ Place(e) \in Nat
    <2>1. \A x, z \in Nat \ {0} : x * z < (x + 1) * z
      OBVIOUS
    <2>2. \A x, y, z \in Nat : x <= y => x * z <= y * z
      OBVIOUS
    <2>3. k + 1 \in Nat /\ k + 1 <= l
      BY <1>4, <1>8
    <2>4. k * P(q - 1) < (k + 1) * P(q - 1)
      BY <2>1, <1>4, <1>7
    <2>5. (k + 1) * P(q - 1) <= l * P(q - 1)
      BY <2>2, <2>3, <1>4, <1>7
    <2>6. Place(d) \in Nat /\ Place(e) \in Nat
      <3> HIDE DEF d
      <3> QED  BY <1>10, CopyForm
    <2> HIDE DEF d
    <2> QED  BY <2>4, <2>5, <2>6, <1>4, <1>11
  <1>13. Before(c, d) /\ Before(d, e)
    <2>1. d[1] = p
      OBVIOUS
    <2> HIDE DEF d
    <2> QED  BY <2>1, <1>3, <1>12 DEF Before
  <1>14. /\ Rank(N, c) < Rank(N, d) /\ Rank(N, d) < Rank(N, e)
         /\ Rank(N, d) \in 1..Len(Cycle) /\ Cycle[Rank(N, d)] = d[1]
    <2> HIDE DEF d
    <2> QED  BY <1>10, <1>13, RankFollows, CycleOfCopies
  <1>15. Cycle[Rank(N, d)] = p
    BY <1>14
  <1> HIDE DEF d
  <1> QED  BY <1>1, <1>2, <1>14, <1>15

\* From any position of the iterator, a priority that comes again comes after each
\* higher one: the same holds over the end of the cycle.
LEMMA HigherBetweenSlots ==
    ASSUME NEW t \in Nat, NEW a \in Nat \ {0}, NEW b \in Nat \ {0}, a < b,
           Slot(Cycle, t, a) = Slot(Cycle, t, b),
           NEW p \in 1..(Slot(Cycle, t, a) - 1)
    PROVE  \E m \in (a + 1)..(b - 1) : Slot(Cycle, t, m) = p
  <1> DEFINE L == Len(Cycle)
             n == t + a - 1
             r == n % L
  <1>1. L \in Nat \ {0}
    BY CycleOfCopies
  <1>2. n \in Nat /\ r \in 0..(L - 1)
    <2>1. n \in Nat
      OBVIOUS
    <2> HIDE DEF n, L
    <2> QED  BY <1>1, <2>1, Division
  <1>3. ASSUME NEW d \in Nat, r + d < L
        PROVE  Slot(Cycle, t, a + d) = Cycle[r + d + 1]
    <2>1. t + (a + d) - 1 = n + d
      OBVIOUS
    <2>2. (n + d) % L = r + d
      <3>1. (n % L) + d < L /\ n \in Nat /\ d \in Nat /\ L \in Nat \ {0}
        BY <1>1, <1>2, <1>3
      <3> HIDE DEF n, L
      <3> QED  BY <3>1, RemainderWithin
    <2> QED  BY <2>1, <2>2 DEF Slot
  <1>4. Slot(Cycle, t, a) = Cycle[r + 1]
    BY DEF Slot
  <1>5. r + 1 \in 1..L
    BY <1>1, <1>2
  <1> HIDE DEF L, n, r
  <1>6. CASE r + (b - a) < L
    <2>1. Slot(Cycle, t, a + (b - a)) = Cycle[r + (b - a) + 1] /\ a + (b - a) = b
      BY <1>3, <1>6
    <2>2. r + (b - a) + 1 \in 1..L /\ r + 1 < r + (b - a) + 1
      BY <1>1, <1>2, <1>6
    <2>3. PICK m \in (r + 2)..(r + (b - a)) : Cycle[m] = p
      <3> DEFINE i == r + 1
                 j == r + (b - a) + 1
      <3>1. i \in 1..L /\ j \in 1..L /\ i < j /\ Cycle[i] = Cycle[j] /\ p \in 1..(Cycle[i] - 1)
        BY <1>4, <1>5, <2>1, <2>2
      <3>2. i + 1 = r + 2 /\ j - 1 = r + (b - a)
        BY <1>2
      <3> HIDE DEF i, j
      <3>3. \E m \in (i + 1)..(j - 1) : Cycle[m] = p
        BY <3>1, HigherBetween DEF L
      <3> QED  BY <3>2, <3>3
    <2> DEFINE d == m - (r + 1)
    <2>4. d \in Nat /\ r + d < L /\ r + d + 1 = m /\ a + d \in (a + 1)..(b - 1)
      BY <1>1, <1>2, <1>6, <2>3
    <2>5. Slot(Cycle, t, a + d) = p
      BY <1>3, <2>3, <2>4
    <2> QED  BY <2>4, <2>5
  <1>7. CASE ~(r + (b - a) < L)
    <2>1. PICK m \in (r + 2)..L : Cycle[m] = p
      <3> DEFINE i == r + 1
      <3>1. i \in 1..L /\ p \in 1..(Cycle[i] - 1) /\ i + 1 = r + 2
        BY <1>2, <1>4, <1>5
      <3> HIDE DEF i
      <3> QED  BY <3>1, HigherAfter DEF L
    <2> DEFINE d == m - (r + 1)
    <2>2. d \in Nat /\ r + d < L /\ r + d + 1 = m /\ a + d \in (a + 1)..(b - 1)
      BY <1>1, <1>2, <1>7, <2>1
    <2>3. Slot(Cycle, t, a + d) = p
      BY <1>3, <2>1, <2>2
    <2> QED  BY <2>2, <2>3
  <1> QED  BY <1>6, <1>7

\* What the iterator reads next, after it has read k elements
LEMMA SlotAfterAdvance ==
    ASSUME NEW t \in Nat, NEW k \in Nat, NEW j \in Nat \ {0}
    PROVE  /\ Advance(Cycle, t, k) \in 0..(Len(Cycle) - 1)
           /\ Slot(Cycle, Advance(Cycle, t, k), j) = Slot(Cycle, t, k + j)
  <1> DEFINE L == Len(Cycle)
             d == j - 1
             n == t + k
  <1>1. L \in Nat \ {0} /\ d \in Nat /\ n \in Nat
    BY CycleOfCopies
  <1>2. /\ ((t + k) % L) + j - 1 = (n % L) + d
        /\ t + (k + j) - 1 = n + d
    <2>1. n % L \in 0..(L - 1)
      <3> HIDE DEF L, n, d
      <3> QED  BY <1>1, Division
    <2> QED  BY <2>1
  <1>3. ((n % L) + d) % L = (n + d) % L /\ n % L \in 0..(L - 1)
    <2> HIDE DEF L, n, d
    <2>1. ((n % L) + d) % L = (n + d) % L
      BY <1>1, RemainderMoves, Zenon
    <2>2. n % L \in 0..(L - 1)
      BY <1>1, Division
    <2> QED  BY <2>1, <2>2
  <1> QED  BY <1>2, <1>3 DEF Slot, Advance

-----------------------------------------------------------------------------
(* The iterator: the inductive invariant                                   *)

\* From position t, the priority p comes before the next turn of q.
Ahead(t, p, q) ==
    \A k \in Nat \ {0} : Slot(Cycle, t, k) = q => \E j \in 1..(k - 1) : Slot(Cycle, t, j) = p

\* What HigherFirst says, of any sequence of choices
HigherIn(s) == \A i, j \in 1..Len(s) :
                 (i < j /\ s[i] = s[j])
                 => \A p \in (1..(s[i] - 1)) \ excluded : \E m \in i..j : s[m] = p

\* After a choice, each higher priority was chosen since or comes before the next
\* turn of the one that was chosen.
Owed(s, t) == \A i \in 1..Len(s) : \A p \in (1..(s[i] - 1)) \ excluded :
                \/ \E m \in (i + 1)..Len(s) : s[m] = p
                \/ Ahead(t, p, s[i])

SelectionInv == /\ turn \in 0..(Len(Cycle) - 1)
                /\ recent \in Seq(1..N)
                /\ HigherIn(recent)
                /\ Owed(recent, turn)

\* What Append and SubSeq return
LEMMA AppendLast ==
    ASSUME NEW S, NEW s \in Seq(S), NEW x \in S
    PROVE  /\ Len(s) \in Nat
           /\ \A i \in 1..Len(s) : s[i] \in S
           /\ Append(s, x) \in Seq(S)
           /\ Len(Append(s, x)) = Len(s) + 1
           /\ Append(s, x)[Len(s) + 1] = x
           /\ \A i \in 1..Len(s) : Append(s, x)[i] = s[i]
  OBVIOUS

LEMMA SubSeqLast ==
    ASSUME NEW S, NEW s \in Seq(S), NEW d \in Nat, NEW n \in Nat, Len(s) = d + n
    PROVE  /\ SubSeq(s, d + 1, Len(s)) \in Seq(S)
           /\ Len(SubSeq(s, d + 1, Len(s))) = n
           /\ \A i \in 1..n : SubSeq(s, d + 1, Len(s))[i] = s[d + i]
  OBVIOUS

\* What LastOf returns
LEMMA LastOfIs ==
    ASSUME NEW S, NEW s \in Seq(S), NEW n \in Nat, n <= Len(s)
    PROVE  /\ Len(s) \in Nat /\ Len(s) - n \in Nat
           /\ LastOf(s, n) \in Seq(S) /\ Len(LastOf(s, n)) = n
           /\ DOMAIN LastOf(s, n) = 1..n
           /\ \A i \in 1..n : /\ LastOf(s, n)[i] = s[Len(s) - n + i]
                              /\ Len(s) - n + i \in 1..Len(s)
  <1> DEFINE d == Len(s) - n
  <1>1. Len(s) \in Nat /\ d \in Nat /\ Len(s) = d + n /\ LastOf(s, n) = SubSeq(s, d + 1, Len(s))
    BY DEF LastOf
  <1> HIDE DEF d
  <1>2. /\ SubSeq(s, d + 1, Len(s)) \in Seq(S)
        /\ Len(SubSeq(s, d + 1, Len(s))) = n
        /\ \A i \in 1..n : SubSeq(s, d + 1, Len(s))[i] = s[d + i]
    BY <1>1, SubSeqLast
  <1>3. \A i \in 1..n : d + i \in 1..Len(s)
    BY <1>1
  <1>4. DOMAIN LastOf(s, n) = 1..n
    BY <1>1, <1>2
  <1> QED  BY <1>1, <1>2, <1>3, <1>4 DEF d

\* The choices that are still remembered keep what holds of all.
LEMMA LastOfKeeps ==
    ASSUME NEW s \in Seq(1..N), NEW n \in Nat, n < Len(s), NEW t, HigherIn(s), Owed(s, t)
    PROVE  LastOf(s, n) \in Seq(1..N) /\ HigherIn(LastOf(s, n)) /\ Owed(LastOf(s, n), t)
  <1> DEFINE d == Len(s) - n
             r == LastOf(s, n)
  <1>1. /\ d \in Nat /\ Len(s) \in Nat /\ Len(s) = d + n
        /\ r \in Seq(1..N) /\ Len(r) = n
        /\ \A i \in 1..n : r[i] = s[d + i] /\ d + i \in 1..Len(s)
    <2> DEFINE S == 1..N
    <2>1. s \in Seq(S) /\ n <= Len(s)
      OBVIOUS
    <2> HIDE DEF S
    <2>2. /\ Len(s) \in Nat /\ d \in Nat /\ r \in Seq(S) /\ Len(r) = n
          /\ \A i \in 1..n : r[i] = s[d + i] /\ d + i \in 1..Len(s)
      BY <2>1, LastOfIs
    <2> QED  BY <2>2 DEF S
  <1> HIDE DEF d, r
  <1>2. HigherIn(r)
    <2> SUFFICES ASSUME NEW i \in 1..n, NEW j \in 1..n, i < j, r[i] = r[j],
                        NEW p \in (1..(r[i] - 1)) \ excluded
                 PROVE  \E m \in i..j : r[m] = p
      BY <1>1 DEF HigherIn
    <2> DEFINE a == d + i
               b == d + j
    <2>1. a < b /\ s[a] = s[b] /\ p \in (1..(s[a] - 1)) \ excluded
          /\ a \in 1..Len(s) /\ b \in 1..Len(s)
      BY <1>1
    <2> HIDE DEF a, b
    <2>2. PICK m \in a..b : s[m] = p
      BY <2>1 DEF HigherIn
    <2>3. d \in Int /\ m \in (d + i)..(d + j) /\ i >= 1 /\ j <= n
      BY <1>1, <2>2 DEF a, b
    <2>4. m - d \in i..j /\ d + (m - d) = m /\ m - d \in 1..n
      BY <2>3
    <2>5. r[m - d] = s[d + (m - d)]
      BY <1>1, <2>4
    <2> QED  BY <2>2, <2>4, <2>5
  <1>3. Owed(r, t)
    <2> SUFFICES ASSUME NEW i \in 1..n, NEW p \in (1..(r[i] - 1)) \ excluded, ~Ahead(t, p, r[i])
                 PROVE  \E m \in (i + 1)..n : r[m] = p
      BY <1>1 DEF Owed
    <2> DEFINE a == d + i
    <2>1. s[a] = r[i] /\ a \in 1..Len(s)
      BY <1>1
    <2> HIDE DEF a
    <2>2. PICK m \in (a + 1)..Len(s) : s[m] = p
      BY <2>1 DEF Owed
    <2>3. d \in Int /\ m \in (d + i + 1)..(d + n) /\ i >= 1
      BY <1>1, <2>2 DEF a
    <2>4. m - d \in (i + 1)..n /\ d + (m - d) = m /\ m - d \in 1..n
      BY <2>3
    <2>5. r[m - d] = s[d + (m - d)]
      BY <1>1, <2>4
    <2> QED  BY <2>2, <2>4, <2>5
  <1> QED  BY <1>1, <1>2, <1>3 DEF r

\* A choice keeps both, whatever was skipped.
LEMMA ChoiceKeeps ==
    ASSUME SelectionInv, NEW k \in 1..Len(Cycle), Turns(Cycle, turn, (1..N) \ excluded, k)
    PROVE  LET longer == Append(recent, Slot(Cycle, turn, k))
           IN  /\ longer \in Seq(1..N)
               /\ HigherIn(longer)
               /\ Owed(longer, Advance(Cycle, turn, k))
  <1> DEFINE x == Slot(Cycle, turn, k)
             longer == Append(recent, x)
             t == Advance(Cycle, turn, k)
             n == Len(recent)
  <1>1. /\ x \in (1..N) \ excluded
        /\ \A j \in 1..(k - 1) : Slot(Cycle, turn, j) \notin (1..N) \ excluded
    BY DEF Turns
  <1>2. turn \in Nat /\ k \in Nat \ {0} /\ N \in Nat
    BY SelectionAssumption DEF SelectionInv
  <1>3. \A j \in Nat \ {0} : Slot(Cycle, t, j) = Slot(Cycle, turn, k + j)
    BY <1>2, SlotAfterAdvance
  <1> HIDE DEF x, t
  <1>4. /\ n \in Nat /\ longer \in Seq(1..N) /\ Len(longer) = n + 1 /\ longer[n + 1] = x
        /\ \A i \in 1..n : longer[i] = recent[i] /\ recent[i] \in 1..N
    <2>1. recent \in Seq(1..N) /\ x \in 1..N
      BY <1>1 DEF SelectionInv
    <2> DEFINE S == 1..N
    <2>2. recent \in Seq(S) /\ x \in S
      BY <2>1
    <2> HIDE DEF S
    <2>3. /\ Len(recent) \in Nat
          /\ \A i \in 1..Len(recent) : recent[i] \in S
          /\ Append(recent, x) \in Seq(S)
          /\ Len(Append(recent, x)) = Len(recent) + 1
          /\ Append(recent, x)[Len(recent) + 1] = x
          /\ \A i \in 1..Len(recent) : Append(recent, x)[i] = recent[i]
      BY <2>2, AppendLast
    <2> QED  BY <2>3 DEF longer, n, S
  <1> HIDE DEF longer, n
  <1>5. ASSUME NEW i \in 1..n, NEW p \in (1..(recent[i] - 1)) \ excluded, recent[i] = x
        PROVE  \E m \in (i + 1)..n : recent[m] = p
    <2>0. recent[i] \in 1..N /\ p \in (1..(recent[i] - 1)) \ excluded
      BY <1>4, <1>5
    <2>1. p \in (1..N) \ excluded
      <3> HIDE DEF x
      <3> QED  BY <1>2, <2>0
    <2>2. ~Ahead(turn, p, x)
      BY <1>1, <1>2, <2>1 DEF Ahead, x
    <2> QED  BY <1>4, <1>5, <2>2 DEF SelectionInv, Owed, n
  <1>6. HigherIn(longer)
    <2> SUFFICES ASSUME NEW i \in 1..(n + 1), NEW j \in 1..(n + 1), i < j, longer[i] = longer[j],
                        NEW p \in (1..(longer[i] - 1)) \ excluded
                 PROVE  \E m \in i..j : longer[m] = p
      BY <1>4 DEF HigherIn
    <2>1. i \in 1..n /\ longer[i] = recent[i]
      BY <1>4
    <2>2. CASE j \in 1..n
      <3>1. PICK m \in i..j : recent[m] = p
        <4>1. recent[i] = recent[j] /\ p \in (1..(recent[i] - 1)) \ excluded
          BY <1>4, <2>1, <2>2
        <4> QED  BY <4>1, <2>1, <2>2 DEF SelectionInv, HigherIn, n
      <3>2. m \in 1..n
        BY <1>4, <2>1, <2>2
      <3> QED  BY <1>4, <3>1, <3>2
    <2>3. CASE j \notin 1..n
      <3>1. j = n + 1 /\ recent[i] = x
        <4>1. j = n + 1
          BY <1>4, <2>3
        <4> QED  BY <4>1, <1>4, <2>1
      <3>2. PICK m \in (i + 1)..n : recent[m] = p
        BY <1>5, <2>1, <3>1
      <3>3. m \in 1..n /\ m \in i..j
        BY <1>4, <2>1, <3>1
      <3> QED  BY <1>4, <3>2, <3>3
    <2> QED  BY <2>2, <2>3
  <1>7. Owed(longer, t)
    <2> SUFFICES ASSUME NEW i \in 1..(n + 1), NEW p \in (1..(longer[i] - 1)) \ excluded,
                        ~\E m \in (i + 1)..(n + 1) : longer[m] = p
                 PROVE  Ahead(t, p, longer[i])
      BY <1>4 DEF Owed
    <2> SUFFICES ASSUME NEW h \in Nat \ {0}, Slot(Cycle, t, h) = longer[i]
                 PROVE  \E j \in 1..(h - 1) : Slot(Cycle, t, j) = p
      BY DEF Ahead
    <2>1. Slot(Cycle, turn, k + h) = longer[i] /\ k + h \in Nat \ {0} /\ k < k + h
      <3>1. k + h \in Nat \ {0} /\ k < k + h
        BY <1>2
      <3> QED  BY <1>3, <3>1
    <2>2. PICK m \in (k + 1)..(k + h - 1) : Slot(Cycle, turn, m) = p
      <3>1. CASE i = n + 1
        <4>1. longer[i] = Slot(Cycle, turn, k)
          BY <1>4, <3>1 DEF x
        <4> QED  BY <1>2, <2>1, <4>1, HigherBetweenSlots
      <3>2. CASE i # n + 1
        <4>1. i \in 1..n /\ longer[i] = recent[i] /\ n + 1 \in (i + 1)..(n + 1)
          BY <1>4, <3>2
        <4>2. p # x /\ ~\E m \in (i + 1)..n : recent[m] = p
          BY <1>4, <4>1
        <4>3. Ahead(turn, p, recent[i])
          BY <1>4, <4>1, <4>2 DEF SelectionInv, Owed, n
        <4>4. PICK m \in 1..(k + h - 1) : Slot(Cycle, turn, m) = p
          BY <2>1, <4>1, <4>3 DEF Ahead
        <4>5. p \in (1..N) \ excluded
          <5>1. longer[i] \in 1..N /\ p \in (1..(longer[i] - 1)) \ excluded
            BY <1>4, <4>1
          <5> QED  BY <1>2, <5>1
        <4>6. m \notin 1..(k - 1) /\ m # k
          BY <1>1, <4>2, <4>4, <4>5 DEF x
        <4>7. m \in (k + 1)..(k + h - 1)
          BY <1>2, <4>6
        <4> QED  BY <4>4, <4>7
      <3> QED  BY <3>1, <3>2
    <2>3. m - k \in 1..(h - 1) /\ m - k \in Nat \ {0} /\ k + (m - k) = m
      BY <1>2
    <2> QED  BY <1>3, <2>2, <2>3
  <1> QED  BY <1>4, <1>6, <1>7 DEF longer, x, t

\* The invariant holds at first, and every step keeps it.
LEMMA InitSelection == Init => SelectionInv
  <1>1. Len(Cycle) \in Nat \ {0}
    BY CycleOfCopies
  <1> SUFFICES ASSUME Init PROVE SelectionInv
    OBVIOUS
  <1>2. recent = <<>> /\ turn = 0
    BY DEF Init
  <1>3. DOMAIN recent = {} /\ recent \in Seq(1..N)
    BY <1>2
  <1> QED  BY <1>1, <1>2, <1>3 DEF SelectionInv, HigherIn, Owed

LEMMA NextSelection == SelectionInv /\ [Next]_vars => SelectionInv'
  <1> SUFFICES ASSUME SelectionInv, [Next]_vars PROVE SelectionInv'
    OBVIOUS
  <1> USE DEF SelectionInv
  <1>1. CASE UNCHANGED vars
    BY <1>1 DEF vars, HigherIn, Owed
  <1>2. ASSUME NEW X \in SUBSET (1..N), Exclude(X)
        PROVE  SelectionInv'
    <2>1. recent' = <<>> /\ turn' = turn
      BY <1>2 DEF Exclude
    <2>2. DOMAIN recent' = {} /\ recent' \in Seq(1..N)
      BY <2>1
    <2> QED  BY <2>1, <2>2 DEF HigherIn, Owed
  <1>3. ASSUME NextPriority
        PROVE  SelectionInv'
    <2>1. PICK k \in 1..Len(Cycle) :
             /\ Turns(Cycle, turn, (1..N) \ excluded, k)
             /\ turn' = Advance(Cycle, turn, k)
             /\ LET longer == Append(recent, Slot(Cycle, turn, k))
                IN  recent' = IF Len(longer) > Window THEN LastOf(longer, Window) ELSE longer
             /\ UNCHANGED excluded
      BY <1>3 DEF NextPriority
    <2> DEFINE longer == Append(recent, Slot(Cycle, turn, k))
    <2>2. longer \in Seq(1..N) /\ HigherIn(longer) /\ Owed(longer, turn')
      BY <2>1, ChoiceKeeps
    <2>3. recent' = IF Len(longer) > Window THEN LastOf(longer, Window) ELSE longer
      BY <2>1
    <2>4. turn' \in 0..(Len(Cycle) - 1)
      BY <2>1, SlotAfterAdvance
    <2> HIDE DEF longer
    <2>5. recent' \in Seq(1..N) /\ HigherIn(recent') /\ Owed(recent', turn')
      BY <2>2, <2>3, LastOfKeeps, SelectionAssumption
    <2>6. HigherIn(recent)' /\ Owed(recent, turn)'
      <3>1. excluded' = excluded
        BY <2>1
      <3>2. HigherIn(recent)' <=> HigherIn(recent')
        BY <3>1 DEF HigherIn
      <3>3. Owed(recent, turn)' <=> Owed(recent', turn')
        BY <3>1 DEF Owed, Ahead
      <3> QED  BY <2>5, <3>2, <3>3
    <2> QED  BY <2>4, <2>5, <2>6
  <1> QED  BY <1>1, <1>2, <1>3 DEF Next

\* Lower priorities never run ahead of higher ones (HigherFirst), for any number of
\* priorities and however the exclusion changes.
THEOREM HigherRunsFirst == Spec => []HigherFirst
  <1>1. SelectionInv => HigherFirst
    BY DEF SelectionInv, HigherIn, HigherFirst
  <1> QED  BY <1>1, InitSelection, NextSelection, PTL DEF Spec

-----------------------------------------------------------------------------
(* Shares: the slots that the choices were                                 *)

\* The element of the cycle that is read at time t, the first at time 0
At(t) == Cycle[(t % Len(Cycle)) + 1]

Wanted == (1..N) \ excluded

\* The choices s, made before the time T, are what was read at the times in pos:
\* all members of W that were read since the first of them.
Trace(s, T, pos, W) ==
    /\ pos \in [1..Len(s) -> Nat]
    /\ \A i \in 1..Len(s) : pos[i] < T /\ At(pos[i]) = s[i] /\ s[i] \in W
    /\ \A i, j \in 1..Len(s) : i < j => pos[i] < pos[j]
    /\ \A t \in Nat, i \in 1..Len(s) : pos[i] <= t /\ t < T /\ At(t) \in W
                                       => \E j \in 1..Len(s) : pos[j] = t

Traced(s, u, W) == \E T \in Nat : /\ T % Len(Cycle) = u
                               /\ \E pos \in [1..Len(s) -> Nat] : Trace(s, T, pos, W)

\* The cycle is a sequence of priorities.
LEMMA CycleType ==
    /\ DOMAIN Cycle = 1..Len(Cycle)
    /\ \A r \in 1..Len(Cycle) : Cycle[r] \in 1..N
  <1>1. Cycle \in Seq(1..N)
    BY CycleOfCopies
  <1> HIDE DEF Cycle
  <1>2. DOMAIN Cycle = 1..Len(Cycle)
    BY <1>1
  <1>3. \A r \in 1..Len(Cycle) : Cycle[r] \in 1..N
    BY CycleOfCopies, CopyForm
  <1> QED  BY <1>2, <1>3

\* A priority is in the cycle as often as its weight says.
LEMMA WeightInCycle ==
    ASSUME NEW p \in 1..N
    PROVE  /\ IsFiniteSet({r \in 1..Len(Cycle) : Cycle[r] = p})
           /\ Cardinality({r \in 1..Len(Cycle) : Cycle[r] = p}) = Weight(N, p)
  <1> DEFINE w == Weight(N, p)
             R == {r \in 1..Len(Cycle) : Cycle[r] = p}
             f == [k \in 1..w |-> Rank(N, <<p, k>>)]
  <1>1. w = P(N - p + 1) - 1 /\ w \in Nat /\ P(N - p + 1) \in Nat
    <2>1. N - p + 1 \in Nat
      BY SelectionAssumption
    <2>2. P(N - p + 1) \in Nat \ {0}
      BY <2>1, PLaws
    <2> QED  BY <2>2 DEF Weight, P
  <1> HIDE DEF w
  <1>2. \A k \in 1..w : <<p, k>> \in Copies(N)
    <2>1. \A k \in 1..w : k \in Nat \ {0} /\ k < P(N - p + 1)
      BY <1>1
    <2> QED  BY <2>1, CopyForm
  <1>3. f \in [1..w -> R]
    <2>1. \A k \in 1..w : Rank(N, <<p, k>>) \in 1..Len(Cycle) /\ Cycle[Rank(N, <<p, k>>)] = p
      BY <1>2, CycleOfCopies
    <2> QED  BY <2>1
  <1>4. \A k, l \in 1..w : f[k] = f[l] => k = l
    <2> SUFFICES ASSUME NEW k \in 1..w, NEW l \in 1..w, f[k] = f[l] PROVE k = l
      OBVIOUS
    <2>1. Rank(N, <<p, k>>) = Rank(N, <<p, l>>)
      OBVIOUS
    <2>2. <<p, k>> = <<p, l>>
      BY <1>2, <2>1, RankFollows
    <2> QED  BY <2>2
  <1>5. \A r \in R : \E k \in 1..w : f[k] = r
    <2> SUFFICES ASSUME NEW r \in R PROVE \E k \in 1..w : f[k] = r
      OBVIOUS
    <2>1. PICK c \in Copies(N) : Rank(N, c) = r /\ Cycle[r] = c[1]
      BY CycleOfCopies
    <2>2. c = <<p, c[2]>> /\ c[2] \in Nat \ {0} /\ c[2] < P(N - p + 1)
      BY <2>1, CopyForm
    <2>3. c[2] \in 1..w
      BY <1>1, <2>2
    <2> QED  BY <2>1, <2>2, <2>3
  <1> HIDE DEF f, R
  <1>6. ExistsBijection(1..w, R)
    BY <1>3, <1>4, <1>5 DEF ExistsBijection, Bijection, Injection, IsInjective, Surjection
  <1>7. IsFiniteSet(1..w) /\ Cardinality(1..w) = w
    BY <1>1, FS_Interval
  <1>8. IsFiniteSet(R) /\ Cardinality(R) = Cardinality(1..w)
    BY <1>6, <1>7, FS_Bijection
  <1> QED  BY <1>7, <1>8 DEF R, w

\* In the time of one cycle, each of its elements is read.
LEMMA EachIsRead ==
    ASSUME NEW a \in Nat, NEW r \in 1..Len(Cycle)
    PROVE  \E t \in a..(a + Len(Cycle) - 1) : t % Len(Cycle) = r - 1 /\ At(t) = Cycle[r]
  <1> DEFINE L == Len(Cycle)
             q == a \div L
             m == a % L
             e == IF r - 1 >= m THEN q ELSE q + 1
             t == L * e + (r - 1)
  <1>1. L \in Nat \ {0}
    BY CycleOfCopies
  <1>2. r \in 1..L
    OBVIOUS
  <1> HIDE DEF L
  <1>3. m \in 0..(L - 1) /\ q \in Nat /\ a = L * q + m
    BY <1>1, Division
  <1> HIDE DEF q, m
  <1>4. e \in Nat /\ (L * e = L * q \/ L * e = L * q + L)
    <2>1. L * (q + 1) = L * q + L
      BY <1>1, <1>3
    <2> QED  BY <1>3, <2>1
  <1>5. t \in a..(a + L - 1)
    <2>1. L * q \in Nat
      BY <1>1, <1>3
    <2>2. CASE r - 1 >= m
      BY <1>1, <1>2, <1>3, <2>1, <2>2
    <2>3. CASE ~(r - 1 >= m)
      <3>1. e = q + 1 /\ L * (q + 1) = L * q + L
        BY <1>1, <1>3, <2>3
      <3> QED  BY <1>1, <1>2, <1>3, <2>1, <2>3, <3>1
    <2> QED  BY <2>2, <2>3
  <1> HIDE DEF e
  <1>6. t \in Nat /\ r - 1 \in 0..(L - 1)
    BY <1>1, <1>2, <1>5
  <1> DEFINE x == t
  <1>7. x \in Nat /\ x = L * e + (r - 1)
    BY <1>6
  <1> HIDE DEF t, x
  <1>8. x % L = r - 1
    BY <1>1, <1>4, <1>6, <1>7, RemainderIsUnique
  <1>9. (r - 1) + 1 = r
    BY <1>1, <1>2
  <1> QED  BY <1>5, <1>8, <1>9 DEF At, L, x

\* Two of the latest choices, as many as one round has, are different elements of
\* the cycle: between two times an element is read, a whole round is chosen.
LEMMA RoundIsBetween ==
    ASSUME NEW s \in Seq(1..N), NEW T \in Nat, NEW pos \in [1..Len(s) -> Nat],
           Trace(s, T, pos, Wanted),
           NEW i \in 1..Len(s), NEW j \in 1..Len(s), i < j,
           pos[i] % Len(Cycle) = pos[j] % Len(Cycle),
           excluded \in SUBSET (1..N)
    PROVE  Round <= j - i
  <1> DEFINE L == Len(Cycle)
             n == Len(s)
             R == {r \in DOMAIN Cycle : Cycle[r] \notin excluded}
             a == pos[i]
             b == pos[j]
             Is(r, h) == pos[h] \in a..(a + L - 1) /\ pos[h] % L = r - 1
             f == [r \in R |-> CHOOSE h \in i..(j - 1) : Is(r, h)]
  <1>1. L \in Nat \ {0} /\ n \in Nat /\ i \in 1..n /\ j \in 1..n
    BY CycleOfCopies
  <1>2. a \in Nat /\ b \in Nat /\ a < b /\ b < T
    BY DEF Trace
  <1>3. R = {r \in 1..L : Cycle[r] \in Wanted}
    <2>1. DOMAIN Cycle = 1..L /\ \A r \in 1..L : Cycle[r] \in 1..N
      BY CycleType
    <2> HIDE DEF L
    <2> QED  BY <2>1 DEF Wanted
  <1>4. a + L <= b
    <2> DEFINE q == a \div L
               m == a % L
               e == b \div L
               g == b % L
    <2> HIDE DEF L, a, b
    <2>1. m \in 0..(L - 1) /\ q \in Nat /\ a = L * q + m
      BY <1>1, <1>2, Division
    <2>2. g \in 0..(L - 1) /\ e \in Nat /\ b = L * e + g
      BY <1>1, <1>2, Division
    <2>3. m = g
      BY DEF a, b, L
    <2> HIDE DEF q, m, e, g
    <2>4. q < e
      <3> SUFFICES ASSUME e <= q PROVE FALSE
        BY <2>1, <2>2
      <3>1. \A x, y, z \in Nat : x <= y => z * x <= z * y
        OBVIOUS
      <3>2. L * e <= L * q
        BY <1>1, <2>1, <2>2, <3>1
      <3> QED  BY <1>1, <1>2, <2>1, <2>2, <2>3, <3>2
    <2>5. L * e >= L * q + L
      <3>1. q + 1 <= e /\ L * (q + 1) = L * q + L
        BY <1>1, <2>1, <2>2, <2>4
      <3>2. \A x, y, z \in Nat : x <= y => z * x <= z * y
        OBVIOUS
      <3>3. L * (q + 1) <= L * e
        BY <1>1, <2>1, <2>2, <3>1, <3>2
      <3> QED  BY <1>1, <2>1, <2>2, <3>1, <3>3
    <2> QED  BY <1>1, <2>1, <2>2, <2>3, <2>5
  <1>5. ASSUME NEW r \in R
        PROVE  \E h \in i..(j - 1) : Is(r, h)
    <2>1. r \in 1..Len(Cycle) /\ Cycle[r] \in Wanted
      BY <1>3
    <2>2. PICK t \in a..(a + L - 1) : t % L = r - 1 /\ At(t) = Cycle[r]
      <3> HIDE DEF a
      <3> QED  BY <1>2, <2>1, EachIsRead
    <2> HIDE DEF a, b, L
    <2>3. t \in Nat /\ a <= t /\ t < b /\ t < T
      BY <1>1, <1>2, <1>4, <2>2
    <2>4. PICK h \in 1..n : pos[h] = t
      BY <2>1, <2>2, <2>3 DEF Trace, a
    <2>5. ~(h < i) /\ ~(j < h) /\ h # j
      <3>1. h < i => pos[h] < a
        BY <2>4 DEF Trace, a
      <3>2. j < h => b < pos[h]
        BY <2>4 DEF Trace, b
      <3> QED  BY <1>2, <2>3, <2>4, <3>1, <3>2 DEF b
    <2>6. h \in i..(j - 1)
      BY <1>1, <2>4, <2>5
    <2> QED  BY <2>2, <2>4, <2>6
  <1>6. f \in [R -> i..(j - 1)] /\ \A r \in R : pos[f[r]] % L = r - 1
    <2> HIDE DEF R, L, a
    <2> QED  BY <1>5
  <1>7. \A r \in R : r \in Int
    BY <1>1, <1>3
  <1> HIDE DEF f
  <1>8. f \in Injection(R, i..(j - 1))
    <2>1. \A r, o \in R : f[r] = f[o] => r = o
      <3> HIDE DEF R, L
      <3> QED  BY <1>6, <1>7
    <2> HIDE DEF R
    <2> QED  BY <1>6, <2>1 DEF Injection, IsInjective
  <1>9. IsFiniteSet(i..(j - 1)) /\ Cardinality(i..(j - 1)) = j - i
    BY <1>1, FS_Interval
  <1>10. Cardinality(R) <= j - i
    <2> HIDE DEF R
    <2> QED  BY <1>8, <1>9, FS_Injection
  <1> QED  BY <1>10 DEF Round

\* The latest choices, as many as one round has, are those of a whole round: each
\* priority is among them as often as its weight says.
LEMMA RoundHasShares ==
    ASSUME NEW s \in Seq(1..N), NEW T \in Nat, NEW pos \in [1..Len(s) -> Nat],
           Trace(s, T, pos, Wanted),
           excluded \in SUBSET (1..N), Len(s) >= Round, NEW p \in Wanted
    PROVE  CountIn(LastOf(s, Round), p) = Weight(N, p)
  <1> DEFINE L == Len(Cycle)
             M == Round
             d == Len(s) - M
             r == LastOf(s, M)
             R == {x \in 1..L : Cycle[x] \in Wanted}
             g == [i \in 1..M |-> (pos[d + i] % L) + 1]
             I == {i \in 1..M : r[i] = p}
             J == {x \in 1..L : Cycle[x] = p}
             h == [i \in I |-> g[i]]
  <1>1. L \in Nat \ {0} /\ Len(s) \in Nat
    BY CycleOfCopies
  <1>2. IsFiniteSet(R) /\ Cardinality(R) = M /\ M \in Nat
    <2>1. R = {x \in DOMAIN Cycle : Cycle[x] \notin excluded}
      <3>1. DOMAIN Cycle = 1..L /\ \A x \in 1..L : Cycle[x] \in 1..N
        BY CycleType
      <3> HIDE DEF L
      <3> QED  BY <3>1 DEF Wanted
    <2>2. IsFiniteSet(1..L) /\ R \in SUBSET (1..L)
      BY <1>1, FS_Interval
    <2>3. IsFiniteSet(R) /\ Cardinality(R) = M
      <3>1. IsFiniteSet(R)
        <4> HIDE DEF R, L
        <4> QED  BY <2>2, FS_Subset
      <3> QED  BY <2>1, <3>1 DEF Round
    <2> HIDE DEF R, M
    <2> QED  BY <2>3, FS_CardinalityType
  <1>3. /\ d \in Nat /\ Len(s) = d + M /\ M \in Nat
        /\ DOMAIN r = 1..M
        /\ \A i \in 1..M : r[i] = s[d + i] /\ d + i \in 1..Len(s)
    <2> HIDE DEF M
    <2>1. M <= Len(s) /\ M \in Nat
      BY <1>2 DEF M
    <2>2. /\ Len(s) \in Nat /\ d \in Nat /\ DOMAIN r = 1..M
          /\ \A i \in 1..M : r[i] = s[d + i] /\ d + i \in 1..Len(s)
      <3> DEFINE S == 1..N
      <3>1. s \in Seq(S)
        OBVIOUS
      <3> HIDE DEF S
      <3>2. /\ Len(s) \in Nat /\ Len(s) - M \in Nat /\ DOMAIN LastOf(s, M) = 1..M
            /\ \A i \in 1..M : /\ LastOf(s, M)[i] = s[Len(s) - M + i]
                               /\ Len(s) - M + i \in 1..Len(s)
        <4>1. ASSUME NEW U, NEW t \in Seq(U), NEW m \in Nat, m <= Len(t)
              PROVE  /\ Len(t) \in Nat /\ Len(t) - m \in Nat /\ DOMAIN LastOf(t, m) = 1..m
                     /\ \A i \in 1..m : /\ LastOf(t, m)[i] = t[Len(t) - m + i]
                                        /\ Len(t) - m + i \in 1..Len(t)
          BY <4>1, LastOfIs
        <4> QED  BY ONLY <2>1, <3>1, <4>1
      <3> QED  BY <3>2
    <2> QED  BY <2>1, <2>2
  <1> HIDE DEF d, r, M
  <1>4. \A i \in 1..M : /\ pos[d + i] \in Nat /\ pos[d + i] % L \in 0..(L - 1)
                        /\ g[i] \in 1..L /\ Cycle[g[i]] = r[i] /\ g[i] \in R
    <2> SUFFICES ASSUME NEW i \in 1..M
                 PROVE  /\ pos[d + i] \in Nat /\ pos[d + i] % L \in 0..(L - 1)
                        /\ g[i] \in 1..L /\ Cycle[g[i]] = r[i] /\ g[i] \in R
      OBVIOUS
    <2>1. d + i \in 1..Len(s) /\ r[i] = s[d + i] /\ pos[d + i] \in Nat
      BY <1>3
    <2>2. At(pos[d + i]) = r[i] /\ r[i] \in Wanted
      BY <2>1 DEF Trace
    <2>3. pos[d + i] % L \in 0..(L - 1)
      <3> HIDE DEF L
      <3> QED  BY <1>1, <2>1, Division
    <2>4. g[i] = (pos[d + i] % L) + 1
      OBVIOUS
    <2>5. g[i] \in 1..L
      <3> HIDE DEF g, L
      <3> QED  BY <1>1, <2>3, <2>4
    <2>6. Cycle[g[i]] = r[i]
      BY <2>2, <2>4 DEF At
    <2> QED  BY <2>1, <2>2, <2>3, <2>5, <2>6
  <1>5. \A i, j \in 1..M : i < j => g[i] # g[j]
    <2> SUFFICES ASSUME NEW i \in 1..M, NEW j \in 1..M, i < j, g[i] = g[j] PROVE FALSE
      OBVIOUS
    <2>1. pos[d + i] % L = pos[d + j] % L
      <3> DEFINE u == pos[d + i] % L
                 v == pos[d + j] % L
      <3>1. u + 1 = v + 1
        OBVIOUS
      <3>2. u \in Int /\ v \in Int
        BY <1>1, <1>4
      <3>3. u = v
        <4> HIDE DEF g, u, v
        <4> QED  BY <3>1, <3>2
      <3> QED  BY <3>3
    <2>2. d + i \in 1..Len(s) /\ d + j \in 1..Len(s) /\ d + i < d + j
      BY <1>3
    <2>3. Round <= (d + j) - (d + i)
      BY <2>1, <2>2, RoundIsBetween
    <2> QED  BY <1>3, <2>3 DEF M
  <1>6. g \in Injection(1..M, R)
    <2>1. \A i, j \in 1..M : g[i] = g[j] => i = j
      <3> HIDE DEF g
      <3> QED  BY <1>3, <1>5
    <2>2. g \in [1..M -> R]
      <3> HIDE DEF R
      <3> QED  BY <1>4
    <2> HIDE DEF g, R
    <2> QED  BY <2>1, <2>2 DEF Injection, IsInjective
  <1>7. g \in Surjection(1..M, R)
    <2>1. Cardinality(1..M) = M
      BY <1>2, FS_Interval
    <2> HIDE DEF g, R
    <2> QED  BY <1>2, <1>6, <2>1, FS_Injection
  <1> HIDE DEF g
  <1>8. h \in Bijection(I, J)
    <2>1. h \in [I -> J]
      <3>1. \A i \in I : g[i] \in J
        BY <1>4
      <3> QED  BY <3>1
    <2>2. \A i, j \in I : h[i] = h[j] => i = j
      BY <1>6 DEF Injection, IsInjective
    <2>3. \A x \in J : \E i \in I : h[i] = x
      <3> SUFFICES ASSUME NEW x \in J PROVE \E i \in I : h[i] = x
        OBVIOUS
      <3>1. x \in R
        OBVIOUS
      <3>2. PICK i \in 1..M : g[i] = x
        <4> HIDE DEF R
        <4> QED  BY <1>7, <3>1 DEF Surjection
      <3>3. i \in I
        BY <1>4, <3>2
      <3> QED  BY <3>2, <3>3
    <2> HIDE DEF h, I, J
    <2> QED  BY <2>1, <2>2, <2>3 DEF Bijection, Injection, IsInjective, Surjection
  <1>9. IsFiniteSet(I)
    <2>1. IsFiniteSet(1..M) /\ I \in SUBSET (1..M)
      BY <1>2, FS_Interval
    <2> HIDE DEF I
    <2> QED  BY <2>1, FS_Subset
  <1>10. Cardinality(I) = Cardinality(J)
    <2>1. ExistsBijection(I, J)
      <3> HIDE DEF h, I, J
      <3> QED  BY <1>8 DEF ExistsBijection
    <2> HIDE DEF I, J
    <2> QED  BY <1>9, <2>1, FS_Bijection
  <1>11. Cardinality(J) = Weight(N, p)
    BY WeightInCycle DEF Wanted
  <1>12. I = {i \in DOMAIN r : r[i] = p}
    BY <1>3
  <1> HIDE DEF I, J
  <1> QED  BY <1>10, <1>11, <1>12 DEF CountIn, r, M

\* The choices that are still remembered were read at the same times.
LEMMA LastOfTraced ==
    ASSUME NEW s \in Seq(1..N), NEW n \in Nat, n < Len(s), NEW u, NEW W, Traced(s, u, W)
    PROVE  Traced(LastOf(s, n), u, W)
  <1> DEFINE d == Len(s) - n
             r == LastOf(s, n)
  <1>1. PICK T \in Nat : T % Len(Cycle) = u /\ \E pos \in [1..Len(s) -> Nat] : Trace(s, T, pos, W)
    BY DEF Traced
  <1>2. PICK pos \in [1..Len(s) -> Nat] : Trace(s, T, pos, W)
    BY <1>1
  <1> DEFINE old == [i \in 1..n |-> pos[d + i]]
  <1>3. /\ d \in Nat /\ Len(s) = d + n /\ Len(r) = n
        /\ \A i \in 1..n : r[i] = s[d + i] /\ d + i \in 1..Len(s)
    BY LastOfIs
  <1> HIDE DEF d, r
  <1>4. old \in [1..n -> Nat] /\ \A i \in 1..n : old[i] = pos[d + i]
    BY <1>3
  <1> HIDE DEF old
  <1>5. \A i \in 1..n : old[i] < T /\ At(old[i]) = r[i] /\ r[i] \in W
    BY <1>2, <1>3, <1>4 DEF Trace
  <1>6. \A i, j \in 1..n : i < j => old[i] < old[j]
    <2> SUFFICES ASSUME NEW i \in 1..n, NEW j \in 1..n, i < j PROVE old[i] < old[j]
      OBVIOUS
    <2>1. d + i \in 1..Len(s) /\ d + j \in 1..Len(s) /\ d + i < d + j
      BY <1>3
    <2> QED  BY <1>2, <1>4, <2>1 DEF Trace
  <1>7. ASSUME NEW t \in Nat, NEW i \in 1..n, old[i] <= t, t < T, At(t) \in W
        PROVE  \E j \in 1..n : old[j] = t
    <2>1. d + i \in 1..Len(s) /\ pos[d + i] <= t
      BY <1>3, <1>4, <1>7
    <2>2. PICK j \in 1..Len(s) : pos[j] = t
      BY <1>2, <1>7, <2>1 DEF Trace
    <2>3. ~(j < d + i)
      <3>1. j < d + i => pos[j] < pos[d + i]
        BY <1>2, <2>1 DEF Trace
      <3> QED  BY <2>1, <2>2, <3>1
    <2>4. j - d \in 1..n /\ d + (j - d) = j
      BY <1>3, <2>3
    <2> QED  BY <1>4, <2>2, <2>4
  <1>8. Trace(r, T, old, W) /\ old \in [1..Len(r) -> Nat]
    BY <1>3, <1>4, <1>5, <1>6, <1>7 DEF Trace
  <1> QED  BY <1>1, <1>8 DEF Traced, r

\* A choice is read at the time to which the iterator came, and what it skipped was
\* not wanted.
LEMMA ChoiceTraced ==
    ASSUME SelectionInv, Traced(recent, turn, Wanted), NEW k \in 1..Len(Cycle),
           Turns(Cycle, turn, Wanted, k)
    PROVE  Traced(Append(recent, Slot(Cycle, turn, k)), Advance(Cycle, turn, k), Wanted)
  <1> DEFINE L == Len(Cycle)
             n == Len(recent)
             x == Slot(Cycle, turn, k)
             longer == Append(recent, x)
  <1>1. PICK T \in Nat : T % L = turn /\ \E pos \in [1..n -> Nat] : Trace(recent, T, pos, Wanted)
    BY DEF Traced
  <1>2. PICK pos \in [1..n -> Nat] : Trace(recent, T, pos, Wanted)
    BY <1>1
  <1> DEFINE last == T + k - 1
             new == [i \in 1..(n + 1) |-> IF i = n + 1 THEN last ELSE pos[i]]
  <1>3. L \in Nat \ {0} /\ k \in Nat \ {0} /\ turn \in Nat /\ last \in Nat /\ T <= last
    BY CycleOfCopies DEF SelectionInv
  <1>4. \A j \in Nat \ {0} : At(T + (j - 1)) = Slot(Cycle, turn, j)
    <2> SUFFICES ASSUME NEW j \in Nat \ {0} PROVE At(T + (j - 1)) = Slot(Cycle, turn, j)
      OBVIOUS
    <2> DEFINE e == j - 1
    <2>1. e \in Nat /\ turn + j - 1 = turn + e
      BY <1>3
    <2>2. (turn + e) % L = (T + e) % L
      <3> HIDE DEF L, e
      <3>1. ((T % L) + e) % L = (T + e) % L
        BY <1>3, <2>1, RemainderMoves
      <3> QED  BY <1>1, <3>1
    <2> QED  BY <2>1, <2>2 DEF At, Slot
  <1>5. (T + k) % L = Advance(Cycle, turn, k)
    <2>1. ((T % L) + k) % L = (T + k) % L
      <3> HIDE DEF L
      <3> QED  BY <1>3, RemainderMoves
    <2> QED  BY <1>1, <2>1 DEF Advance
  <1>6. x \in Wanted /\ \A j \in 1..(k - 1) : Slot(Cycle, turn, j) \notin Wanted
    BY DEF Turns
  <1> HIDE DEF L, x
  <1>7. /\ n \in Nat /\ Len(longer) = n + 1 /\ longer[n + 1] = x
        /\ \A i \in 1..n : longer[i] = recent[i]
    <2> DEFINE S == 1..N
    <2>1. recent \in Seq(S) /\ x \in S
      BY <1>6 DEF SelectionInv, Wanted
    <2> HIDE DEF S
    <2> QED  BY <2>1, AppendLast
  <1> HIDE DEF n, longer
  <1>8. /\ new \in [1..(n + 1) -> Nat] /\ new[n + 1] = last
        /\ \A i \in 1..n : new[i] = pos[i] /\ i \in 1..(n + 1)
        /\ \A i \in 1..(n + 1) : i = n + 1 \/ i \in 1..n
    <2>1. \A i \in 1..(n + 1) : i = n + 1 \/ i \in 1..n
      BY <1>7
    <2>2. \A i \in 1..n : i \in 1..(n + 1) /\ i # n + 1
      BY <1>7
    <2>3. n + 1 \in 1..(n + 1)
      BY <1>7
    <2> HIDE DEF last
    <2> QED  BY <1>3, <2>1, <2>2, <2>3
  <1> HIDE DEF new
  <1>9. \A i \in 1..n : pos[i] < T /\ At(pos[i]) = recent[i] /\ recent[i] \in Wanted
    BY <1>2 DEF Trace, n
  <1>10. At(last) = x
    <2>1. last = T + (k - 1)
      BY <1>3
    <2> HIDE DEF last
    <2> QED  BY <1>3, <1>4, <2>1 DEF x
  <1>11. \A i \in 1..(n + 1) : new[i] < T + k /\ At(new[i]) = longer[i] /\ longer[i] \in Wanted
    <2>1. \A i \in 1..n : new[i] < T + k /\ At(new[i]) = longer[i] /\ longer[i] \in Wanted
      <3> SUFFICES ASSUME NEW i \in 1..n
                   PROVE  new[i] < T + k /\ At(new[i]) = longer[i] /\ longer[i] \in Wanted
        OBVIOUS
      <3>1. new[i] = pos[i] /\ longer[i] = recent[i] /\ pos[i] \in Nat
        BY <1>7, <1>8
      <3>2. pos[i] < T /\ At(pos[i]) = recent[i] /\ recent[i] \in Wanted
        BY <1>9
      <3>3. pos[i] < T + k
        BY <1>3, <3>1, <3>2
      <3> QED  BY <3>1, <3>2, <3>3
    <2>2. last < T + k
      BY <1>3
    <2> HIDE DEF last
    <2> QED  BY <1>6, <1>7, <1>8, <1>10, <2>1, <2>2
  <1>12. \A i, j \in 1..(n + 1) : i < j => new[i] < new[j]
    <2> SUFFICES ASSUME NEW i \in 1..(n + 1), NEW j \in 1..(n + 1), i < j PROVE new[i] < new[j]
      OBVIOUS
    <2>1. i \in 1..n
      BY <1>7
    <2>2. CASE j = n + 1
      <3>1. new[i] < T /\ new[j] = last
        BY <1>8, <1>9, <2>1, <2>2
      <3> QED  BY <1>3, <1>8, <3>1
    <2>3. CASE j \in 1..n
      BY <1>2, <1>8, <2>1, <2>3 DEF Trace, n
    <2> QED  BY <1>8, <2>2, <2>3
  <1>13. ASSUME NEW t \in Nat, NEW i \in 1..(n + 1), new[i] <= t, t < T + k, At(t) \in Wanted
         PROVE  \E j \in 1..(n + 1) : new[j] = t
    <2>1. CASE t < T
      <3>1. i \in 1..n
        BY <1>3, <1>8, <1>13, <2>1
      <3>2. pos[i] <= t
        BY <1>8, <1>13, <3>1
      <3>3. PICK j \in 1..n : pos[j] = t
        BY <1>2, <1>13, <2>1, <3>1, <3>2 DEF Trace, n
      <3> QED  BY <1>8, <3>3
    <2>2. CASE t >= T
      <3> DEFINE j == t - T + 1
      <3>1. j \in 1..k /\ t = T + (j - 1)
        BY <1>3, <1>13, <2>2
      <3> HIDE DEF j
      <3>2. Slot(Cycle, turn, j) \in Wanted
        <4>1. j \in Nat \ {0}
          BY <1>3, <3>1
        <4>2. At(T + (j - 1)) \in Wanted
          BY <1>13, <3>1
        <4> QED  BY <1>4, <4>1, <4>2
      <3>3. j = k
        BY <1>3, <1>6, <3>1, <3>2
      <3>4. t = last /\ n + 1 \in 1..(n + 1)
        BY <1>3, <1>7, <3>1, <3>3
      <3> QED  BY <1>8, <3>4
    <2> QED  BY <2>1, <2>2
  <1>14. Trace(longer, T + k, new, Wanted) /\ new \in [1..Len(longer) -> Nat]
    BY <1>7, <1>8, <1>11, <1>12, <1>13 DEF Trace
  <1>15. T + k \in Nat
    BY <1>3
  <1>16. Traced(longer, (T + k) % L, Wanted)
    BY <1>14, <1>15 DEF Traced, L
  <1> QED  BY <1>5, <1>16 DEF longer, x

\* SelectionInv, and the choices are traced
ShareInv == /\ SelectionInv
            /\ excluded \in SUBSET (1..N)
            /\ Traced(recent, turn, Wanted)

\* No choice is remembered: nothing was read since.
LEMMA NothingTraced ==
    ASSUME NEW u \in 0..(Len(Cycle) - 1), NEW W
    PROVE  Traced(<<>>, u, W)
  <1> DEFINE L == Len(Cycle)
             none == [i \in 1..0 |-> 0]
  <1>1. u % L = u /\ u \in Nat
    <2>1. L \in Nat \ {0}
      BY CycleOfCopies
    <2> HIDE DEF L
    <2>2. u \in 0..(L - 1)
      BY DEF L
    <2> QED  BY <2>1, <2>2, RemainderIsUnique
  <1>2. none \in [1..Len(<<>>) -> Nat] /\ Trace(<<>>, u, none, W)
    BY DEF Trace
  <1> QED  BY <1>1, <1>2 DEF Traced

\* This invariant too holds at first, and every step keeps it.
LEMMA InitShare == Init => ShareInv
  <1> SUFFICES ASSUME Init PROVE ShareInv
    OBVIOUS
  <1>1. SelectionInv /\ recent = <<>> /\ excluded = {}
    BY InitSelection DEF Init
  <1>2. Traced(recent, turn, Wanted)
    BY <1>1, NothingTraced DEF SelectionInv
  <1> QED  BY <1>1, <1>2 DEF ShareInv

LEMMA NextShare == ShareInv /\ [Next]_vars => ShareInv'
  <1> SUFFICES ASSUME ShareInv, [Next]_vars PROVE ShareInv'
    OBVIOUS
  <1>1. SelectionInv /\ SelectionInv'
    BY NextSelection DEF ShareInv
  <1>2. CASE UNCHANGED vars
    <2>1. recent' = recent /\ turn' = turn /\ excluded' = excluded
      BY <1>2 DEF vars
    <2>2. Wanted' = Wanted
      BY <2>1 DEF Wanted
    <2>3. Traced(recent', turn', Wanted')
      BY <2>1, <2>2 DEF ShareInv
    <2> QED  BY <1>1, <2>1, <2>3 DEF ShareInv
  <1>3. ASSUME NEW X \in SUBSET (1..N), Exclude(X)
        PROVE  ShareInv'
    <2>1. recent' = <<>> /\ excluded' \in SUBSET (1..N) /\ turn' \in 0..(Len(Cycle) - 1)
      BY <1>1, <1>3 DEF Exclude, SelectionInv
    <2>2. Traced(recent', turn', Wanted')
      BY <2>1, NothingTraced
    <2> QED  BY <1>1, <2>1, <2>2 DEF ShareInv
  <1>4. ASSUME NextPriority
        PROVE  ShareInv'
    <2>1. PICK k \in 1..Len(Cycle) :
             /\ Turns(Cycle, turn, (1..N) \ excluded, k)
             /\ turn' = Advance(Cycle, turn, k)
             /\ LET longer == Append(recent, Slot(Cycle, turn, k))
                IN  recent' = IF Len(longer) > Window THEN LastOf(longer, Window) ELSE longer
             /\ UNCHANGED excluded
      BY <1>4 DEF NextPriority
    <2> DEFINE longer == Append(recent, Slot(Cycle, turn, k))
    <2>2. longer \in Seq(1..N) /\ Traced(longer, turn', Wanted)
      BY <1>1, <2>1, ChoiceKeeps, ChoiceTraced DEF ShareInv, Wanted
    <2>3. recent' = IF Len(longer) > Window THEN LastOf(longer, Window) ELSE longer
      BY <2>1
    <2>4. excluded' = excluded
      BY <2>1
    <2> HIDE DEF longer
    <2>5. Traced(recent', turn', Wanted) /\ Wanted' = Wanted
      BY <2>2, <2>3, <2>4, LastOfTraced, SelectionAssumption DEF Wanted
    <2> QED  BY <1>1, <2>4, <2>5 DEF ShareInv
  <1> QED  BY <1>2, <1>3, <1>4 DEF Next

\* The latest round of what was traced has the shares.
LEMMA SharesFollow == ShareInv => Fair
  <1> SUFFICES ASSUME ShareInv, Len(recent) >= Round, NEW p \in Wanted
               PROVE  CountIn(LastOf(recent, Round), p) = Weight(N, p)
    BY DEF Fair, Wanted
  <1>1. PICK T \in Nat : \E pos \in [1..Len(recent) -> Nat] : Trace(recent, T, pos, Wanted)
    BY DEF ShareInv, Traced
  <1>2. PICK pos \in [1..Len(recent) -> Nat] : Trace(recent, T, pos, Wanted)
    BY <1>1
  <1> QED  BY <1>2, RoundHasShares DEF ShareInv, SelectionInv

\* Each priority that is not excluded has its full weight in every round of choices
\* (Fair): worklist.py's "never the case that all higher priority items are popped
\* before lower priority items", for any number of priorities.
THEOREM SharesAreFair == Spec => []Fair
  <1> QED  BY InitShare, NextShare, SharesFollow, PTL DEF Spec

\* The lookups do not touch the iterator.
LEMMA RoutingLeavesSelection == RoutingSpec => Spec
  <1>1. RoutingInit => Init
    BY DEF RoutingInit
  <1>2. [SelectionStep \/ RoutingStep]_<<vars, routing>> => [Next]_vars
    BY DEF SelectionStep, RoutingStep, routing
  <1> QED  BY <1>1, <1>2, PTL DEF RoutingSpec, Spec

-----------------------------------------------------------------------------
(* Configurations                                                          *)

\* A configuration has pairs as keys, the default among them: ServiceCallRouter and
\* ServiceCallPriorityMap refuse to be made from one without.
Pairs(keys) == \A key \in keys : key = <<key[1], key[2]>>

Configured == Default \in config /\ Pairs(config)

-----------------------------------------------------------------------------
(* What the sets of names that a lookup consults tell                      *)

LEMMA NamesOfKeys ==
    ASSUME NEW keys, Pairs(keys), NEW s, NEW m
    PROVE  /\ s \in RoutesFor(keys, m) <=> <<s, m>> \in keys
           /\ <<s, m>> \in keys => s \in ServicesOf(keys) /\ m \in MethodsOf(keys)
           /\ m \in MethodsOf(keys) => \E t : <<t, m>> \in keys
           /\ s \in ServicesOf(keys) => \E n : <<s, n>> \in keys
  <1>1. s \in RoutesFor(keys, m) <=> <<s, m>> \in keys
    <2>1. ASSUME s \in RoutesFor(keys, m)
          PROVE  <<s, m>> \in keys
      <3>1. PICK key \in keys : key[2] = m /\ key[1] = s
        BY <2>1 DEF RoutesFor
      <3> QED  BY <3>1 DEF Pairs
    <2>2. ASSUME <<s, m>> \in keys
          PROVE  s \in RoutesFor(keys, m)
      <3> DEFINE key == <<s, m>>
      <3>1. key \in keys /\ key[1] = s /\ key[2] = m
        BY <2>2
      <3> QED  BY <3>1 DEF RoutesFor
    <2> QED  BY <2>1, <2>2
  <1>2. ASSUME <<s, m>> \in keys
        PROVE  s \in ServicesOf(keys) /\ m \in MethodsOf(keys)
    <2> DEFINE key == <<s, m>>
    <2>1. key \in keys /\ key[1] = s /\ key[2] = m
      BY <1>2
    <2> QED  BY <2>1 DEF ServicesOf, MethodsOf
  <1>3. ASSUME m \in MethodsOf(keys)
        PROVE  \E t : <<t, m>> \in keys
    <2>1. PICK key \in keys : key[2] = m
      BY <1>3 DEF MethodsOf
    <2> QED  BY <2>1 DEF Pairs
  <1>4. ASSUME s \in ServicesOf(keys)
        PROVE  \E n : <<s, n>> \in keys
    <2>1. PICK key \in keys : key[1] = s
      BY <1>4 DEF ServicesOf
    <2> QED  BY <2>1 DEF Pairs
  <1> QED  BY <1>1, <1>2, <1>3, <1>4

\* The keys that match a call are at most four, and which of them there are decides
\* which one is the best.
LEMMA MatchesAre ==
    ASSUME Configured, NEW key
    PROVE  key \in Matches <=> /\ key \in config
                               /\ key \in {<<call[1], call[2]>>, <<call[1], "*">>,
                                           <<"*", call[2]>>, Default}
  <1>1. ASSUME key \in Matches
        PROVE  key \in {<<call[1], call[2]>>, <<call[1], "*">>, <<"*", call[2]>>, Default}
    <2>1. key \in config /\ key[1] \in {call[1], "*"} /\ key[2] \in {call[2], "*"}
      BY <1>1 DEF Matches
    <2>2. key = <<key[1], key[2]>>
      BY <2>1 DEF Configured, Pairs
    <2> QED  BY <2>1, <2>2 DEF Default
  <1>2. ASSUME key \in {<<call[1], call[2]>>, <<call[1], "*">>, <<"*", call[2]>>, Default},
               key \in config
        PROVE  key \in Matches
    <2>1. key[1] \in {call[1], "*"} /\ key[2] \in {call[2], "*"}
      BY <1>2 DEF Default
    <2> QED  BY <1>2, <2>1 DEF Matches
  <1> QED  BY <1>1, <1>2 DEF Matches

LEMMA SpecificityOf ==
    ASSUME NEW s, NEW m
    PROVE  /\ Specificity(<<s, m>>, 1) = (IF s = "*" THEN 0 ELSE 2) + (IF m = "*" THEN 0 ELSE 1)
           /\ Specificity(<<s, m>>, 2) = (IF m = "*" THEN 0 ELSE 2) + (IF s = "*" THEN 0 ELSE 1)
  BY DEF Specificity

\* A matching key is the best as soon as none of those that are more specific is
\* there, a method counting more than a service (2) or the other way round (1).
LEMMA BestOf ==
    ASSUME Configured, NEW key \in Matches
    PROVE  /\ /\ <<call[1], call[2]>> \in config => key = <<call[1], call[2]>>
              /\ <<call[1], call[2]>> \notin config /\ <<"*", call[2]>> \in config
                   => key = <<"*", call[2]>>
              /\ {<<call[1], call[2]>>, <<"*", call[2]>>} \cap config = {}
                 /\ <<call[1], "*">> \in config
                   => key = <<call[1], "*">>
              => IsBest(key, 2)
           /\ /\ <<call[1], call[2]>> \in config => key = <<call[1], call[2]>>
              /\ <<call[1], call[2]>> \notin config /\ <<call[1], "*">> \in config
                   => key = <<call[1], "*">>
              /\ {<<call[1], call[2]>>, <<call[1], "*">>} \cap config = {}
                 /\ <<"*", call[2]>> \in config
                   => key = <<"*", call[2]>>
              => IsBest(key, 1)
  <1> DEFINE s == call[1]
             m == call[2]
  <1>1. /\ Specificity(<<s, m>>, 1) = (IF s = "*" THEN 0 ELSE 2) + (IF m = "*" THEN 0 ELSE 1)
        /\ Specificity(<<s, m>>, 2) = (IF m = "*" THEN 0 ELSE 2) + (IF s = "*" THEN 0 ELSE 1)
        /\ Specificity(<<s, "*">>, 1) = IF s = "*" THEN 0 ELSE 2
        /\ Specificity(<<s, "*">>, 2) = IF s = "*" THEN 0 ELSE 1
        /\ Specificity(<<"*", m>>, 1) = IF m = "*" THEN 0 ELSE 1
        /\ Specificity(<<"*", m>>, 2) = IF m = "*" THEN 0 ELSE 2
        /\ Specificity(Default, 1) = 0
        /\ Specificity(Default, 2) = 0
    BY SpecificityOf DEF Default
  <1>2. \A k : k \in Matches <=> k \in config /\ k \in {<<s, m>>, <<s, "*">>, <<"*", m>>, Default}
    BY MatchesAre
  <1>3. Default \in config
    BY DEF Configured
  <1>4. ASSUME /\ <<s, m>> \in config => key = <<s, m>>
               /\ <<s, m>> \notin config /\ <<"*", m>> \in config => key = <<"*", m>>
               /\ {<<s, m>>, <<"*", m>>} \cap config = {} /\ <<s, "*">> \in config
                    => key = <<s, "*">>,
               NEW other \in Matches
        PROVE  Specificity(other, 2) <= Specificity(key, 2)
    BY <1>1, <1>2, <1>4
  <1>5. ASSUME /\ <<s, m>> \in config => key = <<s, m>>
               /\ <<s, m>> \notin config /\ <<s, "*">> \in config => key = <<s, "*">>
               /\ {<<s, m>>, <<s, "*">>} \cap config = {} /\ <<"*", m>> \in config
                    => key = <<"*", m>>,
               NEW other \in Matches
        PROVE  Specificity(other, 1) <= Specificity(key, 1)
    BY <1>1, <1>2, <1>5
  <1> QED  BY <1>4, <1>5 DEF IsBest

-----------------------------------------------------------------------------
(* The two lookups                                                         *)

\* ServiceCallRouter.__resolve finds the best route of every call.
LEMMA ResolveFindsBest ==
    ASSUME Configured
    PROVE  IsBest(Resolve(config, call[1], call[2]), 2)
  <1> DEFINE s == call[1]
             m == call[2]
             named == IF m \in MethodsOf(config) THEN m ELSE "*"
             found == RoutesFor(config, named) \cap {s, "*"} # {}
             final == IF found THEN named ELSE "*"
             key == Resolve(config, s, m)
  <1>1. key = <<IF <<s, final>> \in config THEN s ELSE "*", final>>
    BY NamesOfKeys DEF Configured, Resolve
  <1>2. found <=> <<s, named>> \in config \/ <<"*", named>> \in config
    BY NamesOfKeys DEF Configured
  <1>3. /\ <<"*", "*">> \in config
        /\ Default = <<"*", "*">>
    BY DEF Configured, Default
  <1>4. m \notin MethodsOf(config) => <<s, m>> \notin config /\ <<"*", m>> \notin config
    BY NamesOfKeys DEF Configured
  <1> HIDE DEF found, key
  <1>5. /\ key \in config
        /\ key \in {<<s, m>>, <<s, "*">>, <<"*", m>>, Default}
    BY <1>1, <1>2, <1>3
  <1>6. key \in Matches
    BY <1>5, MatchesAre
  <1>7. <<s, m>> \in config => key = <<s, m>>
    BY <1>1, <1>2, <1>4
  <1>8. <<s, m>> \notin config /\ <<"*", m>> \in config => key = <<"*", m>>
    BY <1>1, <1>2, <1>4
  <1>9. {<<s, m>>, <<"*", m>>} \cap config = {} /\ <<s, "*">> \in config => key = <<s, "*">>
    BY <1>1, <1>2, <1>4
  <1> QED  BY <1>6, <1>7, <1>8, <1>9, BestOf DEF key

\* ServiceCallPriorityMap.__makekey finds the best priority of every call.
LEMMA MakeKeyFindsBest ==
    ASSUME Configured
    PROVE  IsBest(MakeKey(config, call[1], call[2]), 1)
  <1> DEFINE s == call[1]
             m == call[2]
             knownS == IF s \in ServicesOf(config) THEN s ELSE "*"
             knownM == IF m \in MethodsOf(config) THEN m ELSE "*"
             key == MakeKey(config, s, m)
  <1>1. /\ <<knownS, knownM>> \in config => key = <<knownS, knownM>>
        /\ <<knownS, knownM>> \notin config /\ <<knownS, "*">> \in config
             => key = <<knownS, "*">>
        /\ {<<knownS, knownM>>, <<knownS, "*">>} \cap config = {} /\ <<"*", knownM>> \in config
             => key = <<"*", knownM>>
        /\ {<<knownS, knownM>>, <<knownS, "*">>, <<"*", knownM>>} \cap config = {}
             => key = Default
    BY DEF MakeKey
  <1>2. /\ <<"*", "*">> \in config
        /\ Default = <<"*", "*">>
    BY DEF Configured, Default
  <1>3. /\ s \notin ServicesOf(config) => <<s, m>> \notin config /\ <<s, "*">> \notin config
        /\ m \notin MethodsOf(config) => <<s, m>> \notin config /\ <<"*", m>> \notin config
    BY NamesOfKeys DEF Configured
  <1> HIDE DEF key
  <1>4. /\ key \in config
        /\ key \in {<<s, m>>, <<s, "*">>, <<"*", m>>, Default}
    BY <1>1, <1>2
  <1>5. key \in Matches
    BY <1>4, MatchesAre
  <1>6. <<s, m>> \in config => key = <<s, m>>
    BY <1>1, <1>3
  <1>7. <<s, m>> \notin config /\ <<s, "*">> \in config => key = <<s, "*">>
    BY <1>1, <1>2, <1>3
  <1>8. {<<s, m>>, <<s, "*">>} \cap config = {} /\ <<"*", m>> \in config => key = <<"*", m>>
    BY <1>1, <1>2, <1>3
  <1> QED  BY <1>5, <1>6, <1>7, <1>8, BestOf DEF key

-----------------------------------------------------------------------------
(* The behaviours of the run                                               *)

LEMMA ConfigurationsStayConfigured == RoutingSpec => []Configured
  <1>1. RoutingInit => Configured
    BY DEF RoutingInit, Configured, Pairs, Default
  <1>2. Configured /\ [SelectionStep \/ RoutingStep]_<<vars, routing>> => Configured'
    <2> SUFFICES ASSUME Configured, [SelectionStep \/ RoutingStep]_<<vars, routing>>
                 PROVE  Configured'
      OBVIOUS
    <2>1. CASE UNCHANGED config
      BY <2>1 DEF Configured, Pairs
    <2>2. ASSUME NEW s, NEW m, AddKey(<<s, m>>)
          PROVE  Configured'
      <3>1. config' = config \cup {<<s, m>>}
        BY <2>2 DEF AddKey
      <3>2. ASSUME NEW key \in config'
            PROVE  key = <<key[1], key[2]>>
        BY <3>1, <3>2 DEF Configured, Pairs
      <3> QED  BY <3>1, <3>2 DEF Configured, Pairs
    <2> QED  BY <2>1, <2>2 DEF SelectionStep, RoutingStep, Lookup, vars, routing
  <1> QED  BY <1>1, <1>2, PTL DEF RoutingSpec

\* A call goes to the executor of the most specific route that matches it: the
\* lookup in the tree of routes never misses it (RouteIsBest).
THEOREM RoutesAreBest == RoutingSpec => []RouteIsBest
  <1>1. Configured => RouteIsBest
    BY ResolveFindsBest DEF RouteIsBest
  <1> QED  BY <1>1, ConfigurationsStayConfigured, PTL

\* A call has the priority of the most specific key that matches it (PriorityIsBest).
THEOREM PrioritiesAreBest == RoutingSpec => []PriorityIsBest
  <1>1. Configured => PriorityIsBest
    BY MakeKeyFindsBest DEF PriorityIsBest
  <1> QED  BY <1>1, ConfigurationsStayConfigured, PTL

-----------------------------------------------------------------------------
(* The configurations ZenHub is shipped with                               *)

\* The calls that the `event' and the `adm' executor get.
LEMMA ShippedExecutors ==
    ASSUME NEW s, NEW m
    PROVE  /\ ExecutorOf(s, m) = "event"
                <=> s = "EventService" /\ m \in {"sendEvent", "sendEvents"}
           /\ ExecutorOf(s, m) = "adm" <=> m = "applyDataMaps"
  <1> DEFINE keys == {<<"EventService", "sendEvent">>, <<"EventService", "sendEvents">>,
                      <<"*", "applyDataMaps">>, <<"*", "*">>}
  <1>1. DOMAIN Routes = keys
    BY DEF Routes, Default
  <1>2. MethodsOf(keys) = {"sendEvent", "sendEvents", "applyDataMaps", "*"}
    BY DEF MethodsOf
  <1>3. /\ RoutesFor(keys, "sendEvent") = {"EventService"}
        /\ RoutesFor(keys, "sendEvents") = {"EventService"}
        /\ RoutesFor(keys, "applyDataMaps") = {"*"}
        /\ RoutesFor(keys, "*") = {"*"}
    <2>1. Pairs(keys)
      BY DEF Pairs
    <2>2. \A n, t : t \in RoutesFor(keys, n) <=> <<t, n>> \in keys
      BY <2>1, NamesOfKeys
    <2> QED  BY <2>2
  <1>4. Resolve(keys, s, m) = IF s = "EventService" /\ m \in {"sendEvent", "sendEvents"}
                              THEN <<s, m>>
                              ELSE IF m = "applyDataMaps" THEN <<"*", m>> ELSE <<"*", "*">>
    <2> HIDE DEF keys
    <2>1. CASE m \in {"sendEvent", "sendEvents"}
      BY <1>2, <1>3, <2>1 DEF Resolve
    <2>2. CASE m = "applyDataMaps"
      BY <1>2, <1>3, <2>2 DEF Resolve
    <2>3. CASE m \notin {"sendEvent", "sendEvents", "applyDataMaps"}
      BY <1>2, <1>3, <2>3 DEF Resolve
    <2> QED  BY <2>1, <2>2, <2>3
  <1>5. /\ Routes[<<"EventService", "sendEvent">>] = "event"
        /\ Routes[<<"EventService", "sendEvents">>] = "event"
        /\ Routes[<<"*", "applyDataMaps">>] = "adm"
        /\ Routes[<<"*", "*">>] = "default"
    BY DEF Routes, Default
  <1> QED  BY <1>1, <1>4, <1>5 DEF ExecutorOf

\* The calls of the highest priority, and those that a pause of modeling holds back.
LEMMA ShippedPriorities ==
    ASSUME NEW s, NEW m
    PROVE  /\ PriorityNameOf(s, m) = "EVENTS"
                <=> s = "EventService" /\ m \in {"sendEvent", "sendEvents"}
           /\ PriorityNameOf(s, m) = "MODELING" <=> m = "applyDataMaps"
  <1> DEFINE named == {"singleApplyDataMaps", "getDeviceConfigs", "getDeviceConfig",
                       "applyDataMaps"}
             keys == {<<"EventService", "sendEvent">>, <<"EventService", "sendEvents">>,
                      <<"*", "singleApplyDataMaps">>, <<"*", "*">>,
                      <<"*", "getDeviceConfigs">>, <<"*", "getDeviceConfig">>,
                      <<"*", "applyDataMaps">>}
  <1>1. DOMAIN PriorityMap = keys
    BY DEF PriorityMap, Default
  <1>2. /\ ServicesOf(keys) = {"EventService", "*"}
        /\ MethodsOf(keys) = named \cup {"sendEvent", "sendEvents", "*"}
    BY DEF ServicesOf, MethodsOf
  <1>3. MakeKey(keys, s, m) = IF s = "EventService" /\ m \in {"sendEvent", "sendEvents"}
                              THEN <<s, m>>
                              ELSE IF m \in named THEN <<"*", m>> ELSE <<"*", "*">>
    <2>1. /\ <<"EventService", "*">> \notin keys
          /\ \A n : <<"EventService", n>> \in keys <=> n \in {"sendEvent", "sendEvents"}
          /\ \A n : <<"*", n>> \in keys <=> n \in named \cup {"*"}
      OBVIOUS
    <2> HIDE DEF keys
    <2>2. CASE s = "EventService"
      BY <1>2, <2>1, <2>2 DEF MakeKey, Default
    <2>3. CASE s # "EventService"
      BY <1>2, <2>1, <2>3 DEF MakeKey, Default
    <2> QED  BY <2>2, <2>3
  <1>4. /\ PriorityMap[<<"EventService", "sendEvent">>] = "EVENTS"
        /\ PriorityMap[<<"EventService", "sendEvents">>] = "EVENTS"
        /\ PriorityMap[<<"*", "applyDataMaps">>] = "MODELING"
        /\ PriorityMap[<<"*", "singleApplyDataMaps">>] = "SINGLE_MODELING"
        /\ PriorityMap[<<"*", "getDeviceConfigs">>] = "CONFIG"
        /\ PriorityMap[<<"*", "getDeviceConfig">>] = "CONFIG"
        /\ PriorityMap[<<"*", "*">>] = "OTHER"
    BY DEF PriorityMap, Default
  <1> QED  BY <1>1, <1>3, <1>4 DEF PriorityNameOf

\* As shipped, the executor of a call and its priority agree, whatever the call
\* (ShippedRoutesAgree).
THEOREM ShippedConfigurationsAgree == RoutingSpec => []ShippedRoutesAgree
  <1>1. ShippedRoutesAgree
    BY ShippedExecutors, ShippedPriorities DEF ShippedRoutesAgree
  <1> QED  BY <1>1, PTL
=============================================================================
