----------------------- MODULE EventQueueManager_proofs -----------------------
(***************************************************************************)
(* What EventQueueManager keeps true, for any number of events, any length *)
(* of the queues and any size of the chunks, with and without              *)
(* de-duplication.  The first part is about the operators of the module:   *)
(* what Picked, Append1, FiledInOrder, Merged, Unmerged, ExtendLeft and    *)
(* ChunkOf return.  They are defined by recursion, CHOOSE or Cardinality,  *)
(* and proved by a least counterexample or an injection.  The second part  *)
(* follows one queue through append, the start of a flush, an answer and a *)
(* failure (OneQueue, Fresh, HasClear), the third puts both queues and the *)
(* state of clears together (Good), and the last one is the invariant.     *)
(***************************************************************************)
EXTENDS EventQueueManager, FiniteSetTheorems, SequenceTheorems, TLAPS

-----------------------------------------------------------------------------
(* Numbers.  A set of naturals has a least member: this is what the proofs  *)
(* by induction below rest on, as the least counterexample.                 *)

LEMMA LeastNumber ==
    ASSUME NEW T \in SUBSET Nat, T # {}
    PROVE  \E m \in T : \A k \in T : m <= k
  <1> DEFINE S == {1..m : m \in T}
  <1>1. IsWellFoundedOn(StrictSubsetOrdering(Nat), FiniteSubsetsOf(Nat))
    BY FS_StrictSubsetOrderingWellFounded
  <1>2. \A m \in T : (1..m) \in FiniteSubsetsOf(Nat)
    BY FS_Interval DEF FiniteSubsetsOf
  <1>3. S \subseteq FiniteSubsetsOf(Nat) /\ S # {}
    BY <1>2
  <1>4. PICK x \in S : \A y \in S : <<y, x>> \notin StrictSubsetOrdering(Nat)
    <2> HIDE DEF S
    <2> QED  BY <1>1, <1>3, WFMin
  <1>5. PICK m \in T : x = 1..m
    BY <1>4
  <1>6. ASSUME NEW k \in T, k < m PROVE FALSE
    <2>1. /\ 1..k \in SUBSET Nat /\ 1..m \in SUBSET Nat
          /\ 1..k \subseteq 1..m /\ m \in 1..m /\ m \notin 1..k
      BY <1>6
    <2>2. <<1..k, 1..m>> \in StrictSubsetOrdering(Nat)
      BY <2>1 DEF StrictSubsetOrdering
    <2> QED  BY <1>4, <1>5, <2>2
  <1> QED  BY <1>6

\* A set of places has a last one.
LEMMA LastPlace ==
    ASSUME NEW n \in Nat, NEW S \in SUBSET (1..n), S # {}
    PROVE  Max(S) \in S /\ \A x \in S : x <= Max(S)
  <1> DEFINE T == {m \in Nat : \A x \in S : x <= m}
  <1>1. T \in SUBSET Nat /\ n \in T
    OBVIOUS
  <1>2. PICK m \in T : \A k \in T : m <= k
    BY <1>1, LeastNumber
  <1>3. m \in S
    <2> SUFFICES ASSUME m \notin S PROVE FALSE  OBVIOUS
    <2>1. \A x \in S : x \in Int /\ x >= 1 /\ x <= m - 1
      BY <1>2
    <2>2. m - 1 \in Nat
      <3>1. PICK x \in S : TRUE
        OBVIOUS
      <3>2. m \in Nat /\ x \in Int /\ x >= 1 /\ x <= m - 1
        BY <2>1
      <3> QED  BY <3>2
    <2>3. m - 1 \in T
      BY <2>1, <2>2
    <2> QED  BY <1>2, <2>3
  <1>4. \A x \in S : m >= x
    BY <1>2
  <1> QED  BY <1>3, <1>4 DEF Max

LEMMA MaxOfTwo ==
    ASSUME NEW a \in Int, NEW b \in Int
    PROVE  Max({a, b}) = IF a >= b THEN a ELSE b
  <1> DEFINE m == IF a >= b THEN a ELSE b
  <1>1. \A x \in {a, b} : (\A y \in {a, b} : x >= y) <=> x = m
    OBVIOUS
  <1>2. m \in {a, b}
    OBVIOUS
  <1> HIDE DEF m
  <1>3. Max({a, b}) = m
    BY <1>1, <1>2 DEF Max
  <1> QED  BY <1>3 DEF m

LEMMA MinOfTwo ==
    ASSUME NEW a \in Int, NEW b \in Int
    PROVE  Min({a, b}) = IF a <= b THEN a ELSE b
  <1> DEFINE m == IF a <= b THEN a ELSE b
  <1>1. \A x \in {a, b} : (\A y \in {a, b} : x <= y) <=> x = m
    OBVIOUS
  <1>2. m \in {a, b}
    OBVIOUS
  <1> HIDE DEF m
  <1>3. Min({a, b}) = m
    BY <1>1, <1>2 DEF Min
  <1> QED  BY <1>3 DEF m

-----------------------------------------------------------------------------
(* Picked                                                                  *)

PickedStep(f, s, I, n) == IF n = 0 THEN <<>>
                          ELSE IF n \in I THEN Append(f[n - 1], s[n])
                          ELSE f[n - 1]

\* The recursion of Picked has a solution.
LEMMA PickedSolvable ==
    ASSUME NEW S, NEW s \in Seq(S), NEW I
    PROVE  \E f : f = [n \in 0..Len(s) |-> PickedStep(f, s, I, n)]
  <1> DEFINE Upto(m) == \E f \in [0..m -> Seq(S)] : \A n \in 0..m : f[n] = PickedStep(f, s, I, n)
             T == {m \in 0..Len(s) : ~Upto(m)}
  <1>1. T = {}
    <2> SUFFICES ASSUME T # {} PROVE FALSE  OBVIOUS
    <2>0. T \in SUBSET Nat
      OBVIOUS
    <2>1. PICK m \in T : \A k \in T : m <= k
      <3> HIDE DEF T
      <3> QED  BY <2>0, LeastNumber
    <2>2. m # 0
      <3>1. [n \in 0..0 |-> <<>>] \in [0..0 -> Seq(S)]
        OBVIOUS
      <3>2. Upto(0)
        <4> DEFINE f == [n \in 0..0 |-> <<>>]
        <4>1. \A n \in 0..0 : f[n] = PickedStep(f, s, I, n)
          BY DEF PickedStep
        <4> HIDE DEF f
        <4> QED  BY <3>1, <4>1 DEF f
      <3> QED  BY <2>1, <3>2
    <2>3. m - 1 \in 0..Len(s) /\ m - 1 \notin T
      <3>1. m \in 0..Len(s) /\ Len(s) \in Nat
        OBVIOUS
      <3>2. m - 1 \in Nat /\ ~(m <= m - 1)
        BY <2>2, <3>1
      <3> HIDE DEF T
      <3> QED  BY <2>1, <3>1, <3>2
    <2>4. PICK f \in [0..(m - 1) -> Seq(S)] : \A n \in 0..(m - 1) : f[n] = PickedStep(f, s, I, n)
      BY <2>3
    <2> DEFINE g == [n \in 0..m |-> IF n = m THEN PickedStep(f, s, I, m) ELSE f[n]]
    <2>5. m \in 1..Len(s) /\ s[m] \in S /\ m - 1 \in 0..(m - 1)
      BY <2>1, <2>2
    <2>6. PickedStep(f, s, I, m) \in Seq(S)
      BY <2>5 DEF PickedStep
    <2>7. g \in [0..m -> Seq(S)]
      BY <2>4, <2>5, <2>6
    <2>8. ASSUME NEW n \in 0..m PROVE g[n] = PickedStep(g, s, I, n)
      <3>1. n # 0 => n - 1 \in 0..(m - 1) /\ g[n - 1] = f[n - 1]
        BY <2>5
      <3>2. PickedStep(g, s, I, n) = PickedStep(f, s, I, n)
        BY <3>1 DEF PickedStep
      <3>3. n # m => n \in 0..(m - 1)
        BY <2>5
      <3> QED  BY <2>4, <3>2, <3>3
    <2>9. Upto(m)
      <3> HIDE DEF g
      <3> QED  BY <2>7, <2>8
    <2> QED  BY <2>1, <2>9
  <1>2. Upto(Len(s))
    BY <1>1
  <1>3. PICK f \in [0..Len(s) -> Seq(S)] : \A n \in 0..Len(s) : f[n] = PickedStep(f, s, I, n)
    BY <1>2
  <1>4. f = [n \in 0..Len(s) |-> PickedStep(f, s, I, n)]
    BY <1>3
  <1> QED  BY <1>4

\* p has the elements of s at the places up to n that are in I; e says which.
Embeds(e, p, s, I, n) ==
    /\ e \in [1..Len(p) -> 1..n]
    /\ \A k \in 1..Len(p) : p[k] = s[e[k]] /\ e[k] \in I
    /\ \A k, l \in 1..Len(p) : k < l => e[k] < e[l]
    /\ \A i \in 1..n : i \in I => \E k \in 1..Len(p) : e[k] = i

LEMMA EmbedsNext ==
    ASSUME NEW S, NEW s \in Seq(S), NEW I, NEW n \in 1..Len(s), n \in I,
           NEW p \in Seq(S), NEW e, Embeds(e, p, s, I, n - 1)
    PROVE  \E d : Embeds(d, Append(p, s[n]), s, I, n)
  <1> DEFINE d == [k \in 1..(Len(p) + 1) |-> IF k = Len(p) + 1 THEN n ELSE e[k]]
             r == Append(p, s[n])
  <1>1. /\ s[n] \in S /\ Len(p) \in Nat /\ Len(r) = Len(p) + 1 /\ r[Len(p) + 1] = s[n]
        /\ \A k \in 1..Len(p) : r[k] = p[k]
    OBVIOUS
  <1>2. e \in [1..Len(p) -> 1..(n - 1)]
    BY DEF Embeds
  <1>3. d \in [1..Len(r) -> 1..n]
    BY <1>1, <1>2
  <1>4. \A k \in 1..Len(r) : r[k] = s[d[k]] /\ d[k] \in I
    BY <1>1, <1>2 DEF Embeds
  <1>5. \A k, l \in 1..Len(r) : k < l => d[k] < d[l]
    <2>1. ASSUME NEW k \in 1..Len(r), NEW l \in 1..Len(r), k < l PROVE d[k] < d[l]
      <3>1. k \in 1..Len(p) /\ d[k] = e[k] /\ e[k] \in 1..(n - 1)
        <4>1. k \in 1..Len(p) /\ k # Len(p) + 1 /\ k \in 1..(Len(p) + 1)
          BY <1>1, <2>1
        <4>2. d[k] = e[k]
          BY <4>1
        <4> QED  BY <1>2, <4>1, <4>2
      <3>2. CASE l = Len(p) + 1
        BY <1>1, <3>1, <3>2
      <3>3. CASE l # Len(p) + 1
        <4>1. l \in 1..Len(p) /\ d[l] = e[l]
          BY <1>1, <3>3
        <4> QED  BY <2>1, <3>1, <4>1 DEF Embeds
      <3> QED  BY <3>2, <3>3
    <2> QED  BY <2>1
  <1>6. ASSUME NEW i \in 1..n, i \in I PROVE \E k \in 1..Len(r) : d[k] = i
    <2>1. CASE i = n
      BY <1>1, <2>1
    <2>2. CASE i # n
      <3>1. PICK k \in 1..Len(p) : e[k] = i
        BY <1>6, <2>2 DEF Embeds
      <3> QED  BY <1>1, <3>1
    <2> QED  BY <2>1, <2>2
  <1> HIDE DEF d, r
  <1>7. Embeds(d, r, s, I, n)
    BY <1>3, <1>4, <1>5, <1>6 DEF Embeds
  <1> QED  BY <1>7 DEF r

LEMMA EmbedsSame ==
    ASSUME NEW s, NEW I, NEW n \in Nat, n # 0, n \notin I, NEW p, NEW e, Embeds(e, p, s, I, n - 1)
    PROVE  Embeds(e, p, s, I, n)
  <1>1. \A i \in 1..n : i \in I => i \in 1..(n - 1)
    OBVIOUS
  <1>2. 1..(n - 1) \subseteq 1..n
    OBVIOUS
  <1> QED  BY <1>1, <1>2 DEF Embeds

\* What Picked gives is a part of the sequence, in its order; all of it when all
\* places are asked for.
LEMMA PickedProperties ==
    ASSUME NEW S, NEW s \in Seq(S), NEW I
    PROVE  /\ Picked(s, I) \in Seq(S)
           /\ Len(Picked(s, I)) <= Len(s)
           /\ \E e : Embeds(e, Picked(s, I), s, I, Len(s))
           /\ DOMAIN s \subseteq I => Picked(s, I) = s
  <1> DEFINE f == CHOOSE f : f = [n \in 0..Len(s) |-> PickedStep(f, s, I, n)]
  <1>1. f = [n \in 0..Len(s) |-> PickedStep(f, s, I, n)]
    BY PickedSolvable
  <1>2. Picked(s, I) = f[Len(s)]
    BY DEF Picked, PickedStep
  <1> HIDE DEF f
  <1> DEFINE P(n) == /\ f[n] \in Seq(S)
                     /\ Len(f[n]) <= n
                     /\ \E e : Embeds(e, f[n], s, I, n)
                     /\ 1..n \subseteq I => Len(f[n]) = n /\ \A k \in 1..n : f[n][k] = s[k]
             T == {n \in 0..Len(s) : ~P(n)}
  <1>3. P(0)
    <2>1. f[0] = <<>>
      BY <1>1 DEF PickedStep
    <2>2. Embeds(<<>>, <<>>, s, I, 0)
      BY DEF Embeds
    <2> QED  BY <2>1, <2>2
  <1>4. ASSUME NEW n \in 1..Len(s), P(n - 1) PROVE P(n)
    <2>0. Len(s) \in Nat /\ n \in 0..Len(s) /\ n # 0 /\ s[n] \in S
      OBVIOUS
    <2>1. f[n] = IF n \in I THEN Append(f[n - 1], s[n]) ELSE f[n - 1]
      <3>1. f[n] = PickedStep(f, s, I, n)
        BY <1>1, <2>0
      <3> QED  BY <2>0, <3>1 DEF PickedStep
    <2>2. CASE n \in I
      <3>1. \E e : Embeds(e, f[n], s, I, n)
        BY <1>4, <2>0, <2>1, <2>2, EmbedsNext
      <3>2. /\ Len(f[n - 1]) \in Nat /\ f[n] \in Seq(S) /\ Len(f[n]) = Len(f[n - 1]) + 1
            /\ f[n][Len(f[n - 1]) + 1] = s[n]
            /\ \A k \in 1..Len(f[n - 1]) : f[n][k] = f[n - 1][k]
        BY <1>4, <2>0, <2>1, <2>2
      <3>3. 1..n \subseteq I => 1..(n - 1) \subseteq I
        OBVIOUS
      <3>4. ASSUME 1..n \subseteq I PROVE Len(f[n]) = n /\ \A k \in 1..n : f[n][k] = s[k]
        BY <1>4, <3>2, <3>3, <3>4
      <3> QED  BY <1>4, <3>1, <3>2, <3>4
    <2>3. CASE n \notin I
      <3>1. \E e : Embeds(e, f[n], s, I, n)
        BY <1>4, <2>1, <2>3, EmbedsSame
      <3> QED  BY <1>4, <2>1, <2>3, <3>1
    <2> QED  BY <2>2, <2>3
  <1> HIDE DEF P
  <1>5. T = {}
    <2> SUFFICES ASSUME T # {} PROVE FALSE  OBVIOUS
    <2>0. T \in SUBSET Nat
      OBVIOUS
    <2>1. PICK m \in T : \A k \in T : m <= k
      <3> HIDE DEF T
      <3> QED  BY <2>0, LeastNumber
    <2>2. m # 0
      BY <1>3, <2>1
    <2>3. m - 1 \in 0..Len(s) /\ m - 1 \notin T /\ m \in 1..Len(s)
      BY <2>1, <2>2
    <2> QED  BY <1>4, <2>1, <2>3
  <1>6. P(Len(s))
    BY <1>5
  <1>7. DOMAIN s = 1..Len(s)
    OBVIOUS
  <1>8. ASSUME DOMAIN s \subseteq I PROVE f[Len(s)] = s
    BY <1>6, <1>7, <1>8, SeqEqual DEF P
  <1> QED  BY <1>2, <1>6, <1>8 DEF P

-----------------------------------------------------------------------------
(* Events and entries, their counts not bounded yet                        *)

AnyEvent == [id : Nat \ {0}, kind : Kinds, count : Nat \ {0}]

\* An entry is filed under the kind of its event, and a count it has passed since.
AnyEntry == {e \in [key : Kinds \X (Nat \ {0}), event : AnyEvent] :
               e.key[1] = e.event.kind /\ e.key[2] <= e.event.count}

LEMMA EventsType ==
    ASSUME NEW s \in Seq(AnyEntry)
    PROVE  /\ Events(s) \in Seq(AnyEvent)
           /\ Len(Events(s)) = Len(s) /\ DOMAIN Events(s) = DOMAIN s /\ DOMAIN s = 1..Len(s)
           /\ \A i \in DOMAIN s : Events(s)[i] = s[i].event
  <1>1. DOMAIN s = 1..Len(s) /\ Len(s) \in Nat /\ \A i \in 1..Len(s) : s[i].event \in AnyEvent
    <2>1. DOMAIN s = 1..Len(s) /\ Len(s) \in Nat
      OBVIOUS
    <2>2. \A i \in 1..Len(s) : s[i] \in AnyEntry
      OBVIOUS
    <2> QED  BY <2>1, <2>2 DEF AnyEntry
  <1>2. Events(s) = [i \in 1..Len(s) |-> s[i].event]
    BY <1>1 DEF Events
  <1>3. Events(s) \in Seq(AnyEvent)
    BY <1>1, <1>2
  <1>4. Len(Events(s)) = Len(s)
    BY <1>1, <1>2
  <1> QED  BY <1>1, <1>2, <1>3, <1>4

LEMMA EventsOfConcat ==
    ASSUME NEW a \in Seq(AnyEntry), NEW b \in Seq(AnyEntry)
    PROVE  Events(a \o b) = Events(a) \o Events(b)
  <1>1. a \o b \in Seq(AnyEntry)
    BY ConcatProperties
  <1>2. /\ Len(a \o b) = Len(a) + Len(b) /\ Len(a) \in Nat /\ Len(b) \in Nat
        /\ \A i \in 1..(Len(a) + Len(b)) : (a \o b)[i] = IF i <= Len(a) THEN a[i] ELSE b[i - Len(a)]
    BY ConcatProperties
  <1>3. /\ Events(a) \in Seq(AnyEvent) /\ Events(b) \in Seq(AnyEvent)
        /\ Len(Events(a)) = Len(a) /\ Len(Events(b)) = Len(b)
        /\ \A i \in 1..Len(a) : Events(a)[i] = a[i].event
        /\ \A i \in 1..Len(b) : Events(b)[i] = b[i].event
    BY EventsType
  <1>4. /\ Events(a \o b) \in Seq(AnyEvent) /\ Len(Events(a \o b)) = Len(a \o b)
        /\ \A i \in 1..Len(a \o b) : Events(a \o b)[i] = (a \o b)[i].event
    BY <1>1, EventsType
  <1> DEFINE u == Events(a) \o Events(b)
  <1>5. /\ u \in Seq(AnyEvent) /\ Len(u) = Len(a) + Len(b)
        /\ \A i \in 1..(Len(a) + Len(b)) :
              u[i] = IF i <= Len(a) THEN Events(a)[i] ELSE Events(b)[i - Len(a)]
    <2>1. Events(a) \in Seq(AnyEvent) /\ Events(b) \in Seq(AnyEvent)
      BY <1>3
    <2>2. /\ u \in Seq(AnyEvent) /\ Len(u) = Len(Events(a)) + Len(Events(b))
          /\ \A i \in 1..(Len(Events(a)) + Len(Events(b))) :
                u[i] = IF i <= Len(Events(a)) THEN Events(a)[i] ELSE Events(b)[i - Len(Events(a))]
      BY <2>1, ConcatProperties
    <2> QED  BY <1>3, <2>2
  <1> HIDE DEF u
  <1>6. ASSUME NEW i \in 1..(Len(a) + Len(b)) PROVE Events(a \o b)[i] = u[i]
    <2>1. CASE i <= Len(a)
      <3>1. i \in 1..Len(a) /\ i \in 1..Len(a \o b)
        BY <1>2, <2>1
      <3> QED  BY <1>2, <1>3, <1>4, <1>5, <2>1, <3>1
    <2>2. CASE ~(i <= Len(a))
      <3>1. i - Len(a) \in 1..Len(b)
        BY <1>2, <2>2
      <3> QED  BY <1>2, <1>3, <1>4, <1>5, <2>2, <3>1
    <2> QED  BY <2>1, <2>2
  <1>7. Events(a \o b) = u
    BY <1>2, <1>4, <1>5, <1>6, SeqEqual
  <1> QED  BY <1>7 DEF u

(* Parts of sequences                                                      *)

\* p is what remains of s when some elements are left out.
IsPart(e, p, s) ==
    /\ e \in [1..Len(p) -> 1..Len(s)]
    /\ \A k, l \in 1..Len(p) : k < l => e[k] < e[l]
    /\ \A k \in 1..Len(p) : p[k] = s[e[k]]

Part(p, s) == Len(p) <= Len(s) /\ \E e : IsPart(e, p, s)

LEMMA PickedIsPart ==
    ASSUME NEW S, NEW s \in Seq(S), NEW I
    PROVE  Part(Picked(s, I), s)
  <1>1. PICK e : Embeds(e, Picked(s, I), s, I, Len(s))
    BY PickedProperties
  <1>2. IsPart(e, Picked(s, I), s)
    BY <1>1 DEF Embeds, IsPart
  <1> QED  BY <1>2, PickedProperties DEF Part

LEMMA SubSeqIsPart ==
    ASSUME NEW S, NEW s \in Seq(S), NEW m \in Nat \ {0}, NEW n \in 0..Len(s), m <= n + 1
    PROVE  /\ SubSeq(s, m, n) \in Seq(S)
           /\ Len(SubSeq(s, m, n)) = n - m + 1
           /\ Part(SubSeq(s, m, n), s)
  <1> DEFINE p == SubSeq(s, m, n)
             e == [k \in 1..(n - m + 1) |-> m + k - 1]
  <1>1. Len(s) \in Nat /\ \A i \in m..n : s[i] \in S
    OBVIOUS
  <1>2. /\ p \in Seq(S) /\ Len(p) = n - m + 1
        /\ \A i \in 1..(n - m + 1) : p[i] = s[m + i - 1]
    BY <1>1, SubSeqProperties
  <1> HIDE DEF p
  <1>3. e \in [1..Len(p) -> 1..Len(s)]
    BY <1>1, <1>2
  <1>4. \A k, l \in 1..Len(p) : k < l => e[k] < e[l]
    BY <1>2
  <1>5. \A k \in 1..Len(p) : p[k] = s[e[k]]
    BY <1>2
  <1> HIDE DEF e
  <1>6. Part(p, s)
    <2>1. IsPart(e, p, s)
      BY <1>3, <1>4, <1>5 DEF IsPart
    <2>2. Len(p) <= Len(s)
      BY <1>1, <1>2
    <2> QED  BY <2>1, <2>2 DEF Part
  <1> QED  BY <1>2, <1>6 DEF p

LEMMA PartOfPart ==
    ASSUME NEW p, NEW s, NEW t, Len(p) \in Nat, Len(s) \in Nat, Len(t) \in Nat,
           Part(p, s), Part(s, t)
    PROVE  Part(p, t)
  <1>1. PICK d : IsPart(d, p, s)
    BY DEF Part
  <1>2. PICK e : IsPart(e, s, t)
    BY DEF Part
  <1> DEFINE f == [k \in 1..Len(p) |-> e[d[k]]]
  <1>3. f \in [1..Len(p) -> 1..Len(t)]
    BY <1>1, <1>2 DEF IsPart
  <1>4. ASSUME NEW k \in 1..Len(p), NEW l \in 1..Len(p), k < l PROVE f[k] < f[l]
    <2>1. d[k] \in 1..Len(s) /\ d[l] \in 1..Len(s) /\ d[k] < d[l]
      BY <1>1, <1>4 DEF IsPart
    <2> QED  BY <1>2, <2>1 DEF IsPart
  <1>5. \A k \in 1..Len(p) : p[k] = t[f[k]]
    BY <1>1, <1>2 DEF IsPart
  <1> HIDE DEF f
  <1>6. IsPart(f, p, t)
    BY <1>3, <1>4, <1>5 DEF IsPart
  <1> QED  BY <1>6 DEF Part

\* The events of a part of a queue are a part of its events.
LEMMA EventsOfPart ==
    ASSUME NEW p \in Seq(AnyEntry), NEW s \in Seq(AnyEntry), Part(p, s)
    PROVE  Part(Events(p), Events(s))
  <1>1. PICK e : IsPart(e, p, s)
    BY DEF Part
  <1>2. /\ Len(Events(p)) = Len(p) /\ \A k \in 1..Len(p) : Events(p)[k] = p[k].event
        /\ Len(Events(s)) = Len(s) /\ \A k \in 1..Len(s) : Events(s)[k] = s[k].event
    BY EventsType
  <1>3. \A k \in 1..Len(p) : e[k] \in 1..Len(s) /\ Events(p)[k] = Events(s)[e[k]]
    BY <1>1, <1>2 DEF IsPart
  <1>4. IsPart(e, Events(p), Events(s))
    <2> HIDE DEF AnyEntry
    <2> QED  BY <1>1, <1>2, <1>3 DEF IsPart
  <1>5. Len(Events(p)) <= Len(Events(s))
    BY <1>2 DEF Part
  <1> QED  BY <1>4, <1>5 DEF Part

\* Two sequences put together, with the types that the provers need to see.
LEMMA Concat ==
    ASSUME NEW S, NEW a \in Seq(S), NEW b \in Seq(S)
    PROVE  /\ a \o b \in Seq(S)
           /\ Len(a) \in Nat /\ Len(b) \in Nat /\ Len(a \o b) = Len(a) + Len(b)
           /\ \A i \in 1..Len(a) : i \in 1..Len(a \o b) /\ (a \o b)[i] = a[i]
           /\ \A j \in 1..Len(b) : Len(a) + j \in 1..Len(a \o b) /\ (a \o b)[Len(a) + j] = b[j]
           /\ \A i \in 1..Len(a \o b) : i \in 1..Len(a) \/ \E j \in 1..Len(b) : i = Len(a) + j
  <1>1. /\ a \o b \in Seq(S) /\ Len(a) \in Nat /\ Len(b) \in Nat /\ Len(a \o b) = Len(a) + Len(b)
        /\ \A i \in 1..(Len(a) + Len(b)) : (a \o b)[i] = IF i <= Len(a) THEN a[i] ELSE b[i - Len(a)]
    BY ConcatProperties
  <1>2. \A i \in 1..Len(a) : i \in 1..Len(a \o b) /\ (a \o b)[i] = a[i]
    BY <1>1
  <1>3. ASSUME NEW j \in 1..Len(b) PROVE Len(a) + j \in 1..Len(a \o b) /\ (a \o b)[Len(a) + j] = b[j]
    <2>1. Len(a) + j \in 1..(Len(a) + Len(b)) /\ ~(Len(a) + j <= Len(a)) /\ (Len(a) + j) - Len(a) = j
      BY <1>1
    <2> QED  BY <1>1, <2>1
  <1>4. ASSUME NEW i \in 1..Len(a \o b), i \notin 1..Len(a)
        PROVE \E j \in 1..Len(b) : i = Len(a) + j
    <2>1. i - Len(a) \in 1..Len(b) /\ i = Len(a) + (i - Len(a))
      BY <1>1, <1>4
    <2> QED  BY <2>1
  <1> QED  BY <1>1, <1>2, <1>3, <1>4

-----------------------------------------------------------------------------
(* The order of events                                                     *)

\* The order in which b may come after a: what the daemon promises of two events
Follows(a, b) == a.id # b.id /\ (~Deduplicate => a.id < b.id)

Between(a, b) == \A i \in 1..Len(a), j \in 1..Len(b) : Follows(a[i], b[j])

Ordered(s) == \A i, j \in 1..Len(s) : i < j => Follows(s[i], s[j])

UpTo(s, n) == \A i \in 1..Len(s) : s[i].id <= n

\* The ids of p are ids of s.
Within(p, s) == \A k \in 1..Len(p) : \E i \in 1..Len(s) : p[k].id = s[i].id

LEMMA OrderedConcat ==
    ASSUME NEW a \in Seq(AnyEvent), NEW b \in Seq(AnyEvent)
    PROVE  Ordered(a \o b) <=> Ordered(a) /\ Ordered(b) /\ Between(a, b)
  <1>1. /\ Len(a) \in Nat /\ Len(b) \in Nat
        /\ \A i \in 1..Len(a) : i \in 1..Len(a \o b) /\ (a \o b)[i] = a[i]
        /\ \A j \in 1..Len(b) : Len(a) + j \in 1..Len(a \o b) /\ (a \o b)[Len(a) + j] = b[j]
        /\ \A i \in 1..Len(a \o b) : i \in 1..Len(a) \/ \E j \in 1..Len(b) : i = Len(a) + j
    <2> HIDE DEF AnyEvent
    <2> QED  BY Concat
  <1>2. ASSUME Ordered(a \o b) PROVE Ordered(a) /\ Ordered(b) /\ Between(a, b)
    <2>1. Ordered(a)
      BY <1>1, <1>2 DEF Ordered
    <2>2. Ordered(b)
      <3>1. ASSUME NEW i \in 1..Len(b), NEW j \in 1..Len(b), i < j PROVE Follows(b[i], b[j])
        <4>1. Len(a) + i < Len(a) + j
          BY <1>1, <3>1
        <4> QED  BY <1>1, <1>2, <4>1 DEF Ordered
      <3> QED  BY <3>1 DEF Ordered
    <2>3. Between(a, b)
      <3>1. ASSUME NEW i \in 1..Len(a), NEW j \in 1..Len(b) PROVE Follows(a[i], b[j])
        <4>1. i < Len(a) + j
          BY <1>1
        <4> QED  BY <1>1, <1>2, <4>1 DEF Ordered
      <3> QED  BY <3>1 DEF Between
    <2> QED  BY <2>1, <2>2, <2>3
  <1>3. ASSUME Ordered(a), Ordered(b), Between(a, b),
               NEW i \in 1..Len(a \o b), NEW j \in 1..Len(a \o b), i < j
        PROVE  Follows((a \o b)[i], (a \o b)[j])
    <2>1. CASE i \in 1..Len(a) /\ j \in 1..Len(a)
      BY <1>1, <1>3, <2>1 DEF Ordered
    <2>2. CASE i \in 1..Len(a) /\ j \notin 1..Len(a)
      <3>1. PICK l \in 1..Len(b) : j = Len(a) + l
        BY <1>1, <2>2
      <3> QED  BY <1>1, <1>3, <2>2, <3>1 DEF Between
    <2>3. CASE i \notin 1..Len(a)
      <3>1. PICK k \in 1..Len(b) : i = Len(a) + k
        BY <1>1, <2>3
      <3>2. j \notin 1..Len(a)
        BY <1>1, <1>3, <3>1
      <3>3. PICK l \in 1..Len(b) : j = Len(a) + l
        BY <1>1, <3>2
      <3>4. k < l
        BY <1>1, <1>3, <3>1, <3>3
      <3> QED  BY <1>1, <1>3, <3>1, <3>3, <3>4 DEF Ordered
    <2> QED  BY <2>1, <2>2, <2>3
  <1> QED  BY <1>2, <1>3 DEF Ordered

LEMMA BetweenConcat ==
    ASSUME NEW a \in Seq(AnyEvent), NEW b \in Seq(AnyEvent), NEW c \in Seq(AnyEvent)
    PROVE  /\ Between(a \o b, c) <=> Between(a, c) /\ Between(b, c)
           /\ Between(c, a \o b) <=> Between(c, a) /\ Between(c, b)
  <1>1. /\ \A i \in 1..Len(a) : i \in 1..Len(a \o b) /\ (a \o b)[i] = a[i]
        /\ \A j \in 1..Len(b) : Len(a) + j \in 1..Len(a \o b) /\ (a \o b)[Len(a) + j] = b[j]
        /\ \A i \in 1..Len(a \o b) : i \in 1..Len(a) \/ \E j \in 1..Len(b) : i = Len(a) + j
    <2> HIDE DEF AnyEvent
    <2> QED  BY Concat
  <1> QED  BY <1>1 DEF Between

LEMMA UpToConcat ==
    ASSUME NEW a \in Seq(AnyEvent), NEW b \in Seq(AnyEvent), NEW n
    PROVE  UpTo(a \o b, n) <=> UpTo(a, n) /\ UpTo(b, n)
  <1>1. /\ \A i \in 1..Len(a) : i \in 1..Len(a \o b) /\ (a \o b)[i] = a[i]
        /\ \A j \in 1..Len(b) : Len(a) + j \in 1..Len(a \o b) /\ (a \o b)[Len(a) + j] = b[j]
        /\ \A i \in 1..Len(a \o b) : i \in 1..Len(a) \/ \E j \in 1..Len(b) : i = Len(a) + j
    <2> HIDE DEF AnyEvent
    <2> QED  BY Concat
  <1> QED  BY <1>1 DEF UpTo

LEMMA WithinKeeps ==
    ASSUME NEW p \in Seq(AnyEvent), NEW s \in Seq(AnyEvent), NEW t \in Seq(AnyEvent), NEW n,
           Within(p, s)
    PROVE  /\ Between(s, t) => Between(p, t)
           /\ Between(t, s) => Between(t, p)
           /\ UpTo(s, n) => UpTo(p, n)
  BY DEF Within, Between, UpTo, Follows

LEMMA PartKeeps ==
    ASSUME NEW p \in Seq(AnyEvent), NEW s \in Seq(AnyEvent), Part(p, s)
    PROVE  /\ Within(p, s)
           /\ Ordered(s) => Ordered(p)
  <1>1. PICK e : IsPart(e, p, s)
    BY DEF Part
  <1>2. Within(p, s)
    BY <1>1 DEF IsPart, Within
  <1>3. ASSUME Ordered(s) PROVE Ordered(p)
    <2>1. ASSUME NEW i \in 1..Len(p), NEW j \in 1..Len(p), i < j PROVE Follows(p[i], p[j])
      <3>1. /\ e[i] \in 1..Len(s) /\ e[j] \in 1..Len(s) /\ e[i] < e[j]
            /\ p[i] = s[e[i]] /\ p[j] = s[e[j]]
        BY <1>1, <2>1 DEF IsPart
      <3> QED  BY <1>3, <3>1 DEF Ordered
    <2> QED  BY <2>1 DEF Ordered
  <1> QED  BY <1>2, <1>3

-----------------------------------------------------------------------------
(* Occurrences                                                             *)

\* A finite set bounds the size of what maps into it one to one.
LEMMA InjectionBound ==
    ASSUME NEW S, NEW T, IsFiniteSet(T), NEW g \in [S -> T], \A x, y \in S : g[x] = g[y] => x = y
    PROVE  /\ IsFiniteSet(S)
           /\ Cardinality(S) \in Nat /\ Cardinality(T) \in Nat /\ Cardinality(S) <= Cardinality(T)
  <1>1. g \in Injection(S, T)
    BY DEF Injection, IsInjective
  <1>2. IsFiniteSet(S) /\ Cardinality(S) <= Cardinality(T)
    BY <1>1, FS_Injection
  <1> QED  BY <1>2, FS_CardinalityType

LEMMA DisjointUnion ==
    ASSUME NEW S, NEW T, IsFiniteSet(S), IsFiniteSet(T), \A x \in S : x \notin T
    PROVE  IsFiniteSet(S \cup T) /\ Cardinality(S \cup T) = Cardinality(S) + Cardinality(T)
  <1>1. S \cap T = {}
    OBVIOUS
  <1>2. Cardinality(S \cap T) = 0
    BY <1>1, FS_EmptySet
  <1>3. Cardinality(S) \in Nat /\ Cardinality(T) \in Nat
    BY FS_CardinalityType
  <1>4. /\ IsFiniteSet(S \cup T)
        /\ Cardinality(S \cup T) = Cardinality(S) + Cardinality(T) - Cardinality(S \cap T)
    BY FS_Union
  <1> QED  BY <1>2, <1>3, <1>4

\* One pair for each occurrence: the place of the event and a number up to its count
OccSet(evs) == UNION {{i} \X (1..evs[i].count) : i \in DOMAIN evs}

LEMMA OccSetProperties ==
    ASSUME NEW evs \in Seq(AnyEvent)
    PROVE  /\ Occurrences(evs) = Cardinality(OccSet(evs))
           /\ IsFiniteSet(OccSet(evs)) /\ Occurrences(evs) \in Nat
           /\ OccSet(evs) = {x \in Nat \X Nat : x[1] \in 1..Len(evs) /\ x[2] \in 1..evs[x[1]].count}
           /\ \A i \in 1..Len(evs), c \in Nat \ {0} :
                 <<i, c>> \in OccSet(evs) <=> c <= evs[i].count
  <1> DEFINE f == [i \in 1..Len(evs) |-> {i} \X (1..evs[i].count)]
             S == {f[i] : i \in 1..Len(evs)}
  <1>1. DOMAIN evs = 1..Len(evs) /\ Len(evs) \in Nat /\ \A i \in 1..Len(evs) : evs[i].count \in Nat \ {0}
    <2>1. DOMAIN evs = 1..Len(evs) /\ Len(evs) \in Nat
      OBVIOUS
    <2>2. \A i \in 1..Len(evs) : evs[i] \in AnyEvent
      OBVIOUS
    <2> QED  BY <2>1, <2>2 DEF AnyEvent
  <1>2. OccSet(evs) = UNION S
    BY <1>1 DEF OccSet
  <1>3. IsFiniteSet(S)
    <2>1. f \in Surjection(1..Len(evs), S)
      BY DEF Surjection
    <2>2. IsFiniteSet(1..Len(evs))
      BY <1>1, FS_Interval
    <2> HIDE DEF f, S
    <2> QED  BY <2>1, <2>2, FS_Surjection
  <1>4. ASSUME NEW T \in S PROVE IsFiniteSet(T)
    <2>1. PICK i \in 1..Len(evs) : T = {i} \X (1..evs[i].count)
      OBVIOUS
    <2>2. IsFiniteSet({i})
      BY FS_Singleton
    <2>3. IsFiniteSet(1..evs[i].count)
      <3>1. evs[i].count \in Int /\ 1 \in Int
        BY <1>1
      <3> QED  BY <3>1, FS_Interval
    <2> QED  BY <2>1, <2>2, <2>3, FS_Product
  <1>5. IsFiniteSet(UNION S)
    <2> HIDE DEF S
    <2> QED  BY <1>3, <1>4, FS_UNION
  <1>6. OccSet(evs) = {x \in Nat \X Nat : x[1] \in 1..Len(evs) /\ x[2] \in 1..evs[x[1]].count}
    <2>1. ASSUME NEW x \in OccSet(evs)
          PROVE  x \in Nat \X Nat /\ x[1] \in 1..Len(evs) /\ x[2] \in 1..evs[x[1]].count
      <3>1. PICK i \in 1..Len(evs) : x \in {i} \X (1..evs[i].count)
        BY <1>1 DEF OccSet
      <3> QED  BY <1>1, <3>1
    <2>2. ASSUME NEW x \in Nat \X Nat, x[1] \in 1..Len(evs), x[2] \in 1..evs[x[1]].count
          PROVE  x \in OccSet(evs)
      <3>1. x \in {x[1]} \X (1..evs[x[1]].count)
        BY <2>2
      <3> QED  BY <1>1, <2>2, <3>1 DEF OccSet
    <2> QED  BY <2>1, <2>2
  <1>7. ASSUME NEW i \in 1..Len(evs), NEW c \in Nat \ {0}
        PROVE  <<i, c>> \in OccSet(evs) <=> c <= evs[i].count
    <2>1. <<i, c>> \in Nat \X Nat /\ <<i, c>>[1] = i /\ <<i, c>>[2] = c
      OBVIOUS
    <2> HIDE DEF OccSet
    <2> QED  BY <1>1, <1>6, <2>1
  <1>8. Occurrences(evs) = Cardinality(OccSet(evs))
    BY DEF Occurrences, OccSet
  <1> HIDE DEF S, f
  <1>9. Occurrences(evs) \in Nat
    BY <1>2, <1>5, <1>8, FS_CardinalityType
  <1> QED  BY <1>2, <1>5, <1>6, <1>7, <1>8, <1>9

LEMMA OccEmpty == Occurrences(<<>>) = 0
  <1>1. OccSet(<<>>) = {}
    BY DEF OccSet
  <1> QED  BY <1>1, FS_EmptySet DEF Occurrences, OccSet

LEMMA OccOne ==
    ASSUME NEW ev \in AnyEvent
    PROVE  Occurrences(<<ev>>) = ev.count
  <1>1. <<ev>> \in Seq(AnyEvent) /\ Len(<<ev>>) = 1 /\ <<ev>>[1] = ev /\ ev.count \in Nat \ {0}
    BY DEF AnyEvent
  <1> DEFINE s == <<ev>>
  <1>2. OccSet(s) = {x \in Nat \X Nat : x[1] \in 1..Len(s) /\ x[2] \in 1..s[x[1]].count}
    BY <1>1, OccSetProperties
  <1>3. OccSet(s) = {1} \X (1..ev.count)
    BY <1>1, <1>2
  <1>4. IsFiniteSet({1}) /\ Cardinality({1}) = 1
    BY FS_Singleton
  <1>5. IsFiniteSet(1..ev.count) /\ Cardinality(1..ev.count) = ev.count
    <2>1. ev.count \in Int /\ 1 \in Int /\ ~(1 > ev.count) /\ ev.count - 1 + 1 = ev.count
      BY <1>1
    <2>2. IsFiniteSet(1..ev.count) /\ Cardinality(1..ev.count) = ev.count - 1 + 1
      BY <2>1, FS_Interval
    <2> QED  BY <2>1, <2>2
  <1>6. Cardinality({1} \X (1..ev.count)) = 1 * ev.count
    <2> DEFINE U == {1}
               T == 1..ev.count
    <2>1. IsFiniteSet(U) /\ IsFiniteSet(T) /\ Cardinality(U) = 1 /\ Cardinality(T) = ev.count
      BY <1>4, <1>5
    <2> HIDE DEF U, T
    <2>2. Cardinality(U \X T) = Cardinality(U) * Cardinality(T)
      BY <2>1, FS_Product
    <2>3. Cardinality(U \X T) = 1 * ev.count
      BY <2>1, <2>2
    <2> QED  BY <2>3 DEF U, T
  <1>7. Occurrences(s) = Cardinality(OccSet(s))
    BY <1>1, OccSetProperties
  <1>8. 1 * ev.count = ev.count
    BY <1>1
  <1> QED  BY <1>3, <1>6, <1>7, <1>8

LEMMA OccConcat ==
    ASSUME NEW a \in Seq(AnyEvent), NEW b \in Seq(AnyEvent)
    PROVE  Occurrences(a \o b) = Occurrences(a) + Occurrences(b)
  <1> DEFINE B == {x \in OccSet(a \o b) : x[1] \notin 1..Len(a)}
             g == [x \in OccSet(b) |-> <<Len(a) + x[1], x[2]>>]
             A == OccSet(a)
             C == OccSet(b)
  <1>1. /\ a \o b \in Seq(AnyEvent) /\ Len(a) \in Nat /\ Len(b) \in Nat /\ Len(a \o b) = Len(a) + Len(b)
        /\ \A i \in 1..Len(a) : i \in 1..Len(a \o b) /\ (a \o b)[i] = a[i]
        /\ \A j \in 1..Len(b) : Len(a) + j \in 1..Len(a \o b) /\ (a \o b)[Len(a) + j] = b[j]
        /\ \A i \in 1..Len(a \o b) : i \in 1..Len(a) \/ \E j \in 1..Len(b) : i = Len(a) + j
    <2> HIDE DEF AnyEvent
    <2> QED  BY Concat
  <1> DEFINE c == a \o b
  <1>2. /\ OccSet(c) = {x \in Nat \X Nat : x[1] \in 1..Len(c) /\ x[2] \in 1..c[x[1]].count}
        /\ OccSet(a) = {x \in Nat \X Nat : x[1] \in 1..Len(a) /\ x[2] \in 1..a[x[1]].count}
        /\ OccSet(b) = {x \in Nat \X Nat : x[1] \in 1..Len(b) /\ x[2] \in 1..b[x[1]].count}
    BY <1>1, OccSetProperties
  <1>3. OccSet(c) = A \cup B
    BY <1>1, <1>2
  <1>4. \A x \in A : x \notin B
    BY <1>2
  <1>5. g \in [C -> B]
    <2>1. ASSUME NEW x \in C PROVE <<Len(a) + x[1], x[2]>> \in B
      <3>1. x \in Nat \X Nat /\ x[1] \in 1..Len(b) /\ x[2] \in 1..b[x[1]].count
        BY <1>2
      <3>2. Len(a) + x[1] \in 1..Len(c) /\ c[Len(a) + x[1]] = b[x[1]] /\ Len(a) + x[1] \notin 1..Len(a)
        BY <1>1, <3>1
      <3>3. <<Len(a) + x[1], x[2]>> \in Nat \X Nat
        BY <1>1, <3>1
      <3> QED  BY <1>2, <3>1, <3>2, <3>3
    <2> QED  BY <2>1
  <1>6. ASSUME NEW x \in C, NEW y \in C, g[x] = g[y] PROVE x = y
    <2>1. x \in Nat \X Nat /\ y \in Nat \X Nat
      BY <1>2
    <2>2. Len(a) + x[1] = Len(a) + y[1] /\ x[2] = y[2]
      BY <1>6
    <2>3. x[1] = y[1]
      BY <1>1, <2>1, <2>2
    <2> QED  BY <2>1, <2>2, <2>3
  <1>7. ASSUME NEW y \in B PROVE \E x \in C : g[x] = y
    <2>1. y \in Nat \X Nat /\ y[1] \in 1..Len(c) /\ y[2] \in 1..c[y[1]].count /\ y[1] \notin 1..Len(a)
      BY <1>2
    <2>2. PICK j \in 1..Len(b) : y[1] = Len(a) + j
      BY <1>1, <2>1
    <2>3. <<j, y[2]>> \in C
      <3>1. <<j, y[2]>> \in Nat \X Nat /\ y[2] \in 1..b[j].count
        BY <1>1, <2>1, <2>2
      <3> QED  BY <1>2, <3>1
    <2>4. g[<<j, y[2]>>] = y
      BY <2>1, <2>2, <2>3
    <2> QED  BY <2>3, <2>4
  <1>8. IsFiniteSet(A) /\ IsFiniteSet(C) /\ IsFiniteSet(OccSet(c))
    BY <1>1, OccSetProperties
  <1> HIDE DEF g
  <1>9. IsFiniteSet(B) /\ Cardinality(B) = Cardinality(C)
    <2>1. g \in Bijection(C, B)
      BY <1>5, <1>6, <1>7 DEF Bijection, Injection, IsInjective, Surjection
    <2>2. ExistsBijection(C, B)
      BY <2>1 DEF ExistsBijection
    <2> HIDE DEF B, C
    <2> QED  BY <1>8, <2>2, FS_Bijection
  <1> HIDE DEF A, B, C
  <1>10. Cardinality(OccSet(c)) = Cardinality(A) + Cardinality(C)
    BY <1>3, <1>4, <1>8, <1>9, DisjointUnion
  <1> QED  BY <1>1, <1>10, OccSetProperties DEF A, C

-----------------------------------------------------------------------------
(* What becomes of a queue when an event is added                          *)

KeysDiffer(s) == \A i, j \in 1..Len(s) : s[i].key = s[j].key => i = j

LEMMA KeysOfPart ==
    ASSUME NEW p, NEW s, Part(p, s), KeysDiffer(s), Len(p) \in Nat
    PROVE  KeysDiffer(p)
  <1>1. PICK e : IsPart(e, p, s)
    BY DEF Part
  <1>2. ASSUME NEW i \in 1..Len(p), NEW j \in 1..Len(p), p[i].key = p[j].key, i < j PROVE FALSE
    <2>1. /\ e[i] \in 1..Len(s) /\ e[j] \in 1..Len(s) /\ e[i] < e[j]
          /\ p[i] = s[e[i]] /\ p[j] = s[e[j]]
      BY <1>1, <1>2 DEF IsPart
    <2>2. e[i] = e[j]
      BY <1>2, <2>1 DEF KeysDiffer
    <2> QED  BY <2>1, <2>2
  <1>3. \A i, j \in 1..Len(p) : i # j => i < j \/ j < i
    OBVIOUS
  <1> QED  BY <1>2, <1>3 DEF KeysDiffer

LEMMA PartOfItself ==
    ASSUME NEW S, NEW s \in Seq(S)
    PROVE  Part(s, s)
  <1> DEFINE e == [k \in 1..Len(s) |-> k]
  <1>1. IsPart(e, s, s) /\ Len(s) \in Nat
    BY DEF IsPart
  <1> QED  BY <1>1 DEF Part

LEMMA EntryType ==
    ASSUME NEW ev \in AnyEvent
    PROVE  /\ Fingerprint(ev) \in Kinds \X (Nat \ {0})
           /\ Entry(ev) \in AnyEntry /\ Entry(ev).event = ev /\ Entry(ev).key = Fingerprint(ev)
           /\ Fingerprint(ev)[1] = ev.kind /\ Fingerprint(ev)[2] = ev.count
  BY DEF AnyEvent, AnyEntry, Entry, Fingerprint

LEMMA OccAppend ==
    ASSUME NEW s \in Seq(AnyEntry), NEW x \in AnyEntry
    PROVE  /\ Events(Append(s, x)) = Events(s) \o <<x.event>>
           /\ Occurrences(Events(Append(s, x))) = Occurrences(Events(s)) + x.event.count
  <1>1. Append(s, x) = s \o <<x>> /\ <<x>> \in Seq(AnyEntry)
    BY AppendIsConcat
  <1>2. x.event \in AnyEvent
    BY DEF AnyEntry
  <1>3. Events(<<x>>) = <<x.event>>
    BY DEF Events
  <1>4. Events(Append(s, x)) = Events(s) \o <<x.event>>
    BY <1>1, <1>3, EventsOfConcat
  <1>5. Events(s) \in Seq(AnyEvent) /\ <<x.event>> \in Seq(AnyEvent)
    BY <1>2, EventsType
  <1> QED  BY <1>2, <1>4, <1>5, OccConcat, OccOne

\* An element is taken out of a queue.
LEMMA RemoveAtProperties ==
    ASSUME NEW s \in Seq(AnyEntry), NEW i \in 1..Len(s)
    PROVE  /\ RemoveAt(s, i) \in Seq(AnyEntry)
           /\ Len(RemoveAt(s, i)) = Len(s) - 1
           /\ Part(RemoveAt(s, i), s)
           /\ \A k \in 1..Len(s) : k # i => \E l \in 1..Len(RemoveAt(s, i)) : RemoveAt(s, i)[l] = s[k]
           /\ \A l \in 1..Len(RemoveAt(s, i)) : \E k \in 1..Len(s) : k # i /\ RemoveAt(s, i)[l] = s[k]
           /\ Occurrences(Events(s)) = Occurrences(Events(RemoveAt(s, i))) + s[i].event.count
  <1> DEFINE a == SubSeq(s, 1, i - 1)
             b == SubSeq(s, i + 1, Len(s))
             r == a \o b
  <1>0. Len(s) \in Nat /\ i \in Nat \ {0} /\ i <= Len(s) /\ \A k \in 1..Len(s) : s[k] \in AnyEntry
    OBVIOUS
  <1>1. /\ a \in Seq(AnyEntry) /\ Len(a) = i - 1
        /\ \A k \in 1..(i - 1) : a[k] = s[k]
    <2>1. \A k \in 1..(i - 1) : s[k] \in AnyEntry
      BY <1>0
    <2>2. 1 \in Int /\ i - 1 \in Int
      BY <1>0
    <2>3. /\ a \in Seq(AnyEntry) /\ Len(a) = IF 1 <= i - 1 THEN i - 1 - 1 + 1 ELSE 0
          /\ \A k \in 1..(i - 1 - 1 + 1) : a[k] = s[1 + k - 1]
      BY <2>1, <2>2, SubSeqProperties
    <2> QED  BY <1>0, <2>3
  <1>2. /\ b \in Seq(AnyEntry) /\ Len(b) = Len(s) - i
        /\ \A k \in 1..(Len(s) - i) : b[k] = s[i + k]
    <2>1. \A k \in (i + 1)..Len(s) : s[k] \in AnyEntry
      BY <1>0
    <2>2. i + 1 \in Int /\ Len(s) \in Int
      BY <1>0
    <2>3. /\ b \in Seq(AnyEntry)
          /\ Len(b) = IF i + 1 <= Len(s) THEN Len(s) - (i + 1) + 1 ELSE 0
          /\ \A k \in 1..(Len(s) - (i + 1) + 1) : b[k] = s[i + 1 + k - 1]
      BY <2>1, <2>2, SubSeqProperties
    <2> QED  BY <1>0, <2>3
  <1> HIDE DEF a, b
  <1>3. /\ r \in Seq(AnyEntry) /\ Len(r) = Len(s) - 1
        /\ \A k \in 1..Len(r) : r[k] = IF k < i THEN s[k] ELSE s[k + 1]
    <2>1. /\ r \in Seq(AnyEntry) /\ Len(r) = Len(a) + Len(b)
          /\ \A k \in 1..(Len(a) + Len(b)) : r[k] = IF k <= Len(a) THEN a[k] ELSE b[k - Len(a)]
      <3> HIDE DEF AnyEntry
      <3> QED  BY <1>1, <1>2, ConcatProperties
    <2>2. Len(r) = Len(s) - 1
      BY <1>0, <1>1, <1>2, <2>1
    <2>3. ASSUME NEW k \in 1..Len(r) PROVE r[k] = IF k < i THEN s[k] ELSE s[k + 1]
      <3>1. CASE k < i
        BY <1>0, <1>1, <2>1, <2>2, <3>1
      <3>2. CASE ~(k < i)
        <4>1. k - Len(a) = k - i + 1 /\ k - i + 1 \in 1..(Len(s) - i) /\ i + (k - i + 1) = k + 1
          BY <1>0, <1>1, <2>2, <3>2
        <4> QED  BY <1>0, <1>1, <1>2, <2>1, <2>2, <3>2, <4>1
      <3> QED  BY <3>1, <3>2
    <2> QED  BY <2>1, <2>2, <2>3
  <1>4. RemoveAt(s, i) = r
    BY DEF RemoveAt, a, b
  <1>5. Occurrences(Events(s)) = Occurrences(Events(r)) + s[i].event.count
    <2> DEFINE t == Append(a, s[i])
    <2>1. t \in Seq(AnyEntry) /\ Len(t) = i /\ \A k \in 1..i : t[k] = s[k]
      BY <1>0, <1>1, AppendProperties
    <2>2. /\ t \o b \in Seq(AnyEntry) /\ Len(t \o b) = Len(t) + Len(b)
          /\ \A k \in 1..(Len(t) + Len(b)) : (t \o b)[k] = IF k <= Len(t) THEN t[k] ELSE b[k - Len(t)]
      <3> HIDE DEF t, AnyEntry
      <3> QED  BY <1>2, <2>1, ConcatProperties
    <2> HIDE DEF t
    <2>3. t \o b = s
      <3>1. Len(t \o b) = Len(s)
        BY <1>0, <1>2, <2>1, <2>2
      <3>2. ASSUME NEW k \in 1..Len(s) PROVE (t \o b)[k] = s[k]
        <4>1. CASE k <= i
          BY <1>0, <1>2, <2>1, <2>2, <4>1
        <4>2. CASE ~(k <= i)
          <5>1. k - i \in 1..(Len(s) - i) /\ i + (k - i) = k
            BY <1>0, <4>2
          <5> QED  BY <1>0, <1>2, <2>1, <2>2, <4>2, <5>1
        <4> QED  BY <4>1, <4>2
      <3> QED  BY <2>2, <3>1, <3>2, SeqEqual
    <2>4. s[i] \in AnyEntry /\ s[i].event.count \in Nat
      BY <1>0 DEF AnyEntry, AnyEvent
    <2>5. Occurrences(Events(t)) = Occurrences(Events(a)) + s[i].event.count
      BY <1>1, <2>4, OccAppend DEF t
    <2>6. /\ Events(s) = Events(t) \o Events(b) /\ Events(r) = Events(a) \o Events(b)
          /\ Events(t) \in Seq(AnyEvent) /\ Events(b) \in Seq(AnyEvent) /\ Events(a) \in Seq(AnyEvent)
      BY <1>1, <1>2, <2>1, <2>3, EventsOfConcat, EventsType
    <2>7. /\ Occurrences(Events(s)) = Occurrences(Events(t)) + Occurrences(Events(b))
          /\ Occurrences(Events(r)) = Occurrences(Events(a)) + Occurrences(Events(b))
          /\ Occurrences(Events(a)) \in Nat /\ Occurrences(Events(b)) \in Nat
      BY <2>6, OccConcat, OccSetProperties
    <2> QED  BY <2>4, <2>5, <2>7
  <1> HIDE DEF r
  <1>6. Part(r, s)
    <2> DEFINE e == [k \in 1..Len(r) |-> IF k < i THEN k ELSE k + 1]
    <2>1. IsPart(e, r, s)
      BY <1>0, <1>3 DEF IsPart
    <2>2. Len(r) <= Len(s)
      BY <1>0, <1>3
    <2> QED  BY <2>1, <2>2 DEF Part
  <1>7. ASSUME NEW k \in 1..Len(s), k # i PROVE \E l \in 1..Len(r) : r[l] = s[k]
    <2>1. CASE k < i
      BY <1>0, <1>3, <2>1
    <2>2. CASE ~(k < i)
      <3>1. k - 1 \in 1..Len(r) /\ ~(k - 1 < i) /\ (k - 1) + 1 = k
        BY <1>0, <1>3, <1>7, <2>2
      <3> QED  BY <1>3, <3>1
    <2> QED  BY <2>1, <2>2
  <1>8. ASSUME NEW l \in 1..Len(r) PROVE \E k \in 1..Len(s) : k # i /\ r[l] = s[k]
    BY <1>0, <1>3
  <1> QED  BY <1>3, <1>4, <1>5, <1>6, <1>7, <1>8

LEMMA TailIsRemoveAt ==
    ASSUME NEW S, NEW s \in Seq(S), s # <<>>
    PROVE  Tail(s) = RemoveAt(s, 1)
  <1>1. Tail(s) = SubSeq(s, 2, Len(s)) /\ Tail(s) \in Seq(S)
    BY TailIsSubSeq, HeadTailProperties
  <1>2. SubSeq(s, 1, 1 - 1) = <<>>
    BY SubSeqEmpty
  <1>3. <<>> \o SubSeq(s, 2, Len(s)) = SubSeq(s, 2, Len(s))
    BY <1>1, ConcatEmptySeq
  <1>4. 1 + 1 = 2
    OBVIOUS
  <1> QED  BY <1>1, <1>2, <1>3, <1>4 DEF RemoveAt

NewEvent(k, n) == [id |-> n + 1, kind |-> k, count |-> 1]

\* append leaves the queue p, a part of s without the entry of the new event and, when
\* it is full, without its oldest, and adds the entry x.
Adds(s, k, n, r, p, x) ==
    /\ p \in Seq(AnyEntry) /\ x \in AnyEntry
    /\ r.queue = Append(p, x)
    /\ Part(p, s) /\ Len(p) < MaxQueueLen
    /\ x.key = <<k, 1>> /\ x.event.id = n + 1 /\ x.event.kind = k
    /\ Deduplicate => \A l \in 1..Len(p) : p[l].key # x.key
    /\ \A i \in 1..Len(s) : \/ \E l \in 1..Len(p) : p[l] = s[i]
                            \/ Deduplicate /\ s[i].key = x.key
                            \/ r.discarded = <<s[i].event>>
    /\ r.discarded \in Seq(AnyEvent)
    /\ Occurrences(Events(r.queue)) + Occurrences(r.discarded) = Occurrences(Events(s)) + 1

LEMMA Append1Adds ==
    ASSUME NEW s \in Seq(AnyEntry), Len(s) <= MaxQueueLen, Deduplicate => KeysDiffer(s),
           NEW k \in Kinds, NEW n \in Nat
    PROVE  \E p, x : Adds(s, k, n, Append1(s, NewEvent(k, n)), p, x)
  <1> DEFINE ev == NewEvent(k, n)
             r == Append1(s, ev)
  <1>0. /\ Len(s) \in Nat /\ DOMAIN s = 1..Len(s) /\ MaxQueueLen \in Nat \ {0}
        /\ \A i \in 1..Len(s) : s[i] \in AnyEntry
    BY EventAssumption
  <1>1. ev \in AnyEvent /\ ev.id = n + 1 /\ ev.kind = k /\ ev.count = 1
    BY DEF NewEvent, AnyEvent
  <1>2. Fingerprint(ev) = <<k, 1>> /\ <<k, 1>> \in Kinds \X (Nat \ {0})
    BY <1>1 DEF Fingerprint
  <1> HIDE DEF ev
  <1>3. CASE Filed(s, ev) # {}
    <2> DEFINE i == CHOOSE i \in Filed(s, ev) : TRUE
               p == RemoveAt(s, i)
               x == [key |-> Fingerprint(ev), event |-> [ev EXCEPT !.count = s[i].event.count + 1]]
    <2>1. i \in 1..Len(s) /\ s[i].key = <<k, 1>> /\ Deduplicate
      BY <1>0, <1>2, <1>3 DEF Filed
    <2>2. r.queue = Append(p, x) /\ r.discarded = <<>>
      BY <1>3 DEF Append1
    <2> HIDE DEF i, r
    <2>3. s[i].event.count \in Nat \ {0}
      BY <1>0, <2>1 DEF AnyEntry, AnyEvent
    <2>4. /\ x \in AnyEntry /\ x.key = <<k, 1>> /\ x.event.id = n + 1 /\ x.event.kind = k
          /\ x.event.count = s[i].event.count + 1
      <3> DEFINE c == s[i].event.count + 1
                 e == [ev EXCEPT !.count = c]
      <3>1. c \in Nat \ {0}
        BY <2>3
      <3> HIDE DEF c
      <3>2. e \in AnyEvent /\ e.id = n + 1 /\ e.kind = k /\ e.count = c
        BY <1>1, <3>1 DEF AnyEvent
      <3> HIDE DEF e
      <3>3. x = [key |-> <<k, 1>>, event |-> e]
        BY <1>2 DEF e, c
      <3>4. x.key = <<k, 1>> /\ x.event = e
        BY <3>3
      <3>5. x \in AnyEntry
        <4>1. x \in [key : Kinds \X (Nat \ {0}), event : AnyEvent]
          BY <1>2, <3>2, <3>3
        <4>2. x.key[1] = x.event.kind /\ x.key[2] <= x.event.count
          BY <3>1, <3>2, <3>4
        <4> HIDE DEF x
        <4> QED  BY <4>1, <4>2 DEF AnyEntry
      <3> HIDE DEF x
      <3> QED  BY <3>2, <3>4, <3>5 DEF c
    <2>5. /\ p \in Seq(AnyEntry) /\ Len(p) = Len(s) - 1 /\ Part(p, s)
          /\ \A m \in 1..Len(s) : m # i => \E l \in 1..Len(p) : p[l] = s[m]
          /\ \A l \in 1..Len(p) : \E m \in 1..Len(s) : m # i /\ p[l] = s[m]
          /\ Occurrences(Events(s)) = Occurrences(Events(p)) + s[i].event.count
      BY <2>1, RemoveAtProperties
    <2> HIDE DEF p, x
    <2>6. ASSUME NEW l \in 1..Len(p) PROVE p[l].key # x.key
      <3>1. PICK m \in 1..Len(s) : m # i /\ p[l] = s[m]
        BY <2>5
      <3>2. x.key = s[i].key /\ KeysDiffer(s) /\ i \in 1..Len(s)
        BY <1>0, <2>1, <2>4
      <3> QED  BY <3>1, <3>2 DEF KeysDiffer
    <2>7. Len(p) < MaxQueueLen
      BY <1>0, <2>5
    <2>8. Events(p) \in Seq(AnyEvent) /\ <<>> \in Seq(AnyEvent)
      BY <2>5, EventsType
    <2>9. Occurrences(Events(r.queue)) + Occurrences(r.discarded) = Occurrences(Events(s)) + 1
      <3>1. Occurrences(Events(r.queue)) = Occurrences(Events(p)) + x.event.count
        BY <2>2, <2>4, <2>5, OccAppend
      <3>2. Occurrences(r.discarded) = 0 /\ Occurrences(Events(p)) \in Nat
        BY <2>2, <2>8, OccEmpty, OccSetProperties
      <3> QED  BY <2>3, <2>4, <2>5, <3>1, <3>2
    <2>10. Adds(s, k, n, r, p, x)
      BY <2>1, <2>2, <2>4, <2>5, <2>6, <2>7, <2>8, <2>9 DEF Adds
    <2> QED  BY <2>10 DEF r, ev
  <1>4. CASE Filed(s, ev) = {} /\ Len(s) = MaxQueueLen
    <2> DEFINE p == RemoveAt(s, 1)
               x == Entry(ev)
    <2>1. s # <<>> /\ 1 \in 1..Len(s)
      BY <1>0, <1>4
    <2>2. Tail(s) = p /\ Head(s) = s[1]
      BY <2>1, TailIsRemoveAt
    <2>3. r.queue = Append(p, x) /\ r.discarded = <<s[1].event>>
      BY <1>4, <2>2 DEF Append1
    <2> HIDE DEF r
    <2>4. /\ x \in AnyEntry /\ x.key = <<k, 1>> /\ x.event.id = n + 1 /\ x.event.kind = k
          /\ x.event.count = 1
      BY <1>1, <1>2, EntryType
    <2>5. /\ p \in Seq(AnyEntry) /\ Len(p) = Len(s) - 1 /\ Part(p, s)
          /\ \A m \in 1..Len(s) : m # 1 => \E l \in 1..Len(p) : p[l] = s[m]
          /\ \A l \in 1..Len(p) : \E m \in 1..Len(s) : m # 1 /\ p[l] = s[m]
          /\ Occurrences(Events(s)) = Occurrences(Events(p)) + s[1].event.count
      BY <2>1, RemoveAtProperties
    <2> HIDE DEF p, x
    <2>6. ASSUME Deduplicate, NEW l \in 1..Len(p) PROVE p[l].key # x.key
      <3>1. PICK m \in 1..Len(s) : p[l] = s[m]
        BY <2>5
      <3>2. s[m].key # Fingerprint(ev)
        BY <1>0, <1>4, <2>6 DEF Filed
      <3>3. Fingerprint(ev) = <<k, 1>>
        BY <1>2
      <3> QED  BY <2>4, <3>1, <3>2, <3>3
    <2>7. Len(p) < MaxQueueLen
      BY <1>0, <1>4, <2>5
    <2>8. Events(p) \in Seq(AnyEvent) /\ s[1].event \in AnyEvent /\ <<s[1].event>> \in Seq(AnyEvent)
      <3>1. s[1].event \in AnyEvent
        BY <1>0, <2>1 DEF AnyEntry
      <3> QED  BY <2>5, <3>1, EventsType
    <2>9. Occurrences(Events(r.queue)) + Occurrences(r.discarded) = Occurrences(Events(s)) + 1
      <3>1. Occurrences(Events(r.queue)) = Occurrences(Events(p)) + 1
        <4>1. p \in Seq(AnyEntry) /\ x \in AnyEntry
          BY <2>4, <2>5
        <4>2. Occurrences(Events(Append(p, x))) = Occurrences(Events(p)) + x.event.count
          BY <4>1, OccAppend
        <4> QED  BY <2>3, <2>4, <4>2
      <3>2. Occurrences(r.discarded) = s[1].event.count
        BY <2>3, <2>8, OccOne
      <3>3. s[1].event.count \in Nat /\ Occurrences(Events(p)) \in Nat
        BY <2>8, OccSetProperties DEF AnyEvent
      <3>4. Occurrences(Events(s)) = Occurrences(Events(p)) + s[1].event.count
        BY <2>5
      <3> QED  BY <3>1, <3>2, <3>3, <3>4
    <2>10. Adds(s, k, n, r, p, x)
      BY <2>3, <2>4, <2>5, <2>6, <2>7, <2>8, <2>9 DEF Adds
    <2> QED  BY <2>10 DEF r, ev
  <1>5. CASE Filed(s, ev) = {} /\ Len(s) # MaxQueueLen
    <2> DEFINE x == Entry(ev)
    <2>1. r.queue = Append(s, x) /\ r.discarded = <<>>
      BY <1>5 DEF Append1
    <2> HIDE DEF r
    <2>2. /\ x \in AnyEntry /\ x.key = <<k, 1>> /\ x.event.id = n + 1 /\ x.event.kind = k
          /\ x.event.count = 1
      BY <1>1, <1>2, EntryType
    <2> HIDE DEF x
    <2>3. Deduplicate => \A l \in 1..Len(s) : s[l].key # x.key
      BY <1>0, <1>2, <1>5, <2>2 DEF Filed
    <2>4. Len(s) < MaxQueueLen
      <3>1. Len(s) # MaxQueueLen
        BY <1>5
      <3>2. Len(s) \in Nat /\ MaxQueueLen \in Nat
        BY <1>0
      <3> QED  BY <3>1, <3>2
    <2>5. Part(s, s)
      BY PartOfItself
    <2>6. Events(s) \in Seq(AnyEvent) /\ <<>> \in Seq(AnyEvent)
      BY EventsType
    <2>7. Occurrences(Events(r.queue)) + Occurrences(r.discarded) = Occurrences(Events(s)) + 1
      <3>1. Occurrences(Events(r.queue)) = Occurrences(Events(s)) + 1
        BY <2>1, <2>2, OccAppend
      <3>2. Occurrences(r.discarded) = 0 /\ Occurrences(Events(s)) \in Nat
        BY <2>1, <2>6, OccEmpty, OccSetProperties
      <3> QED  BY <3>1, <3>2
    <2>8. Adds(s, k, n, r, s, x)
      BY <2>1, <2>2, <2>3, <2>4, <2>5, <2>6, <2>7 DEF Adds
    <2> QED  BY <2>8 DEF r, ev
  <1> QED  BY <1>3, <1>4, <1>5

-----------------------------------------------------------------------------
(* What becomes of the events that a failed flush puts back                *)

LEMMA SameProperties ==
    ASSUME NEW evs \in Seq(AnyEvent), NEW i \in 1..Len(evs)
    PROVE  /\ Same(evs, i) \subseteq 1..Len(evs) /\ i \in Same(evs, i)
           /\ Max(Same(evs, i)) \in Same(evs, i)
           /\ \A j \in Same(evs, i) : j <= Max(Same(evs, i))
           /\ \A j \in Same(evs, i) : Fingerprint(evs[j]) = Fingerprint(evs[i])
           /\ \A j \in Same(evs, i) : Same(evs, j) = Same(evs, i)
           /\ ~Deduplicate => Max(Same(evs, i)) = i
  <1>1. DOMAIN evs = 1..Len(evs) /\ Len(evs) \in Nat
    OBVIOUS
  <1>2. Same(evs, i) \subseteq 1..Len(evs) /\ i \in Same(evs, i)
    BY <1>1 DEF Same
  <1>3. Max(Same(evs, i)) \in Same(evs, i) /\ \A j \in Same(evs, i) : j <= Max(Same(evs, i))
    BY <1>1, <1>2, LastPlace
  <1>4. \A j \in Same(evs, i) : Fingerprint(evs[j]) = Fingerprint(evs[i])
    BY DEF Same
  <1>5. \A j \in Same(evs, i) : Same(evs, j) = Same(evs, i)
    BY DEF Same
  <1>6. ~Deduplicate => Max(Same(evs, i)) = i
    BY <1>3 DEF Same
  <1> QED  BY <1>2, <1>3, <1>4, <1>5, <1>6

\* The entry f[k] has the place of the event first[k] of evs and is the event last[k],
\* the first and the last of those with its fingerprint.
Files(evs, f, first, last) ==
    /\ first \in [1..Len(f) -> 1..Len(evs)]
    /\ last \in [1..Len(f) -> 1..Len(evs)]
    /\ \A k \in 1..Len(f) : /\ f[k] = Entry(evs[last[k]])
                            /\ Fingerprint(evs[first[k]]) = Fingerprint(evs[last[k]])
                            /\ first[k] <= last[k]
    /\ \A k, l \in 1..Len(f) : k < l => first[k] < first[l]
    /\ \A k, l \in 1..Len(f) : k # l => last[k] # last[l]
    /\ \A j \in 1..Len(evs) : \E k \in 1..Len(f) :
          j <= last[k] /\ Fingerprint(evs[j]) = Fingerprint(evs[last[k]]) /\ (~Deduplicate => j = last[k])

LEMMA FiledFiles ==
    ASSUME NEW evs \in Seq(AnyEvent)
    PROVE  LET f == FiledInOrder(evs)
           IN  /\ f \in Seq(AnyEntry) /\ Len(f) <= Len(evs)
               /\ Deduplicate => KeysDiffer(f)
               /\ ~Deduplicate => Events(f) = evs
               /\ \E first, last : Files(evs, f, first, last)
  <1> DEFINE s == [i \in DOMAIN evs |-> Entry(evs[Max(Same(evs, i))])]
             I == {i \in DOMAIN evs : \A j \in Same(evs, i) : i <= j}
             f == Picked(s, I)
  <1>0. /\ DOMAIN evs = 1..Len(evs) /\ Len(evs) \in Nat
        /\ \A i \in 1..Len(evs) : evs[i] \in AnyEvent
    OBVIOUS
  <1>1. \A i \in 1..Len(evs) :
           /\ Same(evs, i) \subseteq 1..Len(evs) /\ i \in Same(evs, i)
           /\ Max(Same(evs, i)) \in Same(evs, i)
           /\ \A j \in Same(evs, i) : j <= Max(Same(evs, i))
           /\ \A j \in Same(evs, i) : Fingerprint(evs[j]) = Fingerprint(evs[i])
           /\ \A j \in Same(evs, i) : Same(evs, j) = Same(evs, i)
           /\ ~Deduplicate => Max(Same(evs, i)) = i
    BY SameProperties
  <1>2. FiledInOrder(evs) = f
    BY DEF FiledInOrder
  <1>3. /\ s \in Seq(AnyEntry) /\ Len(s) = Len(evs)
        /\ \A i \in 1..Len(evs) : s[i] = Entry(evs[Max(Same(evs, i))])
    <2>1. s = [i \in 1..Len(evs) |-> Entry(evs[Max(Same(evs, i))])]
      BY <1>0
    <2>2. \A i \in 1..Len(evs) : Entry(evs[Max(Same(evs, i))]) \in AnyEntry
      BY <1>0, <1>1, EntryType
    <2> HIDE DEF AnyEntry
    <2> QED  BY <1>0, <2>1, <2>2
  <1>4. I \subseteq 1..Len(evs) /\ \A i \in 1..Len(evs) : i \in I <=> \A j \in Same(evs, i) : i <= j
    BY <1>0
  <1>5. f \in Seq(AnyEntry) /\ Len(f) <= Len(evs) /\ Len(f) \in Nat /\ \E e : Embeds(e, f, s, I, Len(evs))
    <2> HIDE DEF s, I
    <2>1. f \in Seq(AnyEntry) /\ Len(f) <= Len(evs) /\ \E e : Embeds(e, f, s, I, Len(evs))
      BY <1>3, PickedProperties
    <2> QED  BY <2>1, LenProperties
  <1>6. PICK first : Embeds(first, f, s, I, Len(evs))
    BY <1>5
  <1>7. ~Deduplicate => f = s
    <2>1. ~Deduplicate => \A i \in 1..Len(evs) : i \in I
      BY <1>0, <1>4 DEF Same
    <2>2. DOMAIN s = 1..Len(evs)
      BY <1>0
    <2> HIDE DEF s, I
    <2> QED  BY <1>3, <2>1, <2>2, PickedProperties
  <1> HIDE DEF s, I, f
  <1> DEFINE last == [k \in 1..Len(f) |-> Max(Same(evs, first[k]))]
  <1>8. /\ first \in [1..Len(f) -> 1..Len(evs)]
        /\ \A k \in 1..Len(f) : first[k] \in 1..Len(evs) /\ first[k] \in I /\ f[k] = s[first[k]]
        /\ \A k, l \in 1..Len(f) : k < l => first[k] < first[l]
        /\ \A i \in 1..Len(evs) : i \in I => \E k \in 1..Len(f) : first[k] = i
    BY <1>6 DEF Embeds
  <1>9. /\ last \in [1..Len(f) -> 1..Len(evs)]
        /\ \A k \in 1..Len(f) : last[k] \in Same(evs, first[k]) /\ last[k] = Max(Same(evs, first[k]))
    BY <1>1, <1>8
  <1> HIDE DEF last
  <1>10. ASSUME NEW k \in 1..Len(f)
         PROVE  /\ f[k] = Entry(evs[last[k]])
                /\ Fingerprint(evs[first[k]]) = Fingerprint(evs[last[k]])
                /\ first[k] <= last[k]
    BY <1>1, <1>3, <1>8, <1>9
  <1>11. ASSUME NEW k \in 1..Len(f), NEW l \in 1..Len(f), k # l
         PROVE  /\ last[k] # last[l]
                /\ Deduplicate => Fingerprint(evs[last[k]]) # Fingerprint(evs[last[l]])
    <2>1. first[k] # first[l] /\ first[k] \in Nat /\ first[l] \in Nat
      <3>1. k < l \/ l < k
        BY <1>5, <1>11
      <3>2. first[k] < first[l] \/ first[l] < first[k]
        BY <1>8, <3>1
      <3> QED  BY <1>0, <1>8, <3>2
    <2>2. \A j \in Same(evs, first[k]) : first[k] <= j
      BY <1>4, <1>8
    <2>3. \A j \in Same(evs, first[l]) : first[l] <= j
      BY <1>4, <1>8
    <2>4. first[l] \notin Same(evs, first[k]) \/ first[k] \notin Same(evs, first[l])
      BY <2>1, <2>2, <2>3
    <2>5. Same(evs, first[k]) # Same(evs, first[l])
      BY <1>1, <1>8, <2>4
    <2>6. last[k] # last[l]
      BY <1>1, <1>8, <1>9, <2>5
    <2>7. ASSUME Deduplicate, Fingerprint(evs[last[k]]) = Fingerprint(evs[last[l]]) PROVE FALSE
      <3>1. Fingerprint(evs[first[k]]) = Fingerprint(evs[first[l]])
        BY <1>10, <2>7
      <3>2. Same(evs, first[k]) = Same(evs, first[l])
        BY <2>7, <3>1 DEF Same
      <3> QED  BY <2>5, <3>2
    <2> QED  BY <2>6, <2>7
  <1>12. ASSUME NEW j \in 1..Len(evs)
         PROVE  \E k \in 1..Len(f) :
                   j <= last[k] /\ Fingerprint(evs[j]) = Fingerprint(evs[last[k]]) /\ (~Deduplicate => j = last[k])
    <2>1. Same(evs, j) \in SUBSET Nat /\ Same(evs, j) # {}
      BY <1>1
    <2>2. PICK m \in Same(evs, j) : \A i \in Same(evs, j) : m <= i
      BY <2>1, LeastNumber
    <2>3. m \in 1..Len(evs) /\ Same(evs, m) = Same(evs, j)
      BY <1>1, <2>2
    <2>4. m \in I
      BY <1>4, <2>2, <2>3
    <2>5. PICK k \in 1..Len(f) : first[k] = m
      BY <1>8, <2>3, <2>4
    <2>6. last[k] = Max(Same(evs, j)) /\ last[k] \in Same(evs, j)
      BY <1>9, <2>3, <2>5
    <2> QED  BY <1>1, <2>6
  <1>13. Files(evs, f, first, last)
    BY <1>8, <1>9, <1>10, <1>11, <1>12 DEF Files
  <1>14. Deduplicate => KeysDiffer(f)
    <2>1. ASSUME Deduplicate, NEW k \in 1..Len(f), NEW l \in 1..Len(f), f[k].key = f[l].key
          PROVE  k = l
      <3>1. f[k].key = Fingerprint(evs[last[k]]) /\ f[l].key = Fingerprint(evs[last[l]])
        <4>1. /\ evs[last[k]] \in AnyEvent /\ evs[last[l]] \in AnyEvent
              /\ f[k] = Entry(evs[last[k]]) /\ f[l] = Entry(evs[last[l]])
          BY <1>0, <1>9, <1>10
        <4> QED  BY <4>1, EntryType
      <3> QED  BY <1>11, <2>1, <3>1
    <2> QED  BY <2>1 DEF KeysDiffer
  <1>15. ASSUME ~Deduplicate PROVE Events(f) = evs
    <2>1. f = s
      BY <1>7, <1>15
    <2>2. \A i \in 1..Len(evs) : f[i] = Entry(evs[i])
      BY <1>1, <1>3, <1>15, <2>1
    <2>3. \A i \in 1..Len(evs) : f[i].event = evs[i]
      BY <1>0, <2>2, EntryType
    <2>4. Events(f) \in Seq(AnyEvent) /\ Len(Events(f)) = Len(evs) /\ \A i \in 1..Len(evs) : Events(f)[i] = evs[i]
      BY <1>3, <1>5, <2>1, <2>3, EventsType
    <2> QED  BY <2>4, SeqEqual
  <1> QED  BY <1>2, <1>5, <1>13, <1>14, <1>15

\* What is filed keeps the order of the events, and invents none.
LEMMA FiledKeeps ==
    ASSUME NEW evs \in Seq(AnyEvent)
    PROVE  LET f == FiledInOrder(evs)
           IN  /\ Ordered(evs) => Ordered(Events(f))
               /\ Within(Events(f), evs)
               /\ Occurrences(Events(f)) <= Occurrences(evs)
  <1> DEFINE f == FiledInOrder(evs)
  <1>1. /\ f \in Seq(AnyEntry) /\ Len(f) <= Len(evs)
        /\ ~Deduplicate => Events(f) = evs
        /\ \E first, last : Files(evs, f, first, last)
    BY FiledFiles
  <1>2. PICK first, last : Files(evs, f, first, last)
    BY <1>1
  <1> HIDE DEF f
  <1>3. /\ Events(f) \in Seq(AnyEvent) /\ Len(Events(f)) = Len(f) /\ Len(f) \in Nat /\ Len(evs) \in Nat
        /\ \A k \in 1..Len(f) : Events(f)[k] = evs[last[k]] /\ last[k] \in 1..Len(evs)
        /\ \A k, l \in 1..Len(f) : k # l => last[k] # last[l]
    <2>1. /\ Events(f) \in Seq(AnyEvent) /\ Len(Events(f)) = Len(f)
          /\ \A k \in 1..Len(f) : Events(f)[k] = f[k].event
      BY <1>1, EventsType
    <2>2. Len(f) \in Nat /\ Len(evs) \in Nat /\ \A i \in 1..Len(evs) : evs[i] \in AnyEvent
      BY <1>1, LenProperties
    <2>3. /\ \A k \in 1..Len(f) : f[k] = Entry(evs[last[k]]) /\ last[k] \in 1..Len(evs)
          /\ \A k, l \in 1..Len(f) : k # l => last[k] # last[l]
      BY <1>2 DEF Files
    <2>4. \A k \in 1..Len(f) : f[k].event = evs[last[k]]
      BY <2>2, <2>3, EntryType
    <2> QED  BY <2>1, <2>2, <2>3, <2>4
  <1>4. Within(Events(f), evs)
    BY <1>3 DEF Within
  <1>5. ASSUME Ordered(evs) PROVE Ordered(Events(f))
    <2>1. CASE ~Deduplicate
      BY <1>1, <1>5, <2>1
    <2>2. CASE Deduplicate
      <3>1. ASSUME NEW k \in 1..Len(f), NEW l \in 1..Len(f), k < l
            PROVE  Events(f)[k].id # Events(f)[l].id
        <4>1. k # l
          BY <1>3, <3>1
        <4>2. last[k] # last[l] /\ last[k] \in 1..Len(evs) /\ last[l] \in 1..Len(evs)
          BY <1>3, <4>1
        <4>3. last[k] < last[l] \/ last[l] < last[k]
          BY <1>3, <4>2
        <4>4. evs[last[k]].id # evs[last[l]].id
          BY <1>5, <4>2, <4>3 DEF Ordered, Follows
        <4> QED  BY <1>3, <4>4
      <3> QED  BY <1>3, <2>2, <3>1 DEF Ordered, Follows
    <2> QED  BY <2>1, <2>2
  <1>6. Occurrences(Events(f)) <= Occurrences(evs)
    <2> DEFINE S == OccSet(Events(f))
               T == OccSet(evs)
               g == [x \in S |-> <<last[x[1]], x[2]>>]
    <2>1. /\ S = {x \in Nat \X Nat : x[1] \in 1..Len(f) /\ x[2] \in 1..Events(f)[x[1]].count}
          /\ T = {x \in Nat \X Nat : x[1] \in 1..Len(evs) /\ x[2] \in 1..evs[x[1]].count}
      BY <1>3, OccSetProperties
    <2>2. g \in [S -> T]
      <3>1. ASSUME NEW x \in S PROVE <<last[x[1]], x[2]>> \in T
        <4>1. x[1] \in 1..Len(f) /\ x[2] \in Nat /\ x[2] \in 1..evs[last[x[1]]].count /\ last[x[1]] \in 1..Len(evs)
          BY <1>3, <2>1
        <4>2. <<last[x[1]], x[2]>> \in Nat \X Nat
          BY <1>3, <4>1
        <4> QED  BY <2>1, <4>1, <4>2
      <3> QED  BY <3>1
    <2>3. ASSUME NEW x \in S, NEW y \in S, g[x] = g[y] PROVE x = y
      <3>1. last[x[1]] = last[y[1]] /\ x[2] = y[2]
        BY <2>3
      <3>2. x \in Nat \X Nat /\ y \in Nat \X Nat /\ x[1] \in 1..Len(f) /\ y[1] \in 1..Len(f)
        BY <2>1
      <3>3. x[1] = y[1]
        BY <1>3, <3>1, <3>2
      <3> QED  BY <3>1, <3>2, <3>3
    <2>4. /\ Occurrences(Events(f)) = Cardinality(S) /\ Occurrences(evs) = Cardinality(T)
          /\ IsFiniteSet(T)
      BY <1>3, OccSetProperties
    <2> HIDE DEF S, T, g
    <2> QED  BY <2>2, <2>3, <2>4, InjectionBound
  <1> QED  BY <1>4, <1>5, <1>6 DEF f

\* The events of evs that are merged into queued ones, each with a mark
Merging(q, evs) == {0} \X {j \in 1..Len(evs) : Filed(q, evs[j]) # {}}

LEMMA MergingFinite ==
    ASSUME NEW s \in Seq(AnyEntry), NEW evs \in Seq(AnyEvent)
    PROVE  IsFiniteSet(Merging(s, evs)) /\ Cardinality(Merging(s, evs)) \in Nat
  <1> DEFINE J == {j \in 1..Len(evs) : Filed(s, evs[j]) # {}}
             Z == {0}
  <1>1. IsFiniteSet(1..Len(evs))
    <2>1. Len(evs) \in Int /\ 1 \in Int
      OBVIOUS
    <2> QED  BY <2>1, FS_Interval
  <1>2. IsFiniteSet(J)
    BY <1>1, FS_Subset
  <1>3. IsFiniteSet(Z)
    BY FS_Singleton
  <1> HIDE DEF J, Z
  <1>4. IsFiniteSet(Z \X J)
    BY <1>2, <1>3, FS_Product
  <1>5. Merging(s, evs) = Z \X J
    BY DEF Merging, Z, J
  <1> QED  BY <1>4, <1>5, FS_CardinalityType

LEMMA UnmergedProperties ==
    ASSUME NEW s \in Seq(AnyEntry), NEW evs \in Seq(AnyEvent)
    PROVE  LET add == Unmerged(s, evs)
           IN  /\ add \in Seq(AnyEvent) /\ Part(add, evs)
               /\ ~Deduplicate => add = evs
               /\ Deduplicate => \A k \in 1..Len(add), i \in 1..Len(s) : s[i].key # Fingerprint(add[k])
               /\ \A j \in 1..Len(evs) : \/ \E k \in 1..Len(add) : add[k] = evs[j]
                                         \/ \E i \in 1..Len(s) : Deduplicate /\ s[i].key = Fingerprint(evs[j])
               /\ Occurrences(add) + Cardinality(Merging(s, evs)) <= Occurrences(evs)
  <1> DEFINE I == {j \in DOMAIN evs : Filed(s, evs[j]) = {}}
             add == Picked(evs, I)
  <1>0. /\ DOMAIN evs = 1..Len(evs) /\ Len(evs) \in Nat /\ DOMAIN s = 1..Len(s)
        /\ \A i \in 1..Len(evs) : evs[i] \in AnyEvent
    OBVIOUS
  <1>1. Unmerged(s, evs) = add
    BY DEF Unmerged
  <1>2. /\ I \subseteq 1..Len(evs)
        /\ \A j \in 1..Len(evs) : j \in I <=> Filed(s, evs[j]) = {}
    BY <1>0
  <1> HIDE DEF I
  <1>3. /\ add \in Seq(AnyEvent) /\ Part(add, evs) /\ \E e : Embeds(e, add, evs, I, Len(evs))
        /\ DOMAIN evs \subseteq I => add = evs
    BY PickedProperties, PickedIsPart
  <1>4. ~Deduplicate => add = evs
    BY <1>0, <1>2, <1>3 DEF Filed
  <1>5. PICK e : Embeds(e, add, evs, I, Len(evs))
    BY <1>3
  <1> HIDE DEF add
  <1>6. /\ Len(add) \in Nat
        /\ \A k \in 1..Len(add) : e[k] \in 1..Len(evs) /\ e[k] \in I /\ add[k] = evs[e[k]]
        /\ \A k, l \in 1..Len(add) : k < l => e[k] < e[l]
        /\ \A j \in 1..Len(evs) : j \in I => \E k \in 1..Len(add) : e[k] = j
    BY <1>3, <1>5, LenProperties DEF Embeds
  <1>7. Deduplicate => \A k \in 1..Len(add), i \in 1..Len(s) : s[i].key # Fingerprint(add[k])
    <2>1. ASSUME Deduplicate, NEW k \in 1..Len(add), NEW i \in 1..Len(s), s[i].key = Fingerprint(add[k])
          PROVE  FALSE
      <3>1. e[k] \in 1..Len(evs) /\ e[k] \in I /\ add[k] = evs[e[k]]
        BY <1>6
      <3>2. Filed(s, evs[e[k]]) = {}
        BY <1>2, <3>1
      <3>3. i \in Filed(s, evs[e[k]])
        BY <1>0, <2>1, <3>1 DEF Filed
      <3> QED  BY <3>2, <3>3
    <2> QED  BY <2>1
  <1>8. ASSUME NEW j \in 1..Len(evs)
        PROVE  \/ \E k \in 1..Len(add) : add[k] = evs[j]
               \/ \E i \in 1..Len(s) : Deduplicate /\ s[i].key = Fingerprint(evs[j])
    <2>1. CASE Filed(s, evs[j]) = {}
      BY <1>2, <1>6, <2>1
    <2>2. CASE Filed(s, evs[j]) # {}
      BY <1>0, <2>2 DEF Filed
    <2> QED  BY <2>1, <2>2
  <1>9. Occurrences(add) + Cardinality(Merging(s, evs)) <= Occurrences(evs)
    <2> DEFINE A == OccSet(add)
               M == Merging(s, evs)
               T == OccSet(evs)
               g == [x \in A \cup M |-> IF x[1] = 0 THEN <<x[2], 1>> ELSE <<e[x[1]], x[2]>>]
    <2>1. /\ A = {x \in Nat \X Nat : x[1] \in 1..Len(add) /\ x[2] \in 1..add[x[1]].count}
          /\ T = {x \in Nat \X Nat : x[1] \in 1..Len(evs) /\ x[2] \in 1..evs[x[1]].count}
          /\ IsFiniteSet(A) /\ IsFiniteSet(T)
          /\ Occurrences(add) = Cardinality(A) /\ Occurrences(evs) = Cardinality(T)
      BY <1>3, OccSetProperties
    <2>2. \A x \in M : x \in Nat \X Nat /\ x[1] = 0 /\ x[2] \in 1..Len(evs) /\ x[2] \notin I
      BY <1>0, <1>2 DEF Merging
    <2>3. \A x \in A : x \in Nat \X Nat /\ x[1] # 0 /\ x[1] \in 1..Len(add) /\ x[2] \in 1..add[x[1]].count
      BY <2>1
    <2>4. \A x \in A : x \notin M
      BY <2>2, <2>3
    <2>5. IsFiniteSet(M)
      BY MergingFinite
    <2> HIDE DEF A, M, T
    <2>6. Cardinality(A \cup M) = Cardinality(A) + Cardinality(M)
      BY <2>1, <2>4, <2>5, DisjointUnion
    <2>7. ASSUME NEW x \in A \cup M PROVE g[x] \in T
      <3>1. CASE x \in M
        <4>1. x[1] = 0 /\ x[2] \in Nat /\ x[2] \in 1..Len(evs) /\ g[x] = <<x[2], 1>>
          BY <2>2, <3>1
        <4>2. evs[x[2]].count \in Nat \ {0}
          BY <1>0, <4>1 DEF AnyEvent
        <4>3. 1 \in 1..evs[x[2]].count /\ <<x[2], 1>> \in Nat \X Nat
          BY <4>1, <4>2
        <4> QED  BY <2>1, <4>1, <4>3
      <3>2. CASE x \in A
        <4>1. /\ x \in Nat \X Nat /\ x[1] # 0 /\ x[1] \in 1..Len(add) /\ x[2] \in 1..add[x[1]].count
              /\ g[x] = <<e[x[1]], x[2]>>
          BY <2>3, <3>2
        <4>2. e[x[1]] \in 1..Len(evs) /\ x[2] \in 1..evs[e[x[1]]].count
          BY <1>6, <4>1
        <4>3. <<e[x[1]], x[2]>> \in Nat \X Nat
          BY <4>1, <4>2
        <4> QED  BY <2>1, <4>1, <4>2, <4>3
      <3> QED  BY <3>1, <3>2
    <2>8. ASSUME NEW x \in A \cup M, NEW y \in A \cup M, g[x] = g[y] PROVE x = y
      <3>1. CASE x \in M /\ y \in M
        <4>1. x[2] = y[2] /\ x[1] = y[1] /\ x \in Nat \X Nat /\ y \in Nat \X Nat
          BY <2>2, <2>8, <3>1
        <4> QED  BY <4>1
      <3>2. CASE x \in A /\ y \in A
        <4>1. e[x[1]] = e[y[1]] /\ x[2] = y[2]
          BY <2>3, <2>8, <3>2
        <4>2. x \in Nat \X Nat /\ y \in Nat \X Nat /\ x[1] \in 1..Len(add) /\ y[1] \in 1..Len(add)
          BY <2>3, <3>2
        <4>3. x[1] = y[1]
          <5>1. x[1] < y[1] \/ y[1] < x[1] \/ x[1] = y[1]
            BY <4>2
          <5>2. e[x[1]] \in Nat
            BY <1>6, <4>2
          <5> QED  BY <1>6, <4>1, <4>2, <5>1, <5>2
        <4> QED  BY <4>1, <4>2, <4>3
      <3>3. CASE x \in A /\ y \in M
        <4>1. g[x][1] = e[x[1]] /\ e[x[1]] \in I
          BY <1>6, <2>3, <3>3
        <4>2. g[y][1] = y[2] /\ y[2] \notin I
          BY <2>2, <3>3
        <4> QED  BY <2>8, <4>1, <4>2
      <3>4. CASE x \in M /\ y \in A
        <4>1. g[y][1] = e[y[1]] /\ e[y[1]] \in I
          BY <1>6, <2>3, <3>4
        <4>2. g[x][1] = x[2] /\ x[2] \notin I
          BY <2>2, <3>4
        <4> QED  BY <2>8, <4>1, <4>2
      <3> QED  BY <3>1, <3>2, <3>3, <3>4
    <2>9. g \in [A \cup M -> T]
      BY <2>7
    <2> HIDE DEF g
    <2>10. Cardinality(A \cup M) <= Cardinality(T)
      BY <2>1, <2>8, <2>9, InjectionBound
    <2> QED  BY <2>1, <2>6, <2>10 DEF M
  <1> QED  BY <1>1, <1>3, <1>4, <1>7, <1>8, <1>9

LEMMA MergedProperties ==
    ASSUME NEW s \in Seq(AnyEntry), NEW evs \in Seq(AnyEvent)
    PROVE  LET m == Merged(s, evs)
           IN  /\ m \in Seq(AnyEntry) /\ Len(m) = Len(s)
               /\ \A i \in 1..Len(s) : /\ m[i].key = s[i].key
                                       /\ m[i].event.id = s[i].event.id
                                       /\ m[i].event.kind = s[i].event.kind
                                       /\ m[i].event.count =
                                            s[i].event.count + Cardinality({j \in 1..Len(evs) : i \in Filed(s, evs[j])})
               /\ (~Deduplicate \/ evs = <<>>) => m = s
  <1> DEFINE M(i) == {j \in 1..Len(evs) : i \in Filed(s, evs[j])}
             c(i) == s[i].event.count + Cardinality(M(i))
             ev(i) == [s[i].event EXCEPT !.count = c(i)]
             m == Merged(s, evs)
  <1>0. /\ DOMAIN evs = 1..Len(evs) /\ Len(evs) \in Nat /\ DOMAIN s = 1..Len(s) /\ Len(s) \in Nat
        /\ \A i \in 1..Len(s) : s[i] \in AnyEntry
    OBVIOUS
  <1>1. ASSUME NEW i \in 1..Len(s)
        PROVE  /\ Cardinality(M(i)) \in Nat
               /\ (~Deduplicate \/ evs = <<>>) => Cardinality(M(i)) = 0
    <2>1. IsFiniteSet(1..Len(evs))
      <3>1. Len(evs) \in Int /\ 1 \in Int
        BY <1>0
      <3> QED  BY <3>1, FS_Interval
    <2>2. M(i) \in SUBSET (1..Len(evs))
      OBVIOUS
    <2>3. (~Deduplicate \/ evs = <<>>) => M(i) = {}
      BY DEF Filed
    <2> HIDE DEF M
    <2>4. IsFiniteSet(M(i))
      BY <2>1, <2>2, FS_Subset
    <2> QED  BY <2>3, <2>4, FS_CardinalityType, FS_EmptySet
  <1>2. m = [i \in 1..Len(s) |-> [key |-> s[i].key, event |-> ev(i)]]
    <2>1. m = [i \in 1..Len(s) |-> [s[i] EXCEPT !.event.count = c(i)]]
      BY <1>0 DEF Merged
    <2>2. ASSUME NEW i \in 1..Len(s) PROVE [s[i] EXCEPT !.event.count = c(i)] = [key |-> s[i].key, event |-> ev(i)]
      <3>1. s[i] \in AnyEntry
        BY <1>0
      <3>2. [s[i] EXCEPT !.event.count = c(i)] = [s[i] EXCEPT !.event = ev(i)]
        <4> HIDE DEF c
        <4> QED  OBVIOUS
      <3>3. s[i] = [key |-> s[i].key, event |-> s[i].event]
        BY <3>1 DEF AnyEntry
      <3> HIDE DEF ev, c
      <3>4. [s[i] EXCEPT !.event = ev(i)] = [key |-> s[i].key, event |-> ev(i)]
        BY <3>3
      <3> QED  BY <3>2, <3>4
    <2> HIDE DEF c
    <2> QED  BY <2>1, <2>2
  <1>3. ASSUME NEW i \in 1..Len(s)
        PROVE  /\ ev(i) \in AnyEvent /\ ev(i).id = s[i].event.id /\ ev(i).kind = s[i].event.kind
               /\ ev(i).count = c(i)
               /\ c(i) = s[i].event.count => ev(i) = s[i].event
    <2>1. s[i].event \in AnyEvent
      BY <1>0 DEF AnyEntry
    <2>2. c(i) \in Nat \ {0}
      <3> HIDE DEF M
      <3> QED  BY <1>1, <2>1 DEF AnyEvent
    <2> HIDE DEF c
    <2> QED  BY <2>1, <2>2 DEF AnyEvent
  <1> HIDE DEF c, M, ev, m
  <1>4. ASSUME NEW i \in 1..Len(s)
        PROVE  m[i] \in AnyEntry /\ m[i].key = s[i].key /\ m[i].event = ev(i)
    <2>1. s[i].key \in Kinds \X (Nat \ {0})
      BY <1>0 DEF AnyEntry
    <2>2. m[i] = [key |-> s[i].key, event |-> ev(i)]
      BY <1>2
    <2>3. m[i] \in [key : Kinds \X (Nat \ {0}), event : AnyEvent]
      BY <1>3, <2>1, <2>2
    <2>4. m[i].key = s[i].key /\ m[i].event = ev(i)
      BY <2>2
    <2>5. s[i].key[1] = s[i].event.kind /\ s[i].key[2] <= s[i].event.count
      BY <1>0 DEF AnyEntry
    <2>6. s[i].event.count \in Nat /\ s[i].key[2] \in Nat
      BY <1>0 DEF AnyEntry, AnyEvent
    <2>7. m[i].key[1] = m[i].event.kind /\ m[i].key[2] <= m[i].event.count
      <3>1. s[i].key[2] <= c(i)
        BY <1>1, <2>5, <2>6 DEF c
      <3> QED  BY <1>3, <2>4, <2>5, <3>1
    <2> QED  BY <2>3, <2>4, <2>7 DEF AnyEntry
  <1>5. m \in Seq(AnyEntry) /\ Len(m) = Len(s)
    <2> HIDE DEF AnyEntry
    <2> QED  BY <1>0, <1>2, <1>4
  <1>6. ASSUME ~Deduplicate \/ evs = <<>> PROVE m = s
    <2>1. ASSUME NEW i \in 1..Len(s) PROVE m[i] = s[i]
      <3>1. s[i] \in AnyEntry /\ s[i].event.count \in Nat
        BY <1>0 DEF AnyEntry, AnyEvent
      <3>2. c(i) = s[i].event.count
        BY <1>1, <1>6, <3>1 DEF c
      <3>3. m[i] = [key |-> s[i].key, event |-> s[i].event]
        BY <1>2, <1>3, <3>2
      <3> QED  BY <3>1, <3>3 DEF AnyEntry
    <2> HIDE DEF AnyEntry
    <2> QED  BY <1>5, <2>1, SeqEqual
  <1> QED  BY <1>3, <1>4, <1>5, <1>6 DEF m, c, M

LEMMA MergedKeeps ==
    ASSUME NEW s \in Seq(AnyEntry), NEW evs \in Seq(AnyEvent)
    PROVE  LET m == Merged(s, evs)
           IN  /\ Within(Events(m), Events(s))
               /\ Ordered(Events(s)) => Ordered(Events(m))
               /\ KeysDiffer(s) => KeysDiffer(m)
  <1> DEFINE m == Merged(s, evs)
  <1>1. /\ m \in Seq(AnyEntry) /\ Len(m) = Len(s)
        /\ \A i \in 1..Len(s) : m[i].key = s[i].key /\ m[i].event.id = s[i].event.id
    BY MergedProperties
  <1> HIDE DEF m
  <1>2. /\ Len(Events(m)) = Len(s) /\ Len(Events(s)) = Len(s)
        /\ \A i \in 1..Len(s) : Events(m)[i].id = Events(s)[i].id
    BY <1>1, EventsType
  <1>3. Within(Events(m), Events(s))
    BY <1>2 DEF Within
  <1>4. Ordered(Events(s)) => Ordered(Events(m))
    BY <1>2 DEF Ordered, Follows
  <1>5. KeysDiffer(s) => KeysDiffer(m)
    BY <1>1 DEF KeysDiffer
  <1> QED  BY <1>3, <1>4, <1>5 DEF m

\* Merging counts an event once, where its fingerprint is filed.
LEMMA MergedOccurrences ==
    ASSUME NEW s \in Seq(AnyEntry), NEW evs \in Seq(AnyEvent), Deduplicate => KeysDiffer(s)
    PROVE  Occurrences(Events(Merged(s, evs))) <= Occurrences(Events(s)) + Cardinality(Merging(s, evs))
  <1> DEFINE M(i) == {j \in 1..Len(evs) : i \in Filed(s, evs[j])}
             m == Merged(s, evs)
             b == [i \in 1..Len(s) |-> CHOOSE h : h \in Bijection(1..Cardinality(M(i)), M(i))]
             A == OccSet(Events(m))
             B == OccSet(Events(s))
             K == Merging(s, evs)
  <1>0. /\ DOMAIN evs = 1..Len(evs) /\ Len(evs) \in Nat /\ DOMAIN s = 1..Len(s) /\ Len(s) \in Nat
        /\ \A i \in 1..Len(s) : s[i] \in AnyEntry
    OBVIOUS
  <1>1. ASSUME NEW i \in 1..Len(s)
        PROVE  /\ b[i] \in [1..Cardinality(M(i)) -> M(i)]
               /\ \A x, y \in 1..Cardinality(M(i)) : b[i][x] = b[i][y] => x = y
               /\ Cardinality(M(i)) \in Nat
    <2>1. IsFiniteSet(1..Len(evs))
      <3>1. Len(evs) \in Int /\ 1 \in Int
        BY <1>0
      <3> QED  BY <3>1, FS_Interval
    <2>2. M(i) \in SUBSET (1..Len(evs))
      OBVIOUS
    <2>3. b[i] = CHOOSE h : h \in Bijection(1..Cardinality(M(i)), M(i))
      OBVIOUS
    <2> HIDE DEF M, b
    <2>4. IsFiniteSet(M(i))
      BY <2>1, <2>2, FS_Subset
    <2>5. Cardinality(M(i)) \in Nat /\ ExistsBijection(1..Cardinality(M(i)), M(i))
      BY <2>4, FS_CardinalityType
    <2>6. b[i] \in Bijection(1..Cardinality(M(i)), M(i))
      BY <2>3, <2>5 DEF ExistsBijection
    <2> QED  BY <2>5, <2>6 DEF Bijection, Injection, IsInjective
  <1>2. ASSUME NEW i \in 1..Len(s), NEW j \in M(i)
        PROVE  j \in 1..Len(evs) /\ <<0, j>> \in K /\ \A k \in 1..Len(s) : j \in M(k) => k = i
    <2>1. j \in 1..Len(evs) /\ i \in Filed(s, evs[j])
      OBVIOUS
    <2>2. <<0, j>> \in K
      BY <2>1 DEF Merging
    <2>3. Deduplicate /\ s[i].key = Fingerprint(evs[j])
      BY <2>1 DEF Filed
    <2>4. ASSUME NEW k \in 1..Len(s), j \in M(k) PROVE k = i
      <3>1. s[k].key = Fingerprint(evs[j])
        BY <2>3, <2>4 DEF Filed
      <3> QED  BY <2>3, <3>1 DEF KeysDiffer
    <2> QED  BY <2>1, <2>2, <2>4
  <1>3. /\ m \in Seq(AnyEntry) /\ Len(m) = Len(s)
        /\ \A i \in 1..Len(s) : m[i].event.count = s[i].event.count + Cardinality(M(i))
    BY MergedProperties
  <1> HIDE DEF M, m, b
  <1>4. /\ Events(m) \in Seq(AnyEvent) /\ Events(s) \in Seq(AnyEvent)
        /\ Len(Events(m)) = Len(s) /\ Len(Events(s)) = Len(s)
        /\ \A i \in 1..Len(s) : Events(s)[i] = s[i].event /\ Events(m)[i] = m[i].event
    BY <1>0, <1>3, EventsType
  <1>5. /\ A = {x \in Nat \X Nat : x[1] \in 1..Len(s) /\ x[2] \in 1..Events(m)[x[1]].count}
        /\ B = {x \in Nat \X Nat : x[1] \in 1..Len(s) /\ x[2] \in 1..Events(s)[x[1]].count}
        /\ IsFiniteSet(B)
        /\ Occurrences(Events(m)) = Cardinality(A) /\ Occurrences(Events(s)) = Cardinality(B)
    BY <1>4, OccSetProperties
  <1>6. \A x \in K : x[1] = 0
    BY DEF Merging
  <1>7. IsFiniteSet(K)
    BY MergingFinite
  <1>8. \A x \in B : x \notin K
    BY <1>5, <1>6
  <1> HIDE DEF A, B, K
  <1>9. IsFiniteSet(B \cup K) /\ Cardinality(B \cup K) = Cardinality(B) + Cardinality(K)
    BY <1>5, <1>7, <1>8, DisjointUnion
  <1> DEFINE n(x) == s[x[1]].event.count
             g == [x \in A |-> IF x[2] <= n(x) THEN x ELSE <<0, b[x[1]][x[2] - n(x)]>>]
  <1>10. ASSUME NEW x \in A
         PROVE  /\ x \in Nat \X Nat /\ x[1] \in 1..Len(s) /\ n(x) \in Nat
                /\ x[2] <= n(x) => x \in B
                /\ ~(x[2] <= n(x)) => /\ x[2] - n(x) \in 1..Cardinality(M(x[1]))
                                      /\ b[x[1]][x[2] - n(x)] \in M(x[1])
    <2>1. x \in Nat \X Nat /\ x[1] \in 1..Len(s) /\ x[2] \in 1..Events(m)[x[1]].count
      BY <1>5
    <2>2. n(x) \in Nat
      BY <1>0, <2>1 DEF AnyEntry, AnyEvent
    <2>3. x[2] \in 1..(n(x) + Cardinality(M(x[1])))
      BY <1>3, <1>4, <2>1
    <2>4. Cardinality(M(x[1])) \in Nat
      BY <1>1, <2>1
    <2>5. x[2] <= n(x) => x \in B
      BY <1>4, <1>5, <2>1, <2>2
    <2> HIDE DEF n
    <2>6. ~(x[2] <= n(x)) => x[2] - n(x) \in 1..Cardinality(M(x[1]))
      BY <2>2, <2>3, <2>4
    <2> QED  BY <1>1, <2>1, <2>2, <2>5, <2>6
  <1> HIDE DEF n
  <1>11. g \in [A -> B \cup K]
    <2>1. ASSUME NEW x \in A PROVE g[x] \in B \cup K
      <3>1. CASE x[2] <= n(x)
        BY <1>10, <3>1
      <3>2. CASE ~(x[2] <= n(x))
        BY <1>2, <1>10, <3>2
      <3> QED  BY <3>1, <3>2
    <2> QED  BY <2>1
  <1>12. ASSUME NEW x \in A, NEW y \in A, g[x] = g[y] PROVE x = y
    <2>1. CASE x[2] <= n(x) /\ y[2] <= n(y)
      BY <1>12, <2>1
    <2>2. CASE x[2] <= n(x) /\ ~(y[2] <= n(y))
      <3>1. g[x] \in B /\ g[y] = <<0, b[y[1]][y[2] - n(y)]>> /\ g[y] \in K
        BY <1>2, <1>10, <2>2
      <3> QED  BY <1>8, <1>12, <3>1
    <2>3. CASE ~(x[2] <= n(x)) /\ y[2] <= n(y)
      <3>1. g[y] \in B /\ g[x] = <<0, b[x[1]][x[2] - n(x)]>> /\ g[x] \in K
        BY <1>2, <1>10, <2>3
      <3> QED  BY <1>8, <1>12, <3>1
    <2>4. CASE ~(x[2] <= n(x)) /\ ~(y[2] <= n(y))
      <3>1. b[x[1]][x[2] - n(x)] = b[y[1]][y[2] - n(y)]
        BY <1>12, <2>4
      <3>2. x[1] = y[1]
        BY <1>2, <1>10, <2>4, <3>1
      <3>3. n(x) = n(y)
        BY <3>2 DEF n
      <3>4. x[2] - n(x) = y[2] - n(y)
        BY <1>1, <1>10, <2>4, <3>1, <3>2
      <3>5. x[2] = y[2] /\ x \in Nat \X Nat /\ y \in Nat \X Nat
        BY <1>10, <3>3, <3>4
      <3> QED  BY <3>2, <3>5
    <2> QED  BY <2>1, <2>2, <2>3, <2>4
  <1> HIDE DEF g
  <1>13. Cardinality(A) <= Cardinality(B \cup K)
    BY <1>9, <1>11, <1>12, InjectionBound
  <1> QED  BY <1>5, <1>9, <1>13 DEF m, K

\* The events that are not merged are split: the oldest are discarded, and the others
\* kept, as many as there is room for.
LEMMA ExtendLeftSplits ==
    ASSUME NEW s \in Seq(AnyEntry), NEW evs \in Seq(AnyEvent), Len(s) <= MaxQueueLen
    PROVE  LET r == ExtendLeft(s, evs)
           IN  \E kept \in Seq(AnyEvent) :
                 /\ r.queue = FiledInOrder(kept) \o Merged(s, evs)
                 /\ r.discarded \in Seq(AnyEvent)
                 /\ Unmerged(s, evs) = r.discarded \o kept
                 /\ Part(kept, Unmerged(s, evs))
                 /\ Len(kept) <= MaxQueueLen - Len(s)
  <1> DEFINE add == Unmerged(s, evs)
             room == MaxQueueLen - Len(s)
             surplus == Max({0, Len(add) - room})
             kept == SubSeq(add, surplus + 1, Len(add))
             gone == SubSeq(add, 1, surplus)
  <1>1. add \in Seq(AnyEvent)
    BY UnmergedProperties
  <1> HIDE DEF add
  <1>2. Len(add) \in Nat /\ room \in Nat
    <2>1. MaxQueueLen \in Nat /\ Len(s) \in Nat
      BY EventAssumption
    <2> QED  BY <1>1, <2>1
  <1> HIDE DEF room
  <1>3. surplus \in 0..Len(add) /\ Len(add) - surplus <= room
    <2>1. surplus = IF 0 >= Len(add) - room THEN 0 ELSE Len(add) - room
      BY <1>2, MaxOfTwo
    <2> HIDE DEF surplus
    <2> QED  BY <1>2, <2>1
  <1> HIDE DEF surplus
  <1>4. kept \in Seq(AnyEvent) /\ Len(kept) = Len(add) - surplus /\ Part(kept, add)
    <2>1. surplus + 1 \in Nat \ {0} /\ Len(add) \in 0..Len(add) /\ surplus + 1 <= Len(add) + 1
      BY <1>2, <1>3
    <2>2. Len(add) - (surplus + 1) + 1 = Len(add) - surplus
      BY <1>2, <1>3
    <2> HIDE DEF AnyEvent
    <2> QED  BY <1>1, <2>1, <2>2, SubSeqIsPart
  <1>5. gone \in Seq(AnyEvent)
    <2>1. 1 \in Nat \ {0} /\ surplus \in 0..Len(add) /\ 1 <= surplus + 1
      BY <1>2, <1>3
    <2> HIDE DEF AnyEvent
    <2> QED  BY <1>1, <2>1, SubSeqIsPart
  <1>6. add = gone \o kept
    <2>1. 1 \in 1..(Len(add) + 1) /\ surplus \in (1 - 1)..Len(add) /\ Len(add) \in surplus..Len(add)
      BY <1>2, <1>3
    <2>2. gone \o kept = SubSeq(add, 1, Len(add))
      BY <1>1, <2>1, ConcatAdjacentSubSeq
    <2> QED  BY <1>1, <2>2, SubSeqFull
  <1>7. ExtendLeft(s, evs) = [queue |-> FiledInOrder(kept) \o Merged(s, evs), discarded |-> gone]
    BY DEF ExtendLeft, add, surplus, room
  <1> HIDE DEF kept, gone
  <1>8. Len(kept) <= MaxQueueLen - Len(s)
    BY <1>3, <1>4 DEF room
  <1> DEFINE r == ExtendLeft(s, evs)
  <1>9. r.queue = FiledInOrder(kept) \o Merged(s, evs) /\ r.discarded = gone
    BY <1>7
  <1> HIDE DEF r
  <1>10. /\ r.queue = FiledInOrder(kept) \o Merged(s, evs)
         /\ r.discarded \in Seq(AnyEvent) /\ add = r.discarded \o kept
         /\ Part(kept, add) /\ Len(kept) <= MaxQueueLen - Len(s)
    BY <1>4, <1>5, <1>6, <1>8, <1>9
  <1> QED  BY <1>4, <1>10 DEF add, r

LEMMA ExtendLeftProperties ==
    ASSUME NEW s \in Seq(AnyEntry), NEW evs \in Seq(AnyEvent), Len(s) <= MaxQueueLen,
           Deduplicate => KeysDiffer(s)
    PROVE  LET r == ExtendLeft(s, evs)
           IN  /\ r.queue \in Seq(AnyEntry) /\ r.discarded \in Seq(AnyEvent)
               /\ Len(r.queue) <= MaxQueueLen
               /\ Deduplicate => KeysDiffer(r.queue)
               /\ Ordered(evs \o Events(s)) => Ordered(Events(r.queue))
               /\ Within(Events(r.queue), evs \o Events(s))
               /\ Occurrences(Events(r.queue)) + Occurrences(r.discarded)
                     <= Occurrences(evs) + Occurrences(Events(s))
               /\ ~Deduplicate =>
                     Occurrences(Events(r.queue)) + Occurrences(r.discarded)
                        = Occurrences(evs) + Occurrences(Events(s))
  <1> DEFINE r == ExtendLeft(s, evs)
             add == Unmerged(s, evs)
             m == Merged(s, evs)
  <1>1. PICK kept \in Seq(AnyEvent) :
           /\ r.queue = FiledInOrder(kept) \o m
           /\ r.discarded \in Seq(AnyEvent)
           /\ add = r.discarded \o kept
           /\ Part(kept, add)
           /\ Len(kept) <= MaxQueueLen - Len(s)
    BY ExtendLeftSplits
  <1> DEFINE f == FiledInOrder(kept)
  <1>2. /\ add \in Seq(AnyEvent) /\ Part(add, evs)
        /\ ~Deduplicate => add = evs
        /\ Deduplicate => \A k \in 1..Len(add), i \in 1..Len(s) : s[i].key # Fingerprint(add[k])
        /\ Occurrences(add) + Cardinality(Merging(s, evs)) <= Occurrences(evs)
    BY UnmergedProperties
  <1>3. /\ m \in Seq(AnyEntry) /\ Len(m) = Len(s)
        /\ \A i \in 1..Len(s) : m[i].key = s[i].key
        /\ ~Deduplicate => m = s
        /\ Within(Events(m), Events(s))
        /\ Ordered(Events(s)) => Ordered(Events(m))
        /\ KeysDiffer(s) => KeysDiffer(m)
    BY MergedProperties, MergedKeeps
  <1>4. /\ f \in Seq(AnyEntry) /\ Len(f) <= Len(kept)
        /\ Deduplicate => KeysDiffer(f)
        /\ ~Deduplicate => Events(f) = kept
        /\ \E first, last : Files(kept, f, first, last)
        /\ Ordered(kept) => Ordered(Events(f))
        /\ Within(Events(f), kept)
        /\ Occurrences(Events(f)) <= Occurrences(kept)
    BY FiledFiles, FiledKeeps
  <1>5. Occurrences(Events(m)) <= Occurrences(Events(s)) + Cardinality(Merging(s, evs))
    BY MergedOccurrences
  <1> HIDE DEF r, add, m, f
  <1>6. r.queue = f \o m /\ r.queue \in Seq(AnyEntry) /\ Len(r.queue) = Len(f) + Len(m)
    <2>1. r.queue = f \o m
      BY <1>1 DEF f
    <2>2. f \in Seq(AnyEntry) /\ m \in Seq(AnyEntry)
      BY <1>3, <1>4
    <2>3. f \o m \in Seq(AnyEntry) /\ Len(f \o m) = Len(f) + Len(m)
      BY <2>2, Concat
    <2> QED  BY <2>1, <2>3
  <1>7. Len(r.queue) <= MaxQueueLen
    <2>1. Len(f) \in Nat /\ Len(m) \in Nat /\ Len(kept) \in Nat /\ MaxQueueLen \in Nat
      BY <1>3, <1>4, EventAssumption, LenProperties
    <2> QED  BY <1>1, <1>3, <1>4, <1>6, <2>1
  <1>8. /\ Events(f) \in Seq(AnyEvent) /\ Events(m) \in Seq(AnyEvent) /\ Events(s) \in Seq(AnyEvent)
        /\ Events(r.queue) = Events(f) \o Events(m)
    BY <1>3, <1>4, <1>6, EventsType, EventsOfConcat
  <1>9. Deduplicate => KeysDiffer(r.queue)
    <2>1. SUFFICES ASSUME Deduplicate, NEW i \in 1..Len(r.queue), NEW j \in 1..Len(r.queue),
                          r.queue[i].key = r.queue[j].key
                   PROVE  i = j
      BY DEF KeysDiffer
    <2>2. /\ \A k \in 1..Len(f) : r.queue[k] = f[k]
          /\ \A l \in 1..Len(m) : r.queue[Len(f) + l] = m[l]
          /\ \A k \in 1..Len(r.queue) : k \in 1..Len(f) \/ \E l \in 1..Len(m) : k = Len(f) + l
      <3>1. f \in Seq(AnyEntry) /\ m \in Seq(AnyEntry) /\ r.queue = f \o m
        BY <1>3, <1>4, <1>6
      <3> HIDE DEF AnyEntry
      <3> QED  BY <3>1, Concat
    <2>3. ASSUME NEW k \in 1..Len(f), NEW l \in 1..Len(m) PROVE f[k].key # m[l].key
      <3>1. PICK first, last : Files(kept, f, first, last)
        BY <1>4
      <3>2. last[k] \in 1..Len(kept) /\ f[k] = Entry(kept[last[k]])
        BY <3>1 DEF Files
      <3>3. PICK e : IsPart(e, kept, add)
        BY <1>1 DEF Part
      <3>4. e[last[k]] \in 1..Len(add) /\ kept[last[k]] = add[e[last[k]]]
        BY <3>2, <3>3 DEF IsPart
      <3>5. s[l].key # Fingerprint(kept[last[k]]) /\ m[l].key = s[l].key
        BY <1>2, <1>3, <2>1, <3>4
      <3>6. f[k].key = Fingerprint(kept[last[k]])
        <4>1. kept[last[k]] \in AnyEvent
          BY <3>2, ElementOfSeq
        <4> QED  BY <3>2, <4>1, EntryType
      <3> QED  BY <3>5, <3>6
    <2>4. KeysDiffer(f) /\ KeysDiffer(m)
      BY <1>3, <1>4, <2>1
    <2>5. CASE i \in 1..Len(f) /\ j \in 1..Len(f)
      BY <2>1, <2>2, <2>4, <2>5 DEF KeysDiffer
    <2>6. CASE i \in 1..Len(f) /\ j \notin 1..Len(f)
      <3>1. PICK l \in 1..Len(m) : j = Len(f) + l
        BY <2>2, <2>6
      <3>2. f[i].key = m[l].key
        BY <2>1, <2>2, <2>6, <3>1
      <3> QED  BY <2>3, <2>6, <3>2
    <2>7. CASE i \notin 1..Len(f) /\ j \in 1..Len(f)
      <3>1. PICK l \in 1..Len(m) : i = Len(f) + l
        BY <2>2, <2>7
      <3>2. f[j].key = m[l].key
        BY <2>1, <2>2, <2>7, <3>1
      <3> QED  BY <2>3, <2>7, <3>2
    <2>8. CASE i \notin 1..Len(f) /\ j \notin 1..Len(f)
      <3>1. PICK k \in 1..Len(m) : i = Len(f) + k
        BY <2>2, <2>8
      <3>2. PICK l \in 1..Len(m) : j = Len(f) + l
        BY <2>2, <2>8
      <3>3. m[k].key = m[l].key
        BY <2>1, <2>2, <3>1, <3>2
      <3> QED  BY <2>4, <3>1, <3>2, <3>3 DEF KeysDiffer
    <2> QED  BY <2>5, <2>6, <2>7, <2>8
  <1>10. Within(kept, evs)
    <2>1. Within(kept, add) /\ Within(add, evs)
      BY <1>1, <1>2, PartKeeps
    <2>2. ASSUME NEW k \in 1..Len(kept) PROVE \E i \in 1..Len(evs) : kept[k].id = evs[i].id
      <3>1. PICK j \in 1..Len(add) : kept[k].id = add[j].id
        BY <2>1 DEF Within
      <3>2. PICK i \in 1..Len(evs) : add[j].id = evs[i].id
        BY <2>1 DEF Within
      <3> QED  BY <3>1, <3>2
    <2> QED  BY <2>2 DEF Within
  <1>11. Within(Events(f), evs)
    BY <1>4, <1>10 DEF Within
  <1>12. ASSUME Ordered(evs \o Events(s)) PROVE Ordered(Events(r.queue))
    <2>1. Ordered(evs) /\ Ordered(Events(s)) /\ Between(evs, Events(s))
      BY <1>8, <1>12, OrderedConcat
    <2>2. Ordered(kept)
      BY <1>1, <1>2, <2>1, PartKeeps
    <2>3. Ordered(Events(f)) /\ Ordered(Events(m))
      BY <1>3, <1>4, <2>1, <2>2
    <2>4. Between(Events(f), Events(s))
      BY <1>8, <1>11, <2>1, WithinKeeps
    <2>5. Between(Events(f), Events(m))
      BY <1>3, <1>8, <2>4, WithinKeeps
    <2> QED  BY <1>8, <2>3, <2>5, OrderedConcat
  <1>13. Within(Events(r.queue), evs \o Events(s))
    <2>1. /\ \A k \in 1..Len(Events(f)) : Events(r.queue)[k] = Events(f)[k]
          /\ \A l \in 1..Len(Events(m)) : Events(r.queue)[Len(Events(f)) + l] = Events(m)[l]
          /\ \A k \in 1..Len(Events(r.queue)) :
                k \in 1..Len(Events(f)) \/ \E l \in 1..Len(Events(m)) : k = Len(Events(f)) + l
      <3> HIDE DEF AnyEvent
      <3> QED  BY <1>8, Concat
    <2>2. /\ \A k \in 1..Len(evs) : k \in 1..Len(evs \o Events(s)) /\ (evs \o Events(s))[k] = evs[k]
          /\ \A l \in 1..Len(Events(s)) : /\ Len(evs) + l \in 1..Len(evs \o Events(s))
                                          /\ (evs \o Events(s))[Len(evs) + l] = Events(s)[l]
      <3> HIDE DEF AnyEvent
      <3> QED  BY <1>8, Concat
    <2>3. ASSUME NEW k \in 1..Len(Events(r.queue))
          PROVE  \E i \in 1..Len(evs \o Events(s)) : Events(r.queue)[k].id = (evs \o Events(s))[i].id
      <3>1. CASE k \in 1..Len(Events(f))
        <4>1. PICK i \in 1..Len(evs) : Events(f)[k].id = evs[i].id
          BY <1>11, <3>1 DEF Within
        <4> QED  BY <2>1, <2>2, <3>1, <4>1
      <3>2. CASE k \notin 1..Len(Events(f))
        <4>1. PICK l \in 1..Len(Events(m)) : k = Len(Events(f)) + l
          BY <2>1, <3>2
        <4>2. PICK i \in 1..Len(Events(s)) : Events(m)[l].id = Events(s)[i].id
          BY <1>3 DEF Within
        <4> QED  BY <2>1, <2>2, <4>1, <4>2
      <3> QED  BY <3>1, <3>2
    <2> QED  BY <2>3 DEF Within
  <1>14. /\ Occurrences(Events(r.queue)) = Occurrences(Events(f)) + Occurrences(Events(m))
         /\ Occurrences(add) = Occurrences(r.discarded) + Occurrences(kept)
         /\ Occurrences(Events(f)) \in Nat /\ Occurrences(Events(m)) \in Nat
         /\ Occurrences(r.discarded) \in Nat /\ Occurrences(kept) \in Nat
         /\ Occurrences(Events(s)) \in Nat /\ Occurrences(evs) \in Nat
         /\ Occurrences(add) \in Nat
         /\ Cardinality(Merging(s, evs)) \in Nat
    <2>1. Occurrences(Events(r.queue)) = Occurrences(Events(f)) + Occurrences(Events(m))
      BY <1>8, OccConcat
    <2>2. r.discarded \in Seq(AnyEvent) /\ kept \in Seq(AnyEvent) /\ add = r.discarded \o kept
      BY <1>1
    <2>3. Occurrences(add) = Occurrences(r.discarded) + Occurrences(kept)
      BY <2>2, OccConcat
    <2>4. /\ Occurrences(Events(f)) \in Nat /\ Occurrences(Events(m)) \in Nat
          /\ Occurrences(Events(s)) \in Nat
      BY <1>8, OccSetProperties
    <2>5. /\ Occurrences(r.discarded) \in Nat /\ Occurrences(kept) \in Nat
          /\ Occurrences(evs) \in Nat /\ Occurrences(add) \in Nat
      BY <1>2, <2>2, OccSetProperties
    <2> QED  BY <2>1, <2>3, <2>4, <2>5, MergingFinite
  <1>15. Occurrences(Events(r.queue)) + Occurrences(r.discarded) <= Occurrences(evs) + Occurrences(Events(s))
    <2> DEFINE of == Occurrences(Events(f))
               om == Occurrences(Events(m))
               od == Occurrences(r.discarded)
               ok == Occurrences(kept)
               os == Occurrences(Events(s))
               oe == Occurrences(evs)
               merging == Cardinality(Merging(s, evs))
    <2>1. /\ Occurrences(Events(r.queue)) = of + om /\ of <= ok /\ om <= os + merging
          /\ (od + ok) + merging <= oe
          /\ of \in Nat /\ om \in Nat /\ od \in Nat /\ ok \in Nat /\ os \in Nat /\ oe \in Nat /\ merging \in Nat
      BY <1>2, <1>4, <1>5, <1>14
    <2> HIDE DEF of, om, od, ok, os, oe, merging
    <2>2. (of + om) + od <= oe + os
      BY <2>1
    <2>3. Occurrences(Events(r.queue)) + od <= oe + os
      BY <2>1, <2>2
    <2> QED  BY <2>3 DEF od, oe, os
  <1>16. ~Deduplicate =>
            Occurrences(Events(r.queue)) + Occurrences(r.discarded) = Occurrences(evs) + Occurrences(Events(s))
    BY <1>2, <1>3, <1>4, <1>14
  <1> QED  BY <1>1, <1>6, <1>7, <1>9, <1>12, <1>13, <1>15, <1>16 DEF r

-----------------------------------------------------------------------------
(* One queue: what is queued, what its flush still has to send, and what   *)
(* the hub has got                                                         *)

Line(s, evs, out) == (out \o evs) \o Events(s)

\* The queue s, with evs in flight and out sent, after n events were added
OneQueue(s, evs, out, n) ==
    /\ s \in Seq(AnyEntry) /\ evs \in Seq(AnyEvent) /\ out \in Seq(AnyEvent)
    /\ Len(s) <= MaxQueueLen
    /\ Deduplicate => KeysDiffer(s)
    /\ Ordered(Line(s, evs, out))
    /\ UpTo(Line(s, evs, out), n)

LEMMA LineProperties ==
    ASSUME NEW s \in Seq(AnyEntry), NEW evs \in Seq(AnyEvent), NEW out \in Seq(AnyEvent)
    PROVE  /\ Events(s) \in Seq(AnyEvent) /\ Line(s, evs, out) \in Seq(AnyEvent)
           /\ Ordered(Line(s, evs, out)) <=>
                 /\ Ordered(out) /\ Ordered(evs) /\ Ordered(Events(s))
                 /\ Between(out, evs) /\ Between(out, Events(s)) /\ Between(evs, Events(s))
           /\ \A n : UpTo(Line(s, evs, out), n) <=> UpTo(out, n) /\ UpTo(evs, n) /\ UpTo(Events(s), n)
           /\ Occurrences(Line(s, evs, out)) =
                 Occurrences(out) + Occurrences(evs) + Occurrences(Events(s))
           /\ Occurrences(out) \in Nat /\ Occurrences(evs) \in Nat /\ Occurrences(Events(s)) \in Nat
  <1>1. Events(s) \in Seq(AnyEvent)
    BY EventsType
  <1>2. out \o evs \in Seq(AnyEvent)
    <2> HIDE DEF AnyEvent
    <2> QED  BY Concat
  <1>3. Line(s, evs, out) \in Seq(AnyEvent)
    <2> HIDE DEF AnyEvent
    <2> QED  BY <1>1, <1>2, Concat DEF Line
  <1>4. Ordered(Line(s, evs, out)) <=>
           /\ Ordered(out) /\ Ordered(evs) /\ Ordered(Events(s))
           /\ Between(out, evs) /\ Between(out, Events(s)) /\ Between(evs, Events(s))
    <2>1. Ordered(Line(s, evs, out)) <=>
             Ordered(out \o evs) /\ Ordered(Events(s)) /\ Between(out \o evs, Events(s))
      BY <1>1, <1>2, OrderedConcat DEF Line
    <2>2. Ordered(out \o evs) <=> Ordered(out) /\ Ordered(evs) /\ Between(out, evs)
      BY OrderedConcat
    <2>3. Between(out \o evs, Events(s)) <=> Between(out, Events(s)) /\ Between(evs, Events(s))
      BY <1>1, BetweenConcat
    <2> QED  BY <2>1, <2>2, <2>3
  <1>5. ASSUME NEW n
        PROVE  UpTo(Line(s, evs, out), n) <=> UpTo(out, n) /\ UpTo(evs, n) /\ UpTo(Events(s), n)
    BY <1>1, <1>2, UpToConcat DEF Line
  <1>6. /\ Occurrences(out) \in Nat /\ Occurrences(evs) \in Nat /\ Occurrences(Events(s)) \in Nat
        /\ Occurrences(out \o evs) \in Nat
    BY <1>1, <1>2, OccSetProperties
  <1>7. /\ Occurrences(Line(s, evs, out)) = Occurrences(out \o evs) + Occurrences(Events(s))
        /\ Occurrences(out \o evs) = Occurrences(out) + Occurrences(evs)
    BY <1>1, <1>2, OccConcat DEF Line
  <1> QED  BY <1>1, <1>3, <1>4, <1>5, <1>6, <1>7

\* An event is added.
LEMMA OneAdded ==
    ASSUME NEW s, NEW evs, NEW out, NEW n \in Nat, OneQueue(s, evs, out, n),
           NEW k \in Kinds
    PROVE  LET r == Append1(s, NewEvent(k, n))
           IN  /\ OneQueue(r.queue, evs, out, n + 1)
               /\ r.discarded \in Seq(AnyEvent)
               /\ Occurrences(Line(r.queue, evs, out)) + Occurrences(r.discarded)
                     = Occurrences(Line(s, evs, out)) + 1
  <1> DEFINE r == Append1(s, NewEvent(k, n))
  <1>0. /\ s \in Seq(AnyEntry) /\ evs \in Seq(AnyEvent) /\ out \in Seq(AnyEvent)
        /\ Len(s) <= MaxQueueLen /\ (Deduplicate => KeysDiffer(s))
        /\ Ordered(Line(s, evs, out)) /\ UpTo(Line(s, evs, out), n)
    BY DEF OneQueue
  <1>1. PICK p, x : Adds(s, k, n, r, p, x)
    BY <1>0, Append1Adds
  <1> HIDE DEF r
  <1>2. /\ p \in Seq(AnyEntry) /\ x \in AnyEntry /\ r.queue = Append(p, x)
        /\ Part(p, s) /\ Len(p) < MaxQueueLen
        /\ x.event.id = n + 1
        /\ Deduplicate => \A l \in 1..Len(p) : p[l].key # x.key
        /\ r.discarded \in Seq(AnyEvent)
        /\ Occurrences(Events(r.queue)) + Occurrences(r.discarded) = Occurrences(Events(s)) + 1
    BY <1>1 DEF Adds
  <1> DEFINE new == <<x.event>>
  <1>3. /\ r.queue \in Seq(AnyEntry) /\ Len(r.queue) = Len(p) + 1 /\ Len(p) \in Nat
        /\ r.queue[Len(p) + 1] = x /\ \A l \in 1..Len(p) : r.queue[l] = p[l]
    BY <1>2, AppendProperties, LenProperties
  <1>4. Len(r.queue) <= MaxQueueLen
    BY <1>2, <1>3, EventAssumption
  <1>5. Deduplicate => KeysDiffer(r.queue)
    <2>1. Deduplicate => KeysDiffer(p)
      BY <1>0, <1>2, <1>3, KeysOfPart
    <2>2. \A l \in 1..(Len(p) + 1) : l \in 1..Len(p) \/ l = Len(p) + 1
      BY <1>3
    <2> QED  BY <1>2, <1>3, <2>1, <2>2 DEF KeysDiffer
  <1>6. /\ Events(p) \in Seq(AnyEvent) /\ Events(s) \in Seq(AnyEvent)
        /\ new \in Seq(AnyEvent) /\ Len(new) = 1 /\ new[1].id = n + 1
        /\ Events(r.queue) = Events(p) \o new
    <2>1. x.event \in AnyEvent
      BY <1>2 DEF AnyEntry
    <2> QED  BY <1>0, <1>2, <2>1, EventsType, OccAppend
  <1>7. Part(Events(p), Events(s))
    BY <1>0, <1>2, EventsOfPart
  <1>8. /\ Ordered(out) /\ Ordered(evs) /\ Ordered(Events(s))
        /\ Between(out, evs) /\ Between(out, Events(s)) /\ Between(evs, Events(s))
        /\ UpTo(out, n) /\ UpTo(evs, n) /\ UpTo(Events(s), n)
    BY <1>0, LineProperties
  <1>9. /\ Ordered(Events(p)) /\ Between(out, Events(p)) /\ Between(evs, Events(p)) /\ UpTo(Events(p), n)
    BY <1>0, <1>6, <1>7, <1>8, PartKeeps, WithinKeeps
  <1>10. ASSUME NEW t \in Seq(AnyEvent), UpTo(t, n) PROVE Between(t, new) /\ UpTo(t, n + 1)
    <2>0. ASSUME NEW i \in 1..Len(t) PROVE t[i].id \in Nat /\ t[i].id <= n
      <3>1. t[i] \in AnyEvent
        BY ElementOfSeq
      <3> QED  BY <1>10, <3>1 DEF UpTo, AnyEvent
    <2>1. ASSUME NEW i \in 1..Len(t), NEW j \in 1..Len(new) PROVE Follows(t[i], new[j])
      <3>1. j = 1 /\ new[j].id = n + 1
        BY <1>6
      <3> QED  BY <2>0, <3>1 DEF Follows
    <2>2. ASSUME NEW i \in 1..Len(t) PROVE t[i].id <= n + 1
      BY <2>0
    <2> QED  BY <2>1, <2>2 DEF Between, UpTo
  <1>11. Ordered(new) /\ UpTo(new, n + 1)
    BY <1>6 DEF Ordered, UpTo
  <1> HIDE DEF new
  <1>12. /\ Between(out, new) /\ Between(evs, new) /\ Between(Events(p), new)
         /\ UpTo(out, n + 1) /\ UpTo(evs, n + 1) /\ UpTo(Events(p), n + 1)
    BY <1>0, <1>6, <1>8, <1>9, <1>10
  <1>13. /\ Ordered(Events(r.queue)) /\ Between(out, Events(r.queue)) /\ Between(evs, Events(r.queue))
         /\ UpTo(Events(r.queue), n + 1)
    BY <1>0, <1>6, <1>9, <1>11, <1>12, OrderedConcat, BetweenConcat, UpToConcat
  <1>14. Ordered(Line(r.queue, evs, out)) /\ UpTo(Line(r.queue, evs, out), n + 1)
    BY <1>0, <1>3, <1>8, <1>12, <1>13, LineProperties
  <1>15. OneQueue(r.queue, evs, out, n + 1)
    BY <1>0, <1>3, <1>4, <1>5, <1>14 DEF OneQueue
  <1>16. Occurrences(Line(r.queue, evs, out)) + Occurrences(r.discarded) = Occurrences(Line(s, evs, out)) + 1
    <2>1. Occurrences(Line(r.queue, evs, out)) = Occurrences(out) + Occurrences(evs) + Occurrences(Events(r.queue))
      BY <1>0, <1>3, LineProperties
    <2>2. Occurrences(Line(s, evs, out)) = Occurrences(out) + Occurrences(evs) + Occurrences(Events(s))
      BY <1>0, LineProperties
    <2>3. /\ Occurrences(out) \in Nat /\ Occurrences(evs) \in Nat /\ Occurrences(Events(s)) \in Nat
          /\ Occurrences(Events(r.queue)) \in Nat /\ Occurrences(r.discarded) \in Nat
      BY <1>0, <1>2, <1>3, LineProperties, OccSetProperties
    <2>4. Occurrences(Events(r.queue)) + Occurrences(r.discarded) = Occurrences(Events(s)) + 1
      BY <1>2
    <2> HIDE DEF Line
    <2> QED  BY <2>1, <2>2, <2>3, <2>4
  <1> QED  BY <1>2, <1>15, <1>16 DEF r

\* A flush takes the queue over.
LEMMA OneTaken ==
    ASSUME NEW s, NEW out, NEW n, OneQueue(s, <<>>, out, n)
    PROVE  /\ OneQueue(<<>>, Events(s), out, n)
           /\ Occurrences(Line(<<>>, Events(s), out)) = Occurrences(Line(s, <<>>, out))
  <1>1. s \in Seq(AnyEntry) /\ out \in Seq(AnyEvent) /\ Events(s) \in Seq(AnyEvent)
    BY EventsType DEF OneQueue
  <1>2. <<>> \in Seq(AnyEntry) /\ <<>> \in Seq(AnyEvent) /\ Len(<<>>) = 0 /\ Events(<<>>) = <<>>
    BY DEF Events
  <1>3. Line(<<>>, Events(s), out) = Line(s, <<>>, out)
    <2>1. out \o <<>> = out
      BY <1>1, ConcatEmptySeq
    <2>2. (out \o Events(s)) \o <<>> = out \o Events(s)
      <3>1. out \o Events(s) \in Seq(AnyEvent)
        <4> HIDE DEF AnyEvent
        <4> QED  BY <1>1, Concat
      <3> QED  BY <3>1, ConcatEmptySeq
    <2> QED  BY <1>2, <2>1, <2>2 DEF Line
  <1>4. Len(<<>>) <= MaxQueueLen /\ KeysDiffer(<<>>)
    BY <1>2, EventAssumption DEF KeysDiffer
  <1> QED  BY <1>1, <1>2, <1>3, <1>4 DEF OneQueue

\* The hub answers for the first part of what is in flight.
LEMMA OneAnswered ==
    ASSUME NEW s, NEW c \in Seq(AnyEvent), NEW rest \in Seq(AnyEvent), NEW out, NEW n,
           OneQueue(s, c \o rest, out, n)
    PROVE  /\ OneQueue(s, rest, out \o c, n)
           /\ Line(s, rest, out \o c) = Line(s, c \o rest, out)
  <1>1. s \in Seq(AnyEntry) /\ out \in Seq(AnyEvent)
    BY DEF OneQueue
  <1>2. out \o c \in Seq(AnyEvent)
    <2> HIDE DEF AnyEvent
    <2> QED  BY <1>1, Concat
  <1>3. (out \o c) \o rest = out \o (c \o rest)
    <2> HIDE DEF AnyEvent
    <2>1. out \in Seq(AnyEvent) /\ c \in Seq(AnyEvent) /\ rest \in Seq(AnyEvent)
      BY <1>1
    <2> QED  BY <2>1, ConcatAssociative
  <1>4. Line(s, rest, out \o c) = Line(s, c \o rest, out)
    BY <1>3 DEF Line
  <1> QED  BY <1>1, <1>2, <1>4 DEF OneQueue

\* What is in flight is put back.
LEMMA OnePutBack ==
    ASSUME NEW s, NEW evs, NEW out, NEW n \in Nat, OneQueue(s, evs, out, n)
    PROVE  LET r == ExtendLeft(s, evs)
           IN  /\ OneQueue(r.queue, <<>>, out, n)
               /\ r.discarded \in Seq(AnyEvent)
               /\ Occurrences(Line(r.queue, <<>>, out)) + Occurrences(r.discarded)
                     <= Occurrences(Line(s, evs, out))
               /\ ~Deduplicate =>
                     Occurrences(Line(r.queue, <<>>, out)) + Occurrences(r.discarded)
                        = Occurrences(Line(s, evs, out))
  <1> DEFINE r == ExtendLeft(s, evs)
  <1>0. /\ s \in Seq(AnyEntry) /\ evs \in Seq(AnyEvent) /\ out \in Seq(AnyEvent)
        /\ Len(s) <= MaxQueueLen /\ (Deduplicate => KeysDiffer(s))
        /\ Ordered(Line(s, evs, out)) /\ UpTo(Line(s, evs, out), n)
    BY DEF OneQueue
  <1>1. /\ r.queue \in Seq(AnyEntry) /\ r.discarded \in Seq(AnyEvent)
        /\ Len(r.queue) <= MaxQueueLen
        /\ Deduplicate => KeysDiffer(r.queue)
        /\ Ordered(evs \o Events(s)) => Ordered(Events(r.queue))
        /\ Within(Events(r.queue), evs \o Events(s))
        /\ Occurrences(Events(r.queue)) + Occurrences(r.discarded) <= Occurrences(evs) + Occurrences(Events(s))
        /\ ~Deduplicate =>
              Occurrences(Events(r.queue)) + Occurrences(r.discarded) = Occurrences(evs) + Occurrences(Events(s))
    BY <1>0, ExtendLeftProperties
  <1> HIDE DEF r
  <1>2. /\ Ordered(out) /\ Ordered(evs) /\ Ordered(Events(s))
        /\ Between(out, evs) /\ Between(out, Events(s)) /\ Between(evs, Events(s))
        /\ UpTo(out, n) /\ UpTo(evs, n) /\ UpTo(Events(s), n)
        /\ Events(s) \in Seq(AnyEvent)
    BY <1>0, LineProperties
  <1>3. evs \o Events(s) \in Seq(AnyEvent)
    <2> HIDE DEF AnyEvent
    <2> QED  BY <1>0, <1>2, Concat
  <1>4. Ordered(evs \o Events(s)) /\ Between(out, evs \o Events(s)) /\ UpTo(evs \o Events(s), n)
    BY <1>0, <1>2, OrderedConcat, BetweenConcat, UpToConcat
  <1>5. Events(r.queue) \in Seq(AnyEvent)
    BY <1>1, EventsType
  <1>6. Ordered(Events(r.queue)) /\ Between(out, Events(r.queue)) /\ UpTo(Events(r.queue), n)
    BY <1>0, <1>1, <1>3, <1>4, <1>5, WithinKeeps
  <1>7. /\ <<>> \in Seq(AnyEvent) /\ Ordered(<<>>) /\ Between(out, <<>>) /\ Between(<<>>, Events(r.queue))
        /\ UpTo(<<>>, n)
    BY DEF Ordered, Between, UpTo
  <1>8. Ordered(Line(r.queue, <<>>, out)) /\ UpTo(Line(r.queue, <<>>, out), n)
    BY <1>0, <1>1, <1>2, <1>6, <1>7, LineProperties
  <1>9. OneQueue(r.queue, <<>>, out, n)
    BY <1>0, <1>1, <1>7, <1>8 DEF OneQueue
  <1>10. /\ Occurrences(Line(r.queue, <<>>, out)) = Occurrences(out) + 0 + Occurrences(Events(r.queue))
         /\ Occurrences(Line(s, evs, out)) = Occurrences(out) + Occurrences(evs) + Occurrences(Events(s))
         /\ Occurrences(out) \in Nat /\ Occurrences(evs) \in Nat /\ Occurrences(Events(s)) \in Nat
         /\ Occurrences(Events(r.queue)) \in Nat /\ Occurrences(r.discarded) \in Nat
    <2>1. Occurrences(Line(r.queue, <<>>, out)) = Occurrences(out) + Occurrences(<<>>) + Occurrences(Events(r.queue))
      BY <1>0, <1>1, <1>7, LineProperties
    <2>2. /\ Occurrences(Line(s, evs, out)) = Occurrences(out) + Occurrences(evs) + Occurrences(Events(s))
          /\ Occurrences(out) \in Nat /\ Occurrences(evs) \in Nat /\ Occurrences(Events(s)) \in Nat
      BY <1>0, LineProperties
    <2>3. Occurrences(Events(r.queue)) \in Nat /\ Occurrences(r.discarded) \in Nat
      BY <1>1, <1>5, OccSetProperties
    <2> QED  BY <2>1, <2>2, <2>3, OccEmpty
  <1>11. /\ Occurrences(Line(r.queue, <<>>, out)) + Occurrences(r.discarded) <= Occurrences(Line(s, evs, out))
         /\ ~Deduplicate =>
               Occurrences(Line(r.queue, <<>>, out)) + Occurrences(r.discarded) = Occurrences(Line(s, evs, out))
    BY <1>1, <1>10
  <1> QED  BY <1>1, <1>9, <1>11 DEF r

-----------------------------------------------------------------------------
(* Chunks                                                                  *)

LEMMA SplitProperties ==
    ASSUME NEW s \in Seq(AnyEntry), NEW n \in Nat
    PROVE  /\ FirstOf(s, n) \in Seq(AnyEntry) /\ AllBut(s, n) \in Seq(AnyEntry)
           /\ FirstOf(s, n) \o AllBut(s, n) = s
           /\ Len(FirstOf(s, n)) = IF n <= Len(s) THEN n ELSE Len(s)
  <1> DEFINE k == Min({n, Len(s)})
  <1>1. Len(s) \in Nat
    OBVIOUS
  <1>2. k = IF n <= Len(s) THEN n ELSE Len(s)
    BY <1>1, MinOfTwo
  <1> HIDE DEF k
  <1>3. k \in 0..Len(s)
    BY <1>1, <1>2
  <1>4. FirstOf(s, n) = SubSeq(s, 1, k) /\ AllBut(s, n) = SubSeq(s, k + 1, Len(s))
    BY DEF FirstOf, AllBut, k
  <1>5. SubSeq(s, 1, k) \in Seq(AnyEntry) /\ Len(SubSeq(s, 1, k)) = k
    <2>1. 1 \in Nat \ {0} /\ 1 <= k + 1 /\ k - 1 + 1 = k
      BY <1>1, <1>3
    <2> HIDE DEF AnyEntry
    <2> QED  BY <1>3, <2>1, SubSeqIsPart
  <1>6. SubSeq(s, k + 1, Len(s)) \in Seq(AnyEntry)
    <2>1. k + 1 \in Nat \ {0} /\ k + 1 <= Len(s) + 1 /\ Len(s) \in 0..Len(s)
      BY <1>1, <1>3
    <2> HIDE DEF AnyEntry
    <2> QED  BY <2>1, SubSeqIsPart
  <1>7. SubSeq(s, 1, k) \o SubSeq(s, k + 1, Len(s)) = s
    <2>1. 1 \in 1..(Len(s) + 1) /\ k \in (1 - 1)..Len(s) /\ Len(s) \in k..Len(s)
      BY <1>1, <1>3
    <2> HIDE DEF AnyEntry
    <2> QED  BY <2>1, ConcatAdjacentSubSeq, SubSeqFull
  <1> QED  BY <1>2, <1>4, <1>5, <1>6, <1>7

\* A chunk and what remains are what there was; an empty chunk means that nothing was left.
LEMMA ChunkProperties ==
    ASSUME NEW hb \in {0, 1}, NEW qs \in [Queues -> Seq(AnyEntry)]
    PROVE  /\ RestOf(hb, qs) \in [Queues -> Seq(AnyEntry)]
           /\ \A q \in Queues : /\ ChunkOf(hb, qs)[q] \in Seq(AnyEvent)
                                /\ ChunkOf(hb, qs)[q] \o Events(RestOf(hb, qs)[q]) = Events(qs[q])
           /\ ChunkOf(hb, qs).heartbeat = hb
           /\ ChunkOf(hb, qs) = NoChunk => hb = 0 /\ qs = Empty /\ RestOf(hb, qs) = Empty
  <1> DEFINE room == ChunkSize - hb
             perf == qs["perf"]
             event == qs["event"]
             left == room - Min({room, Len(perf)})
  <1>1. perf \in Seq(AnyEntry) /\ event \in Seq(AnyEntry)
    BY DEF Queues
  <1> HIDE DEF perf, event
  <1>2. room \in Nat /\ (hb = 0 => room # 0)
    BY EventAssumption
  <1> HIDE DEF room
  <1>3. Len(perf) \in Nat /\ Len(event) \in Nat
    BY <1>1, LenProperties
  <1>4. left \in Nat /\ (Len(perf) = 0 => left = room)
    <2>1. Min({room, Len(perf)}) = IF room <= Len(perf) THEN room ELSE Len(perf)
      BY <1>2, <1>3, MinOfTwo
    <2> QED  BY <1>2, <1>3, <2>1
  <1> HIDE DEF left
  <1>5. /\ ChunkOf(hb, qs) = [heartbeat |-> hb, perf |-> Events(FirstOf(perf, room)),
                              event |-> Events(FirstOf(event, left))]
        /\ RestOf(hb, qs) = [q \in Queues |-> IF q = "perf" THEN AllBut(qs[q], room) ELSE AllBut(qs[q], left)]
    BY DEF ChunkOf, RestOf, room, left, perf, event
  <1>6. RestOf(hb, qs)["perf"] = AllBut(perf, room) /\ RestOf(hb, qs)["event"] = AllBut(event, left)
    BY <1>5 DEF Queues, perf, event
  <1>7. /\ FirstOf(perf, room) \in Seq(AnyEntry) /\ AllBut(perf, room) \in Seq(AnyEntry)
        /\ FirstOf(perf, room) \o AllBut(perf, room) = perf
        /\ Len(FirstOf(perf, room)) = IF room <= Len(perf) THEN room ELSE Len(perf)
        /\ FirstOf(event, left) \in Seq(AnyEntry) /\ AllBut(event, left) \in Seq(AnyEntry)
        /\ FirstOf(event, left) \o AllBut(event, left) = event
        /\ Len(FirstOf(event, left)) = IF left <= Len(event) THEN left ELSE Len(event)
    BY <1>1, <1>2, <1>4, SplitProperties
  <1>8. RestOf(hb, qs) \in [Queues -> Seq(AnyEntry)]
    BY <1>5, <1>7 DEF Queues, perf, event
  <1>9. /\ Events(perf) = Events(FirstOf(perf, room)) \o Events(AllBut(perf, room))
        /\ Events(event) = Events(FirstOf(event, left)) \o Events(AllBut(event, left))
    BY <1>7, EventsOfConcat
  <1>10. /\ Events(FirstOf(perf, room)) \in Seq(AnyEvent) /\ Events(FirstOf(event, left)) \in Seq(AnyEvent)
         /\ Len(Events(FirstOf(perf, room))) = Len(FirstOf(perf, room))
         /\ Len(Events(FirstOf(event, left))) = Len(FirstOf(event, left))
    BY <1>7, EventsType
  <1>11. ASSUME NEW q \in Queues
         PROVE  /\ ChunkOf(hb, qs)[q] \in Seq(AnyEvent)
                /\ ChunkOf(hb, qs)[q] \o Events(RestOf(hb, qs)[q]) = Events(qs[q])
    <2>1. CASE q = "perf"
      <3>1. ChunkOf(hb, qs)[q] = Events(FirstOf(perf, room)) /\ qs[q] = perf
        BY <1>5, <2>1 DEF perf
      <3> QED  BY <1>6, <1>9, <1>10, <2>1, <3>1
    <2>2. CASE q = "event"
      <3>1. ChunkOf(hb, qs)[q] = Events(FirstOf(event, left)) /\ qs[q] = event
        BY <1>5, <2>2 DEF event
      <3> QED  BY <1>6, <1>9, <1>10, <2>2, <3>1
    <2> QED  BY <2>1, <2>2 DEF Queues
  <1>12. ASSUME ChunkOf(hb, qs) = NoChunk PROVE hb = 0 /\ qs = Empty /\ RestOf(hb, qs) = Empty
    <2>1. /\ hb = 0 /\ Events(FirstOf(perf, room)) = <<>> /\ Events(FirstOf(event, left)) = <<>>
      <3>1. /\ ChunkOf(hb, qs).heartbeat = hb /\ ChunkOf(hb, qs).perf = Events(FirstOf(perf, room))
            /\ ChunkOf(hb, qs).event = Events(FirstOf(event, left))
        BY <1>5
      <3>2. NoChunk.heartbeat = 0 /\ NoChunk.perf = <<>> /\ NoChunk.event = <<>>
        BY DEF NoChunk
      <3> QED  BY <1>12, <3>1, <3>2
    <2>2. Len(<<>>) = 0
      OBVIOUS
    <2>3. Len(perf) = 0
      BY <1>2, <1>3, <1>7, <1>10, <2>1, <2>2
    <2>4. Len(event) = 0
      BY <1>2, <1>3, <1>4, <1>7, <1>10, <2>1, <2>2, <2>3
    <2>5. perf = <<>> /\ event = <<>>
      BY <1>1, <2>3, <2>4, EmptySeq
    <2>6. qs = [q \in Queues |-> qs[q]] /\ \A q \in Queues : qs[q] = <<>>
      BY <2>5 DEF Queues, perf, event
    <2>7. qs = Empty
      BY <2>6 DEF Empty
    <2>8. \A q \in Queues : RestOf(hb, qs)[q] = <<>>
      <3>1. AllBut(perf, room) = <<>> /\ AllBut(event, left) = <<>>
        <4>1. FirstOf(perf, room) \o AllBut(perf, room) = <<>> /\ FirstOf(event, left) \o AllBut(event, left) = <<>>
          BY <1>7, <2>5
        <4> HIDE DEF AnyEntry
        <4> QED  BY <1>7, <4>1, ConcatEqualIffEmpty
      <3> QED  BY <1>6, <3>1 DEF Queues
    <2>9. RestOf(hb, qs) = Empty
      BY <1>8, <2>8 DEF Empty
    <2> QED  BY <2>1, <2>7, <2>9
  <1>13. ChunkOf(hb, qs).heartbeat = hb
    BY <1>5
  <1> QED  BY <1>8, <1>11, <1>12, <1>13

-----------------------------------------------------------------------------
(* Both queues: each is as it should be, and their occurrences balance     *)

InFlight(ch, pr, q) == ch[q] \o Events(pr[q])

InAll(qs, ch, pr, se) == Occurrences(Line(qs["perf"], InFlight(ch, pr, "perf"), se["perf"]))
                       + Occurrences(Line(qs["event"], InFlight(ch, pr, "event"), se["event"]))

\* The queues qs, the chunk ch of the queues pr that a flush took over, the events se
\* that were sent, di occurrences discarded, n events added and dr of them dropped
Fine(qs, ch, pr, se, di, n, dr) ==
    /\ qs \in [Queues -> Seq(AnyEntry)] /\ pr \in [Queues -> Seq(AnyEntry)]
    /\ se \in [Queues -> Seq(AnyEvent)] /\ \A q \in Queues : ch[q] \in Seq(AnyEvent)
    /\ di \in Nat /\ n \in Nat /\ dr \in Nat /\ dr <= n
    /\ \A q \in Queues : OneQueue(qs[q], InFlight(ch, pr, q), se[q], n)
    /\ InAll(qs, ch, pr, se) + di <= n - dr
    /\ ~Deduplicate => InAll(qs, ch, pr, se) + di = n - dr

LEMMA FineTypes ==
    ASSUME NEW qs, NEW ch, NEW pr, NEW se, NEW di, NEW n, NEW dr,
           Fine(qs, ch, pr, se, di, n, dr), NEW q \in Queues
    PROVE  /\ qs[q] \in Seq(AnyEntry) /\ pr[q] \in Seq(AnyEntry) /\ ch[q] \in Seq(AnyEvent)
           /\ se[q] \in Seq(AnyEvent) /\ InFlight(ch, pr, q) \in Seq(AnyEvent)
           /\ Line(qs[q], InFlight(ch, pr, q), se[q]) \in Seq(AnyEvent)
           /\ Occurrences(Line(qs[q], InFlight(ch, pr, q), se[q])) \in Nat
  <1>1. /\ qs[q] \in Seq(AnyEntry) /\ pr[q] \in Seq(AnyEntry) /\ ch[q] \in Seq(AnyEvent)
        /\ se[q] \in Seq(AnyEvent) /\ InFlight(ch, pr, q) \in Seq(AnyEvent)
    BY DEF Fine, OneQueue
  <1>2. Line(qs[q], InFlight(ch, pr, q), se[q]) \in Seq(AnyEvent)
    BY <1>1, LineProperties
  <1> QED  BY <1>1, <1>2, OccSetProperties

LEMMA LaterQueue ==
    ASSUME NEW s, NEW evs, NEW out, NEW n \in Nat, OneQueue(s, evs, out, n)
    PROVE  OneQueue(s, evs, out, n + 1)
  <1>1. Line(s, evs, out) \in Seq(AnyEvent) /\ UpTo(Line(s, evs, out), n)
    BY LineProperties DEF OneQueue
  <1>2. ASSUME NEW i \in 1..Len(Line(s, evs, out)) PROVE Line(s, evs, out)[i].id <= n + 1
    <2>1. Line(s, evs, out)[i] \in AnyEvent
      BY <1>1, ElementOfSeq
    <2>2. Line(s, evs, out)[i].id \in Nat /\ Line(s, evs, out)[i].id <= n
      BY <1>1, <2>1 DEF UpTo, AnyEvent
    <2> QED  BY <2>2
  <1>3. UpTo(Line(s, evs, out), n + 1)
    BY <1>2 DEF UpTo
  <1> QED  BY <1>3 DEF OneQueue

LEMMA FineAdded ==
    ASSUME Fine(queue, chunk, prev, sent, discarded, lastId, dropped),
           NEW q \in Queues, NEW kind \in Kinds
    PROVE  LET new == Filing(q, kind)
           IN  /\ new.discarded \in Seq(AnyEvent)
               /\ Fine(new.queue, chunk, prev, sent, discarded + Occurrences(new.discarded), lastId + 1,
                       IF IsSuperfluous(kind) THEN dropped + 1 ELSE dropped)
  <1> DEFINE new == Filing(q, kind)
             fl(p) == InFlight(chunk, prev, p)
  <1>0. /\ queue \in [Queues -> Seq(AnyEntry)] /\ prev \in [Queues -> Seq(AnyEntry)]
        /\ sent \in [Queues -> Seq(AnyEvent)] /\ \A p \in Queues : chunk[p] \in Seq(AnyEvent)
        /\ discarded \in Nat /\ lastId \in Nat /\ dropped \in Nat /\ dropped <= lastId
        /\ \A p \in Queues : OneQueue(queue[p], fl(p), sent[p], lastId)
        /\ InAll(queue, chunk, prev, sent) + discarded <= lastId - dropped
        /\ ~Deduplicate => InAll(queue, chunk, prev, sent) + discarded = lastId - dropped
    BY DEF Fine
  <1>1. \A p \in Queues : OneQueue(queue[p], fl(p), sent[p], lastId + 1)
    BY <1>0, LaterQueue
  <1>2. lastId + 1 \in Nat /\ dropped <= lastId + 1 /\ dropped + 1 <= lastId + 1 /\ dropped + 1 \in Nat
    BY <1>0
  <1>3. CASE IsSuperfluous(kind)
    <2>1. new.queue = queue /\ new.discarded = <<>>
      BY <1>3 DEF Filing
    <2>2. discarded + Occurrences(new.discarded) = discarded
      BY <1>0, <2>1, OccEmpty
    <2>3. <<>> \in Seq(AnyEvent)
      OBVIOUS
    <2>4. (lastId + 1) - (dropped + 1) = lastId - dropped
      BY <1>0
    <2> HIDE DEF new
    <2> QED  BY <1>0, <1>1, <1>2, <1>3, <2>1, <2>2, <2>3, <2>4 DEF Fine, new
  <1>4. CASE ~IsSuperfluous(kind)
    <2> DEFINE r == Append1(queue[q], NewEvent(kind, lastId))
               qs == [queue EXCEPT ![q] = r.queue]
    <2>1. new.queue = qs /\ new.discarded = r.discarded
      BY <1>4 DEF Filing, NewEvent
    <2>2. /\ OneQueue(r.queue, fl(q), sent[q], lastId + 1)
          /\ r.discarded \in Seq(AnyEvent)
          /\ Occurrences(Line(r.queue, fl(q), sent[q])) + Occurrences(r.discarded)
                = Occurrences(Line(queue[q], fl(q), sent[q])) + 1
      BY <1>0, OneAdded
    <2> HIDE DEF r
    <2>3. r.queue \in Seq(AnyEntry) /\ qs \in [Queues -> Seq(AnyEntry)]
      BY <1>0, <2>2 DEF OneQueue
    <2>4. qs[q] = r.queue /\ \A p \in Queues : p # q => qs[p] = queue[p]
      BY <1>0
    <2>5. \A p \in Queues : OneQueue(qs[p], fl(p), sent[p], lastId + 1)
      BY <1>1, <2>2, <2>4
    <2>6. /\ \A p \in Queues : Occurrences(Line(queue[p], fl(p), sent[p])) \in Nat
          /\ Occurrences(Line(r.queue, fl(q), sent[q])) \in Nat /\ Occurrences(r.discarded) \in Nat
      <3>1. Line(r.queue, fl(q), sent[q]) \in Seq(AnyEvent)
        BY <2>2, LineProperties DEF OneQueue
      <3> QED  BY <2>2, <3>1, FineTypes, OccSetProperties
    <2>7. InAll(qs, chunk, prev, sent) + Occurrences(r.discarded) = InAll(queue, chunk, prev, sent) + 1
      <3> DEFINE o(p) == Occurrences(Line(queue[p], fl(p), sent[p]))
                 n(p) == Occurrences(Line(qs[p], fl(p), sent[p]))
      <3>1. InAll(qs, chunk, prev, sent) = n("perf") + n("event")
        BY DEF InAll
      <3>2. InAll(queue, chunk, prev, sent) = o("perf") + o("event")
        BY DEF InAll
      <3>3. n(q) + Occurrences(r.discarded) = o(q) + 1 /\ o(q) \in Nat /\ n(q) \in Nat
        BY <2>2, <2>4, <2>6
      <3>4. \A p \in Queues : p # q => n(p) = o(p) /\ o(p) \in Nat
        BY <2>4, <2>6
      <3> HIDE DEF n, o
      <3>5. CASE q = "perf"
        <4>1. n("event") = o("event") /\ o("event") \in Nat
          BY <3>4, <3>5 DEF Queues
        <4> QED  BY <2>6, <3>1, <3>2, <3>3, <3>5, <4>1
      <3>6. CASE q = "event"
        <4>1. n("perf") = o("perf") /\ o("perf") \in Nat
          BY <3>4, <3>6 DEF Queues
        <4> QED  BY <2>6, <3>1, <3>2, <3>3, <3>6, <4>1
      <3> QED  BY <3>5, <3>6 DEF Queues
    <2>8. InAll(qs, chunk, prev, sent) \in Int /\ InAll(queue, chunk, prev, sent) \in Int
      <3>1. /\ Occurrences(Line(queue["perf"], fl("perf"), sent["perf"])) \in Nat
            /\ Occurrences(Line(queue["event"], fl("event"), sent["event"])) \in Nat
        BY <2>6 DEF Queues
      <3>2. InAll(queue, chunk, prev, sent) \in Nat
        BY <3>1 DEF InAll
      <3>3. \A p \in Queues : Occurrences(Line(qs[p], fl(p), sent[p])) \in Nat
        BY <2>4, <2>6
      <3>4. InAll(qs, chunk, prev, sent) \in Nat
        BY <3>3 DEF InAll, Queues
      <3> QED  BY <3>2, <3>4
    <2> HIDE DEF qs
    <2>9. /\ InAll(qs, chunk, prev, sent) + (discarded + Occurrences(r.discarded)) <= (lastId + 1) - dropped
          /\ ~Deduplicate =>
               InAll(qs, chunk, prev, sent) + (discarded + Occurrences(r.discarded)) = (lastId + 1) - dropped
      <3> DEFINE a == InAll(qs, chunk, prev, sent)
                 b == InAll(queue, chunk, prev, sent)
                 d == Occurrences(r.discarded)
      <3>1. a + d = b + 1 /\ a \in Int /\ b \in Int /\ d \in Nat
        BY <2>6, <2>7, <2>8
      <3>2. /\ discarded \in Nat /\ lastId \in Nat /\ dropped \in Nat
            /\ b + discarded <= lastId - dropped
            /\ ~Deduplicate => b + discarded = lastId - dropped
        BY <1>0
      <3> HIDE DEF a, b, d
      <3>3. /\ a + (discarded + d) <= (lastId + 1) - dropped
            /\ ~Deduplicate => a + (discarded + d) = (lastId + 1) - dropped
        BY <3>1, <3>2
      <3> QED  BY <3>3 DEF a, d
    <2>10. discarded + Occurrences(r.discarded) \in Nat
      BY <1>0, <2>6
    <2>11. Fine(qs, chunk, prev, sent, discarded + Occurrences(r.discarded), lastId + 1, dropped)
      BY <1>0, <1>2, <2>3, <2>5, <2>9, <2>10 DEF Fine, qs
    <2> HIDE DEF new
    <2> QED  BY <1>4, <2>1, <2>2, <2>11 DEF new
  <1> QED  BY <1>3, <1>4

LEMMA EmptyLines ==
    \A q \in Queues : /\ Empty[q] = <<>> /\ NoChunk[q] = <<>> /\ NoChunk[q] \in Seq(AnyEvent)
                      /\ Empty[q] \in Seq(AnyEntry) /\ Events(Empty[q]) = <<>>
                      /\ InFlight(NoChunk, Empty, q) = <<>>
  <1>1. <<>> \in Seq(AnyEvent) /\ <<>> \in Seq(AnyEntry) /\ Events(<<>>) = <<>>
    BY DEF Events
  <1>2. \A q \in Queues : Empty[q] = <<>> /\ NoChunk[q] = <<>>
    BY DEF Empty, NoChunk, Queues
  <1>3. <<>> \o <<>> = <<>>
    BY <1>1, ConcatEmptySeq
  <1> QED  BY <1>1, <1>2, <1>3 DEF InFlight

LEMMA FineTaken ==
    ASSUME NEW qs, NEW se, NEW di, NEW n, NEW dr, Fine(qs, NoChunk, Empty, se, di, n, dr),
           NEW hb \in {0, 1}
    PROVE  Fine(Empty, ChunkOf(hb, qs), RestOf(hb, qs), se, di, n, dr)
  <1> DEFINE ch == ChunkOf(hb, qs)
             pr == RestOf(hb, qs)
  <1>0. /\ qs \in [Queues -> Seq(AnyEntry)] /\ se \in [Queues -> Seq(AnyEvent)]
        /\ di \in Nat /\ n \in Nat /\ dr \in Nat /\ dr <= n
        /\ \A q \in Queues : OneQueue(qs[q], <<>>, se[q], n)
        /\ InAll(qs, NoChunk, Empty, se) + di <= n - dr
        /\ ~Deduplicate => InAll(qs, NoChunk, Empty, se) + di = n - dr
    BY EmptyLines DEF Fine
  <1>1. /\ pr \in [Queues -> Seq(AnyEntry)]
        /\ \A q \in Queues : ch[q] \in Seq(AnyEvent) /\ InFlight(ch, pr, q) = Events(qs[q])
    BY <1>0, ChunkProperties DEF InFlight
  <1> HIDE DEF ch, pr
  <1>2. ASSUME NEW q \in Queues
        PROVE  /\ OneQueue(Empty[q], InFlight(ch, pr, q), se[q], n)
               /\ Occurrences(Line(Empty[q], InFlight(ch, pr, q), se[q]))
                    = Occurrences(Line(qs[q], InFlight(NoChunk, Empty, q), se[q]))
    BY <1>0, <1>1, OneTaken, EmptyLines
  <1>3. Empty \in [Queues -> Seq(AnyEntry)]
    BY EmptyLines DEF Empty
  <1>4. InAll(Empty, ch, pr, se) = InAll(qs, NoChunk, Empty, se)
    BY <1>2 DEF InAll, Queues
  <1>5. Fine(Empty, ch, pr, se, di, n, dr)
    BY <1>0, <1>1, <1>2, <1>3, <1>4 DEF Fine
  <1> QED  BY <1>5 DEF ch, pr

LEMMA FineAnswered ==
    ASSUME NEW qs, NEW ch, NEW pr, NEW se, NEW di, NEW n, NEW dr,
           Fine(qs, ch, pr, se, di, n, dr)
    PROVE  Fine(qs, NoChunk, pr, [q \in Queues |-> se[q] \o ch[q]], di, n, dr)
  <1> DEFINE out == [q \in Queues |-> se[q] \o ch[q]]
  <1>0. /\ qs \in [Queues -> Seq(AnyEntry)] /\ pr \in [Queues -> Seq(AnyEntry)]
        /\ se \in [Queues -> Seq(AnyEvent)] /\ \A q \in Queues : ch[q] \in Seq(AnyEvent)
        /\ di \in Nat /\ n \in Nat /\ dr \in Nat /\ dr <= n
        /\ \A q \in Queues : OneQueue(qs[q], InFlight(ch, pr, q), se[q], n)
        /\ InAll(qs, ch, pr, se) + di <= n - dr
        /\ ~Deduplicate => InAll(qs, ch, pr, se) + di = n - dr
    BY DEF Fine
  <1>1. ASSUME NEW q \in Queues
        PROVE  /\ Events(pr[q]) \in Seq(AnyEvent)
               /\ InFlight(NoChunk, pr, q) = Events(pr[q])
    <2>1. pr[q] \in Seq(AnyEntry)
      BY <1>0
    <2>2. Events(pr[q]) \in Seq(AnyEvent)
      BY <2>1, EventsType
    <2> HIDE DEF AnyEvent
    <2> QED  BY <2>2, EmptyLines, ConcatEmptySeq DEF InFlight
  <1>2. ASSUME NEW q \in Queues
        PROVE  /\ OneQueue(qs[q], InFlight(NoChunk, pr, q), out[q], n)
               /\ Line(qs[q], InFlight(NoChunk, pr, q), out[q]) = Line(qs[q], InFlight(ch, pr, q), se[q])
    <2>1. OneQueue(qs[q], ch[q] \o Events(pr[q]), se[q], n)
      BY <1>0 DEF InFlight
    <2>2. out[q] = se[q] \o ch[q]
      OBVIOUS
    <2>3. ch[q] \in Seq(AnyEvent) /\ Events(pr[q]) \in Seq(AnyEvent)
      BY <1>0, <1>1
    <2>4. /\ OneQueue(qs[q], Events(pr[q]), se[q] \o ch[q], n)
          /\ Line(qs[q], Events(pr[q]), se[q] \o ch[q]) = Line(qs[q], ch[q] \o Events(pr[q]), se[q])
      BY <2>1, <2>3, OneAnswered
    <2>5. InFlight(ch, pr, q) = ch[q] \o Events(pr[q])
      BY DEF InFlight
    <2> QED  BY <1>1, <2>2, <2>4, <2>5
  <1>3. out \in [Queues -> Seq(AnyEvent)]
    <2>1. \A q \in Queues : out[q] \in Seq(AnyEvent)
      BY <1>2 DEF OneQueue
    <2> QED  BY <2>1
  <1> HIDE DEF out
  <1>4. InAll(qs, NoChunk, pr, out) = InAll(qs, ch, pr, se)
    BY <1>2 DEF InAll, Queues
  <1>5. Fine(qs, NoChunk, pr, out, di, n, dr)
    BY <1>0, <1>2, <1>3, <1>4, EmptyLines DEF Fine
  <1> QED  BY <1>5 DEF out

LEMMA FineNext ==
    ASSUME NEW qs, NEW pr, NEW se, NEW di, NEW n, NEW dr, Fine(qs, NoChunk, pr, se, di, n, dr)
    PROVE  Fine(qs, ChunkOf(0, pr), RestOf(0, pr), se, di, n, dr)
  <1> DEFINE ch == ChunkOf(0, pr)
             rest == RestOf(0, pr)
  <1>0. /\ pr \in [Queues -> Seq(AnyEntry)]
        /\ \A q \in Queues : OneQueue(qs[q], InFlight(NoChunk, pr, q), se[q], n)
    BY DEF Fine
  <1>1. /\ rest \in [Queues -> Seq(AnyEntry)]
        /\ \A q \in Queues : ch[q] \in Seq(AnyEvent) /\ InFlight(ch, rest, q) = Events(pr[q])
    <2>1. 0 \in {0, 1}
      OBVIOUS
    <2> QED  BY <1>0, <2>1, ChunkProperties DEF InFlight
  <1>2. \A q \in Queues : InFlight(NoChunk, pr, q) = Events(pr[q])
    <2>1. ASSUME NEW q \in Queues PROVE <<>> \o Events(pr[q]) = Events(pr[q])
      <3>1. Events(pr[q]) \in Seq(AnyEvent)
        BY <1>0, EventsType
      <3> HIDE DEF AnyEvent
      <3> QED  BY <3>1, ConcatEmptySeq
    <2> QED  BY <2>1, EmptyLines DEF InFlight
  <1> HIDE DEF ch, rest
  <1>3. \A q \in Queues : InFlight(ch, rest, q) = InFlight(NoChunk, pr, q)
    BY <1>1, <1>2
  <1>4. InAll(qs, ch, rest, se) = InAll(qs, NoChunk, pr, se)
    BY <1>3 DEF InAll, Queues
  <1>5. Fine(qs, ch, rest, se, di, n, dr)
    BY <1>1, <1>3, <1>4 DEF Fine
  <1> QED  BY <1>5 DEF ch, rest

Back == [q \in Queues |-> ExtendLeft(queue[q], InFlight(chunk, prev, q))]
Over == Back["perf"].discarded \o Back["event"].discarded

LEMMA FineFailed ==
    ASSUME Fine(queue, chunk, prev, sent, discarded, lastId, dropped)
    PROVE  /\ Over \in Seq(AnyEvent)
           /\ Fine([q \in Queues |-> Back[q].queue], NoChunk, Empty, sent, discarded + Occurrences(Over),
                   lastId, dropped)
  <1> DEFINE fl(q) == InFlight(chunk, prev, q)
             qs == [q \in Queues |-> Back[q].queue]
             o(q) == Occurrences(Line(queue[q], fl(q), sent[q]))
             p(q) == Occurrences(Line(qs[q], <<>>, sent[q]))
             d(q) == Occurrences(Back[q].discarded)
  <1>0. /\ sent \in [Queues -> Seq(AnyEvent)]
        /\ discarded \in Nat /\ lastId \in Nat /\ dropped \in Nat /\ dropped <= lastId
        /\ \A q \in Queues : OneQueue(queue[q], fl(q), sent[q], lastId)
        /\ InAll(queue, chunk, prev, sent) + discarded <= lastId - dropped
        /\ ~Deduplicate => InAll(queue, chunk, prev, sent) + discarded = lastId - dropped
    BY DEF Fine
  <1>1. ASSUME NEW q \in Queues
        PROVE  /\ OneQueue(qs[q], <<>>, sent[q], lastId)
               /\ Back[q].discarded \in Seq(AnyEvent)
               /\ p(q) + d(q) <= o(q)
               /\ ~Deduplicate => p(q) + d(q) = o(q)
    <2>1. Back[q] = ExtendLeft(queue[q], fl(q)) /\ qs[q] = Back[q].queue
      BY DEF Back
    <2> QED  BY <1>0, <2>1, OnePutBack
  <1>2. ASSUME NEW q \in Queues PROVE o(q) \in Nat /\ p(q) \in Nat /\ d(q) \in Nat
    <2>1. Line(queue[q], fl(q), sent[q]) \in Seq(AnyEvent)
      BY <1>0, LineProperties DEF OneQueue
    <2>2. Line(qs[q], <<>>, sent[q]) \in Seq(AnyEvent)
      BY <1>1, LineProperties DEF OneQueue
    <2> QED  BY <1>1, <2>1, <2>2, OccSetProperties
  <1>3. Over \in Seq(AnyEvent) /\ Occurrences(Over) = d("perf") + d("event")
    <2>1. Back["perf"].discarded \in Seq(AnyEvent) /\ Back["event"].discarded \in Seq(AnyEvent)
      BY <1>1 DEF Queues
    <2>2. Over \in Seq(AnyEvent)
      <3> HIDE DEF AnyEvent
      <3> QED  BY <2>1, Concat DEF Over
    <2> QED  BY <2>1, <2>2, OccConcat DEF Over
  <1>4. InAll(queue, chunk, prev, sent) = o("perf") + o("event")
    BY DEF InAll
  <1>5. InAll(qs, NoChunk, Empty, sent) = p("perf") + p("event")
    BY EmptyLines DEF InAll, Queues
  <1>6. qs \in [Queues -> Seq(AnyEntry)]
    BY <1>1 DEF OneQueue
  <1>7. \A q \in Queues : OneQueue(qs[q], InFlight(NoChunk, Empty, q), sent[q], lastId)
    BY <1>1, EmptyLines
  <1>8. /\ o("perf") \in Nat /\ p("perf") \in Nat /\ d("perf") \in Nat
        /\ o("event") \in Nat /\ p("event") \in Nat /\ d("event") \in Nat
        /\ p("perf") + d("perf") <= o("perf") /\ p("event") + d("event") <= o("event")
        /\ ~Deduplicate => p("perf") + d("perf") = o("perf") /\ p("event") + d("event") = o("event")
    BY <1>1, <1>2 DEF Queues
  <1> HIDE DEF o, p, d, qs, fl
  <1>9. /\ InAll(qs, NoChunk, Empty, sent) + (discarded + Occurrences(Over)) <= lastId - dropped
        /\ ~Deduplicate => InAll(qs, NoChunk, Empty, sent) + (discarded + Occurrences(Over)) = lastId - dropped
        /\ discarded + Occurrences(Over) \in Nat
    <2> DEFINE old == InAll(queue, chunk, prev, sent)
               new == InAll(qs, NoChunk, Empty, sent)
               over == Occurrences(Over)
    <2>1. old \in Nat /\ new \in Nat /\ over \in Nat
      BY <1>3, <1>4, <1>5, <1>8
    <2>2. new + over <= old /\ (~Deduplicate => new + over = old)
      BY <1>3, <1>4, <1>5, <1>8
    <2>3. old + discarded <= lastId - dropped /\ (~Deduplicate => old + discarded = lastId - dropped)
      BY <1>0
    <2> HIDE DEF old, new, over
    <2>4. /\ new + (discarded + over) <= lastId - dropped
          /\ ~Deduplicate => new + (discarded + over) = lastId - dropped
          /\ discarded + over \in Nat
      BY <1>0, <2>1, <2>2, <2>3
    <2> QED  BY <2>4 DEF old, new, over
  <1>10. Empty \in [Queues -> Seq(AnyEntry)]
    BY EmptyLines DEF Empty
  <1>11. Fine(qs, NoChunk, Empty, sent, discarded + Occurrences(Over), lastId, dropped)
    BY <1>0, <1>6, <1>7, <1>9, <1>10, EmptyLines DEF Fine
  <1> QED  BY <1>3, <1>11 DEF qs

-----------------------------------------------------------------------------
(* The state of clears, as far as its types go                             *)

ClearsTyped(count, last, n) ==
    /\ DOMAIN count \subseteq ClearFingerprints
    /\ \A fp \in DOMAIN count : count[fp] \in Int
    /\ last \in [ClearFingerprints -> 0..n]

LEMMA UncountedTyped ==
    ASSUME NEW count, NEW evs \in Seq(AnyEvent),
           DOMAIN count \subseteq ClearFingerprints, \A fp \in DOMAIN count : count[fp] \in Int
    PROVE  /\ DOMAIN Uncounted(count, evs) = DOMAIN count
           /\ \A fp \in DOMAIN count : Uncounted(count, evs)[fp] \in Int
           /\ evs = <<>> => \A fp \in DOMAIN count : Uncounted(count, evs)[fp] = count[fp]
  <1> DEFINE G(f) == {i \in DOMAIN evs : evs[i].kind \in Clears /\ ClearFingerprint[evs[i].kind] = f}
  <1>1. ASSUME NEW f
        PROVE  /\ Cardinality(G(f)) \in Nat
               /\ evs = <<>> => Cardinality(G(f)) = 0
    <2>1. DOMAIN evs = 1..Len(evs) /\ IsFiniteSet(1..Len(evs))
      <3>1. Len(evs) \in Int /\ 1 \in Int
        OBVIOUS
      <3> QED  BY <3>1, FS_Interval
    <2>2. G(f) \in SUBSET (1..Len(evs))
      BY <2>1
    <2>3. evs = <<>> => G(f) = {}
      OBVIOUS
    <2> HIDE DEF G
    <2>4. IsFiniteSet(G(f))
      BY <2>1, <2>2, FS_Subset
    <2> QED  BY <2>3, <2>4, FS_CardinalityType, FS_EmptySet
  <1>2. Uncounted(count, evs) = IF ~AllowDuplicateClears /\ DuplicateClearInterval = 0
                                THEN [f \in DOMAIN count |-> count[f] - Cardinality(G(f))]
                                ELSE count
    BY DEF Uncounted
  <1> HIDE DEF G
  <1> QED  BY <1>1, <1>2

LEMMA CountedTyped ==
    ASSUME ClearsTyped(clearCount, lastProblem, lastId), NEW kind \in Kinds
    PROVE  /\ DOMAIN CountedClear(kind) \subseteq ClearFingerprints
           /\ \A f \in DOMAIN CountedClear(kind) : CountedClear(kind)[f] \in Int
  <1> DEFINE fp == ClearFingerprint[kind]
             c == CountedClear(kind)
  <1>1. fp \in ClearFingerprints
    BY DEF ClearFingerprints
  <1>2. \A f \in DOMAIN clearCount : f \in ClearFingerprints /\ clearCount[f] \in Int
    BY DEF ClearsTyped
  <1>3. CountOf(fp) \in Int
    BY <1>2 DEF CountOf
  <1>4. CASE ~ClearsChecked
    <2>1. c = clearCount
      BY <1>4 DEF CountedClear
    <2> QED  BY <1>2, <2>1
  <1>5. CASE ClearsChecked /\ kind \in Clears
    <2>1. c = [f \in DOMAIN clearCount \cup {fp} |-> IF f = fp THEN CountOf(fp) + 1 ELSE clearCount[f]]
      BY <1>5 DEF CountedClear
    <2> QED  BY <1>1, <1>2, <1>3, <2>1
  <1>6. CASE ClearsChecked /\ kind \notin Clears
    <2>1. c = [f \in DOMAIN clearCount \ {fp} |-> clearCount[f]]
      BY <1>6 DEF CountedClear
    <2> QED  BY <1>2, <2>1
  <1> QED  BY <1>4, <1>5, <1>6

LEMMA ClearsAdded ==
    ASSUME ClearsTyped(clearCount, lastProblem, lastId), lastId \in Nat,
           NEW q \in Queues, NEW kind \in Kinds, Filing(q, kind).discarded \in Seq(AnyEvent),
           Recorded(q, kind)
    PROVE  ClearsTyped(clearCount', lastProblem', lastId')
  <1> DEFINE fp == ClearFingerprint[kind]
             out == Filing(q, kind).discarded
             c == CountedClear(kind)
  <1>1. DOMAIN c \subseteq ClearFingerprints /\ \A f \in DOMAIN c : c[f] \in Int
    BY CountedTyped
  <1> HIDE DEF c
  <1>2. clearCount' = Uncounted(c, out) /\ lastId' = lastId + 1
    BY DEF Recorded, c
  <1>3. /\ DOMAIN clearCount' \subseteq ClearFingerprints
        /\ \A f \in DOMAIN clearCount' : clearCount'[f] \in Int
    BY <1>1, <1>2, UncountedTyped
  <1>4. lastProblem' \in [ClearFingerprints -> 0..lastId']
    <2>1. lastProblem \in [ClearFingerprints -> 0..lastId] /\ fp \in ClearFingerprints
      BY DEF ClearsTyped, ClearFingerprints
    <2>2. 0..lastId \subseteq 0..lastId' /\ lastId + 1 \in 0..lastId'
      BY <1>2
    <2>3. lastProblem \in [ClearFingerprints -> 0..lastId']
      BY <2>1, <2>2
    <2>4. lastProblem' = IF kind \in Clears THEN lastProblem ELSE [lastProblem EXCEPT ![fp] = lastId + 1]
      BY DEF Recorded
    <2> QED  BY <2>1, <2>2, <2>3, <2>4
  <1> QED  BY <1>3, <1>4 DEF ClearsTyped

-----------------------------------------------------------------------------
(* De-duplication keeps the last of several events.  A fingerprint may be   *)
(* in a queue twice, as the key of one entry and as the kind and count of   *)
(* the event of another, and after a failed flush the second comes under    *)
(* the key of the first.  The later event is kept because of what the keys  *)
(* of a queue tell about its order.                                         *)

\* Of two entries of one kind the one that is filed under the count 1 is the later; an
\* entry filed under another count was put back, and nothing was merged into it.
KeysTell(s) ==
    /\ \A i, j \in 1..Len(s) :
          i # j /\ s[i].event.kind = s[j].event.kind /\ s[j].key[2] = 1
            => i < j /\ s[i].event.id < s[j].event.id
    /\ \A i \in 1..Len(s) : s[i].key[2] # 1 => s[i].event.count = s[i].key[2]

\* Of two events with one fingerprint the later comes last, and of two of one kind
\* the one that counts 1.
CountsTell(evs) ==
    /\ \A i, j \in 1..Len(evs) :
          i < j /\ Fingerprint(evs[i]) = Fingerprint(evs[j]) => evs[i].id < evs[j].id
    /\ \A i, j \in 1..Len(evs) :
          i # j /\ evs[i].kind = evs[j].kind /\ evs[j].count = 1 => i < j /\ evs[i].id < evs[j].id

\* What is in flight is older than what is queued, and while it is, nothing is put back.
Fresh(s, evs) ==
    Deduplicate => /\ KeysTell(s) /\ CountsTell(evs)
                   /\ evs # <<>> => \A i \in 1..Len(s) : s[i].key[2] = 1
                   /\ \A i \in 1..Len(evs), j \in 1..Len(s) : evs[i].id < s[j].event.id

LEMMA EntryFacts ==
    ASSUME NEW s \in Seq(AnyEntry), NEW i \in 1..Len(s)
    PROVE  /\ s[i] \in AnyEntry /\ s[i].event \in AnyEvent
           /\ s[i].event.id \in Nat \ {0} /\ s[i].event.count \in Nat \ {0} /\ s[i].event.kind \in Kinds
           /\ s[i].key = <<s[i].event.kind, s[i].key[2]>>
           /\ s[i].key[2] \in Nat \ {0} /\ s[i].key[2] <= s[i].event.count
  <1>1. s[i] \in AnyEntry
    BY ElementOfSeq
  <1>2. /\ s[i].key \in Kinds \X (Nat \ {0}) /\ s[i].event \in AnyEvent
        /\ s[i].key[1] = s[i].event.kind /\ s[i].key[2] <= s[i].event.count
    BY <1>1 DEF AnyEntry
  <1> QED  BY <1>1, <1>2 DEF AnyEvent

LEMMA CountsOfPart ==
    ASSUME NEW p, NEW evs, Len(p) \in Nat, Len(evs) \in Nat, Part(p, evs), CountsTell(evs)
    PROVE  CountsTell(p)
  <1>1. PICK e : IsPart(e, p, evs)
    BY DEF Part
  <1>2. ASSUME NEW i \in 1..Len(p), NEW j \in 1..Len(p)
        PROVE  /\ e[i] \in 1..Len(evs) /\ e[j] \in 1..Len(evs) /\ p[i] = evs[e[i]] /\ p[j] = evs[e[j]]
               /\ i < j => e[i] < e[j]
               /\ e[i] < e[j] => i < j
               /\ i # j => e[i] # e[j]
    <2>1. /\ e[i] \in 1..Len(evs) /\ e[j] \in 1..Len(evs) /\ p[i] = evs[e[i]] /\ p[j] = evs[e[j]]
          /\ i < j => e[i] < e[j]
          /\ j < i => e[j] < e[i]
      BY <1>1 DEF IsPart
    <2>2. i < j \/ j < i \/ i = j
      OBVIOUS
    <2> QED  BY <2>1, <2>2
  <1>3. ASSUME NEW i \in 1..Len(p), NEW j \in 1..Len(p), i < j, Fingerprint(p[i]) = Fingerprint(p[j])
        PROVE  p[i].id < p[j].id
    <2>1. /\ e[i] \in 1..Len(evs) /\ e[j] \in 1..Len(evs) /\ e[i] < e[j]
          /\ p[i] = evs[e[i]] /\ p[j] = evs[e[j]]
      BY <1>2, <1>3
    <2> QED  BY <1>3, <2>1 DEF CountsTell
  <1>4. ASSUME NEW i \in 1..Len(p), NEW j \in 1..Len(p), i # j, p[i].kind = p[j].kind, p[j].count = 1
        PROVE  i < j /\ p[i].id < p[j].id
    <2>1. /\ e[i] \in 1..Len(evs) /\ e[j] \in 1..Len(evs) /\ e[i] # e[j]
          /\ p[i] = evs[e[i]] /\ p[j] = evs[e[j]]
      BY <1>2, <1>4
    <2>2. e[i] < e[j] /\ evs[e[i]].id < evs[e[j]].id
      BY <1>4, <2>1 DEF CountsTell
    <2>3. e[i] < e[j] => i < j
      <3>1. /\ j < i => e[j] < e[i]
            /\ e[i] \in Int /\ e[j] \in Int
        BY <1>2, <2>1
      <3> QED  BY <1>4, <3>1
    <2> QED  BY <2>1, <2>2, <2>3
  <1> QED  BY <1>3, <1>4 DEF CountsTell

LEMMA KeysTellOfPart ==
    ASSUME NEW p, NEW s, Len(p) \in Nat, Len(s) \in Nat, Part(p, s), KeysTell(s)
    PROVE  KeysTell(p)
  <1>1. PICK e : IsPart(e, p, s)
    BY DEF Part
  <1>2. ASSUME NEW i \in 1..Len(p), NEW j \in 1..Len(p)
        PROVE  /\ e[i] \in 1..Len(s) /\ e[j] \in 1..Len(s) /\ p[i] = s[e[i]] /\ p[j] = s[e[j]]
               /\ e[i] < e[j] => i < j
               /\ i # j => e[i] # e[j]
    <2>1. /\ e[i] \in 1..Len(s) /\ e[j] \in 1..Len(s) /\ p[i] = s[e[i]] /\ p[j] = s[e[j]]
          /\ i < j => e[i] < e[j]
          /\ j < i => e[j] < e[i]
      BY <1>1 DEF IsPart
    <2>2. i < j \/ j < i \/ i = j
      OBVIOUS
    <2> QED  BY <2>1, <2>2
  <1>3. ASSUME NEW i \in 1..Len(p), NEW j \in 1..Len(p), i # j, p[i].event.kind = p[j].event.kind,
               p[j].key[2] = 1
        PROVE  i < j /\ p[i].event.id < p[j].event.id
    <2>1. /\ e[i] \in 1..Len(s) /\ e[j] \in 1..Len(s) /\ e[i] # e[j]
          /\ p[i] = s[e[i]] /\ p[j] = s[e[j]] /\ (e[i] < e[j] => i < j)
      BY <1>2, <1>3
    <2>2. PICK a \in 1..Len(s), b \in 1..Len(s) : a = e[i] /\ b = e[j]
      BY <2>1
    <2>3. /\ a # b /\ s[a].event.kind = s[b].event.kind /\ s[b].key[2] = 1
          /\ p[i] = s[a] /\ p[j] = s[b] /\ (a < b => i < j)
      BY <1>3, <2>1, <2>2
    <2>4. a < b /\ s[a].event.id < s[b].event.id
      BY <2>3 DEF KeysTell
    <2> QED  BY <2>3, <2>4
  <1>4. ASSUME NEW i \in 1..Len(p), p[i].key[2] # 1
        PROVE  p[i].event.count = p[i].key[2]
    <2>1. e[i] \in 1..Len(s) /\ p[i] = s[e[i]]
      BY <1>2
    <2> QED  BY <1>4, <2>1 DEF KeysTell
  <1> QED  BY <1>3, <1>4 DEF KeysTell

LEMMA FreshAdded ==
    ASSUME NEW s, NEW evs, NEW out, NEW n \in Nat, OneQueue(s, evs, out, n), Fresh(s, evs),
           NEW k \in Kinds
    PROVE  Fresh(Append1(s, NewEvent(k, n)).queue, evs)
  <1> DEFINE r == Append1(s, NewEvent(k, n))
  <1> SUFFICES ASSUME Deduplicate PROVE Fresh(r.queue, evs)
    BY DEF Fresh
  <1>0. /\ s \in Seq(AnyEntry) /\ evs \in Seq(AnyEvent) /\ out \in Seq(AnyEvent)
        /\ Len(s) <= MaxQueueLen /\ KeysDiffer(s) /\ UpTo(Line(s, evs, out), n)
        /\ KeysTell(s) /\ CountsTell(evs)
        /\ evs # <<>> => \A i \in 1..Len(s) : s[i].key[2] = 1
        /\ \A i \in 1..Len(evs), j \in 1..Len(s) : evs[i].id < s[j].event.id
    BY DEF OneQueue, Fresh
  <1>1. PICK p, x : Adds(s, k, n, r, p, x)
    BY <1>0, Append1Adds
  <1> HIDE DEF r
  <1>2. /\ p \in Seq(AnyEntry) /\ x \in AnyEntry /\ r.queue = Append(p, x) /\ Part(p, s)
        /\ x.key = <<k, 1>> /\ x.event.id = n + 1 /\ x.event.kind = k
        /\ \A l \in 1..Len(p) : p[l].key # x.key
    BY <1>1 DEF Adds
  <1> DEFINE t == r.queue
             last == Len(p) + 1
  <1>3. /\ Len(t) = last /\ Len(p) \in Nat /\ Len(s) \in Nat
        /\ t[last] = x /\ \A l \in 1..Len(p) : t[l] = p[l]
        /\ \A l \in 1..Len(t) : l \in 1..Len(p) \/ l = last
    BY <1>0, <1>2, AppendProperties, LenProperties
  <1>4. PICK e : IsPart(e, p, s)
    BY <1>2 DEF Part
  <1>5. \A l \in 1..Len(p) : e[l] \in 1..Len(s) /\ t[l] = s[e[l]]
    BY <1>3, <1>4 DEF IsPart
  <1>6. KeysTell(p)
    BY <1>0, <1>2, <1>3, KeysTellOfPart
  <1>7. UpTo(evs, n) /\ UpTo(Events(s), n)
    BY <1>0, LineProperties
  <1>8. ASSUME NEW l \in 1..Len(p) PROVE t[l].event.id <= n /\ t[l].event.id < n + 1
    <2>1. Events(s)[e[l]].id <= n /\ Events(s)[e[l]] = s[e[l]].event
      BY <1>0, <1>5, <1>7, EventsType DEF UpTo
    <2>2. s[e[l]].event.id \in Nat
      BY <1>0, <1>5, EntryFacts
    <2> QED  BY <1>5, <2>1, <2>2
  <1>9. ASSUME NEW i \in 1..Len(t), NEW j \in 1..Len(t), i # j, t[i].event.kind = t[j].event.kind,
               t[j].key[2] = 1
        PROVE  i < j /\ t[i].event.id < t[j].event.id
    <2>1. CASE i \in 1..Len(p) /\ j \in 1..Len(p)
      BY <1>3, <1>6, <1>9, <2>1 DEF KeysTell
    <2>2. CASE i \in 1..Len(p) /\ j = last
      <3>1. i < j
        BY <1>3, <2>2
      <3> QED  BY <1>2, <1>3, <1>8, <2>2, <3>1
    <2>3. CASE i = last /\ j \in 1..Len(p)
      <3>1. p[j].key = <<p[j].event.kind, 1>>
        BY <1>2, <1>3, <1>9, <2>3, EntryFacts
      <3>2. p[j].event.kind = k
        BY <1>2, <1>3, <1>9, <2>3
      <3> QED  BY <1>2, <2>3, <3>1, <3>2
    <2> QED  BY <1>3, <1>9, <2>1, <2>2, <2>3
  <1>10. ASSUME NEW i \in 1..Len(t), t[i].key[2] # 1 PROVE t[i].event.count = t[i].key[2]
    <2>1. i # last
      BY <1>2, <1>3, <1>10
    <2> QED  BY <1>3, <1>6, <1>10, <2>1 DEF KeysTell
  <1>11. ASSUME evs # <<>>, NEW i \in 1..Len(t) PROVE t[i].key[2] = 1
    <2>1. CASE i \in 1..Len(p)
      <3>1. e[i] \in 1..Len(s) /\ t[i] = s[e[i]]
        BY <1>5, <2>1
      <3>2. s[e[i]].key[2] = 1
        BY <1>0, <1>11, <3>1
      <3> QED  BY <3>1, <3>2
    <2>2. CASE i = last
      BY <1>2, <1>3, <2>2
    <2> QED  BY <1>3, <2>1, <2>2
  <1>12. ASSUME NEW i \in 1..Len(evs), NEW j \in 1..Len(t) PROVE evs[i].id < t[j].event.id
    <2>1. CASE j \in 1..Len(p)
      BY <1>0, <1>5, <2>1
    <2>2. CASE j = last
      <3>1. evs[i] \in AnyEvent
        BY <1>0, ElementOfSeq
      <3>2. evs[i].id \in Nat /\ evs[i].id <= n
        BY <1>7, <3>1 DEF UpTo, AnyEvent
      <3> QED  BY <1>2, <1>3, <2>2, <3>2
    <2> QED  BY <1>3, <2>1, <2>2
  <1>13. KeysTell(t)
    BY <1>9, <1>10 DEF KeysTell
  <1> QED  BY <1>0, <1>11, <1>12, <1>13 DEF Fresh

LEMMA FreshTaken ==
    ASSUME NEW s \in Seq(AnyEntry), Deduplicate => KeysDiffer(s), Fresh(s, <<>>)
    PROVE  Fresh(<<>>, Events(s))
  <1> SUFFICES ASSUME Deduplicate PROVE Fresh(<<>>, Events(s))
    BY DEF Fresh
  <1>1. KeysTell(s) /\ KeysDiffer(s)
    BY DEF Fresh
  <1>2. Len(Events(s)) = Len(s) /\ \A i \in 1..Len(s) : Events(s)[i] = s[i].event
    BY EventsType
  <1>3. ASSUME NEW i \in 1..Len(s), NEW j \in 1..Len(s), i # j, s[i].event.kind = s[j].event.kind,
               s[j].event.count = 1
        PROVE  i < j /\ s[i].event.id < s[j].event.id
    <2>1. s[j].key[2] = 1
      BY <1>3, EntryFacts
    <2> QED  BY <1>1, <1>3, <2>1 DEF KeysTell
  <1>4. ASSUME NEW i \in 1..Len(s), NEW j \in 1..Len(s), i < j,
               Fingerprint(s[i].event) = Fingerprint(s[j].event)
        PROVE  s[i].event.id < s[j].event.id
    <2>1. s[i].event.kind = s[j].event.kind /\ s[i].event.count = s[j].event.count
      BY <1>4 DEF Fingerprint
    <2>2. i # j /\ ~(j < i)
      BY <1>4
    <2>3. CASE s[j].key[2] = 1
      BY <1>1, <2>1, <2>2, <2>3 DEF KeysTell
    <2>4. CASE s[i].key[2] = 1
      BY <1>1, <2>1, <2>2, <2>4 DEF KeysTell
    <2>5. CASE s[i].key[2] # 1 /\ s[j].key[2] # 1
      <3>1. s[i].key[2] = s[j].key[2]
        BY <1>1, <2>1, <2>5 DEF KeysTell
      <3>2. s[i].key = s[j].key
        BY <2>1, <3>1, EntryFacts
      <3> QED  BY <1>1, <2>2, <3>2 DEF KeysDiffer
    <2> QED  BY <2>3, <2>4, <2>5
  <1>5. CountsTell(Events(s))
    <2> DEFINE evs == Events(s)
    <2>1. \A i, j \in 1..Len(evs) :
             i < j /\ Fingerprint(evs[i]) = Fingerprint(evs[j]) => evs[i].id < evs[j].id
      BY <1>2, <1>4
    <2>2. \A i, j \in 1..Len(evs) :
             i # j /\ evs[i].kind = evs[j].kind /\ evs[j].count = 1 => i < j /\ evs[i].id < evs[j].id
      BY <1>2, <1>3
    <2> HIDE DEF evs
    <2>3. CountsTell(evs)
      BY <2>1, <2>2 DEF CountsTell
    <2> QED  BY <2>3 DEF evs
  <1>6. KeysTell(<<>>)
    BY DEF KeysTell
  <1> QED  BY <1>5, <1>6 DEF Fresh

LEMMA FreshAnswered ==
    ASSUME NEW s, NEW c \in Seq(AnyEvent), NEW rest \in Seq(AnyEvent), Fresh(s, c \o rest)
    PROVE  Fresh(s, rest)
  <1> SUFFICES ASSUME Deduplicate PROVE Fresh(s, rest)
    BY DEF Fresh
  <1>1. /\ KeysTell(s) /\ CountsTell(c \o rest)
        /\ c \o rest # <<>> => \A i \in 1..Len(s) : s[i].key[2] = 1
        /\ \A i \in 1..Len(c \o rest), j \in 1..Len(s) : (c \o rest)[i].id < s[j].event.id
    BY DEF Fresh
  <1>2. /\ Len(c) \in Nat /\ Len(rest) \in Nat /\ Len(c \o rest) = Len(c) + Len(rest)
        /\ c \o rest \in Seq(AnyEvent)
        /\ \A j \in 1..Len(rest) : Len(c) + j \in 1..Len(c \o rest) /\ (c \o rest)[Len(c) + j] = rest[j]
    <2> HIDE DEF AnyEvent
    <2> QED  BY Concat
  <1>3. Part(rest, c \o rest)
    <2> DEFINE e == [k \in 1..Len(rest) |-> Len(c) + k]
    <2>1. IsPart(e, rest, c \o rest)
      BY <1>2 DEF IsPart
    <2>2. Len(rest) <= Len(c \o rest)
      BY <1>2
    <2> QED  BY <2>1, <2>2 DEF Part
  <1>4. CountsTell(rest)
    <2>1. Len(c \o rest) \in Nat
      BY <1>2
    <2> QED  BY <1>1, <1>2, <1>3, <2>1, CountsOfPart
  <1>5. rest # <<>> => c \o rest # <<>>
    <2> HIDE DEF AnyEvent
    <2> QED  BY ConcatEqualIffEmpty
  <1>6. \A i \in 1..Len(rest), j \in 1..Len(s) : rest[i].id < s[j].event.id
    BY <1>1, <1>2
  <1> QED  BY <1>1, <1>4, <1>5, <1>6 DEF Fresh

LEMMA FreshPutBack ==
    ASSUME NEW s, NEW evs, NEW out, NEW n \in Nat, OneQueue(s, evs, out, n), Fresh(s, evs)
    PROVE  Fresh(ExtendLeft(s, evs).queue, <<>>)
  <1> SUFFICES ASSUME Deduplicate PROVE Fresh(ExtendLeft(s, evs).queue, <<>>)
    BY DEF Fresh
  <1> DEFINE add == Unmerged(s, evs)
             m == Merged(s, evs)
             t == ExtendLeft(s, evs).queue
  <1>0. /\ s \in Seq(AnyEntry) /\ evs \in Seq(AnyEvent) /\ Len(s) <= MaxQueueLen
        /\ KeysTell(s) /\ CountsTell(evs)
        /\ evs # <<>> => \A i \in 1..Len(s) : s[i].key[2] = 1
        /\ \A i \in 1..Len(evs), j \in 1..Len(s) : evs[i].id < s[j].event.id
    BY DEF OneQueue, Fresh
  <1>1. PICK kept \in Seq(AnyEvent) : t = FiledInOrder(kept) \o m /\ Part(kept, add)
    BY <1>0, ExtendLeftSplits
  <1> DEFINE f == FiledInOrder(kept)
  <1>2. /\ f \in Seq(AnyEntry)
        /\ \E first, last : Files(kept, f, first, last)
    BY FiledFiles
  <1>3. PICK first, last : Files(kept, f, first, last)
    BY <1>2
  <1>c. t = f \o m
    BY <1>1
  <1>4. /\ add \in Seq(AnyEvent) /\ Part(add, evs)
        /\ \A k \in 1..Len(add), i \in 1..Len(s) : s[i].key # Fingerprint(add[k])
    BY <1>0, UnmergedProperties
  <1>5. /\ m \in Seq(AnyEntry) /\ Len(m) = Len(s)
        /\ \A i \in 1..Len(s) : /\ m[i].key = s[i].key /\ m[i].event.id = s[i].event.id
                                /\ m[i].event.kind = s[i].event.kind
        /\ evs = <<>> => m = s
    BY <1>0, MergedProperties
  <1> HIDE DEF add, m, f, t
  <1>6. Len(f) \in Nat /\ Len(m) \in Nat /\ Len(kept) \in Nat /\ Len(add) \in Nat /\ Len(evs) \in Nat
    BY <1>0, <1>1, <1>2, <1>4, <1>5, LenProperties
  <1>7. Part(kept, evs) /\ CountsTell(kept)
    BY <1>0, <1>1, <1>4, <1>6, PartOfPart, CountsOfPart
  <1>8. ASSUME NEW k \in 1..Len(kept)
        PROVE  /\ \E i \in 1..Len(evs) : kept[k] = evs[i]
               /\ \E i \in 1..Len(add) : kept[k] = add[i]
    <2>1. PICK d : IsPart(d, kept, evs)
      BY <1>7 DEF Part
    <2>2. PICK e : IsPart(e, kept, add)
      BY <1>1 DEF Part
    <2>3. d[k] \in 1..Len(evs) /\ kept[k] = evs[d[k]]
      BY <2>1 DEF IsPart
    <2>4. e[k] \in 1..Len(add) /\ kept[k] = add[e[k]]
      BY <2>2 DEF IsPart
    <2> QED  BY <2>3, <2>4
  <1>9. ASSUME NEW i \in 1..Len(kept)
        PROVE  /\ evs # <<>>
               /\ \A k \in 1..Len(s) : kept[i].id < s[k].event.id /\ s[k].key # Fingerprint(kept[i])
    <2>1. PICK d \in 1..Len(evs) : kept[i] = evs[d]
      BY <1>8
    <2>2. PICK e \in 1..Len(add) : kept[i] = add[e]
      BY <1>8
    <2>3. evs # <<>>
      BY <1>6, <2>1
    <2> QED  BY <1>0, <1>4, <2>1, <2>2, <2>3
  <1>10. ASSUME NEW i \in 1..Len(f)
         PROVE  /\ first[i] \in 1..Len(kept) /\ last[i] \in 1..Len(kept) /\ first[i] <= last[i]
                /\ f[i].event = kept[last[i]] /\ f[i].key = Fingerprint(kept[last[i]])
                /\ f[i].key[2] = kept[last[i]].count
                /\ kept[first[i]].kind = kept[last[i]].kind /\ kept[first[i]].count = kept[last[i]].count
    <2>1. /\ first[i] \in 1..Len(kept) /\ last[i] \in 1..Len(kept) /\ first[i] <= last[i]
          /\ f[i] = Entry(kept[last[i]])
          /\ Fingerprint(kept[first[i]]) = Fingerprint(kept[last[i]])
      BY <1>3 DEF Files
    <2>2. f[i].event = kept[last[i]] /\ f[i].key = Fingerprint(kept[last[i]])
      BY <2>1 DEF Entry
    <2> QED  BY <2>1, <2>2 DEF Fingerprint
  <1>11. /\ Len(t) = Len(f) + Len(m) /\ t \in Seq(AnyEntry)
         /\ \A i \in 1..Len(f) : t[i] = f[i]
         /\ \A k \in 1..Len(s) : t[Len(f) + k] = m[k]
         /\ \A i \in 1..Len(t) : i \in 1..Len(f) \/ \E k \in 1..Len(s) : i = Len(f) + k
    <2> HIDE DEF AnyEntry
    <2>0. f \in Seq(AnyEntry) /\ m \in Seq(AnyEntry)
      BY <1>2, <1>5
    <2>1. /\ f \o m \in Seq(AnyEntry)
          /\ Len(f) \in Nat /\ Len(m) \in Nat /\ Len(f \o m) = Len(f) + Len(m)
          /\ \A i \in 1..Len(f) : i \in 1..Len(f \o m) /\ (f \o m)[i] = f[i]
          /\ \A k \in 1..Len(m) : Len(f) + k \in 1..Len(f \o m) /\ (f \o m)[Len(f) + k] = m[k]
          /\ \A i \in 1..Len(f \o m) : i \in 1..Len(f) \/ \E k \in 1..Len(m) : i = Len(f) + k
      BY <2>0, Concat
    <2> QED  BY <1>5, <1>c, <2>1
  <1>12. ASSUME NEW i \in 1..Len(t), NEW j \in 1..Len(t), i # j, t[i].event.kind = t[j].event.kind,
                t[j].key[2] = 1
         PROVE  i < j /\ t[i].event.id < t[j].event.id
    <2>1. CASE i \in 1..Len(f) /\ j \in 1..Len(f)
      <3>1. /\ kept[last[i]].kind = kept[last[j]].kind /\ kept[last[j]].count = 1
            /\ last[i] \in 1..Len(kept) /\ last[j] \in 1..Len(kept) /\ last[i] # last[j]
        <4>1. last[i] # last[j]
          BY <1>3, <1>12, <2>1 DEF Files
        <4> QED  BY <1>10, <1>11, <1>12, <2>1, <4>1
      <3>2. last[i] < last[j] /\ kept[last[i]].id < kept[last[j]].id
        BY <1>7, <3>1 DEF CountsTell
      <3>3. ASSUME j < i PROVE FALSE
        <4>1. first[j] < first[i] /\ first[j] \in 1..Len(kept) /\ first[i] \in 1..Len(kept) /\ first[i] <= last[i]
          <5>1. first[j] < first[i]
            BY <1>3, <2>1, <3>3 DEF Files
          <5> QED  BY <1>10, <2>1, <5>1
        <4>2. first[j] # last[i] /\ first[j] < last[i]
          BY <3>1, <4>1
        <4>3. kept[first[j]].count = 1 /\ kept[last[i]].kind = kept[first[j]].kind
          BY <1>10, <2>1, <3>1
        <4>4. last[i] < first[j]
          BY <1>7, <3>1, <4>1, <4>2, <4>3 DEF CountsTell
        <4> QED  BY <3>1, <4>1, <4>2, <4>4
      <3>4. t[i].event.id < t[j].event.id
        BY <1>10, <1>11, <2>1, <3>2
      <3> QED  BY <1>12, <3>3, <3>4
    <2>2. ASSUME i \in 1..Len(f), NEW l \in 1..Len(s), j = Len(f) + l
          PROVE  i < j /\ t[i].event.id < t[j].event.id
      <3>1. i < j
        BY <1>6, <2>2
      <3>2. last[i] \in 1..Len(kept) /\ t[i].event = kept[last[i]]
        BY <1>10, <1>11, <2>2
      <3>3. t[j].event.id = s[l].event.id
        BY <1>5, <1>11, <2>2
      <3> QED  BY <1>9, <3>1, <3>2, <3>3
    <2>3. ASSUME NEW k \in 1..Len(s), i = Len(f) + k, j \in 1..Len(f)
          PROVE  FALSE
      <3>1. /\ last[j] \in 1..Len(kept) /\ t[j] = f[j] /\ f[j].event = kept[last[j]]
            /\ f[j].key = Fingerprint(kept[last[j]])
        BY <1>10, <1>11, <2>3
      <3>2. evs # <<>> /\ s[k].key # f[j].key
        BY <1>9, <3>1
      <3>3. s[k].key = <<s[k].event.kind, 1>>
        BY <1>0, <3>2, EntryFacts
      <3>4. f[j].key = <<f[j].event.kind, 1>>
        BY <1>2, <1>12, <2>3, <3>1, EntryFacts
      <3>5. s[k].event.kind = t[i].event.kind
        BY <1>5, <1>11, <2>3
      <3> QED  BY <1>12, <3>1, <3>2, <3>3, <3>4, <3>5
    <2>4. ASSUME NEW k \in 1..Len(s), i = Len(f) + k, NEW l \in 1..Len(s), j = Len(f) + l
          PROVE  i < j /\ t[i].event.id < t[j].event.id
      <3>1. k # l
        BY <1>12, <2>4
      <3>2. t[i] = m[k] /\ t[j] = m[l]
        BY <1>11, <2>4
      <3>3. s[k].event.kind = s[l].event.kind /\ s[l].key[2] = 1
        BY <1>5, <1>12, <3>2
      <3>4. k < l /\ s[k].event.id < s[l].event.id
        BY <1>0, <3>1, <3>3 DEF KeysTell
      <3>5. i < j
        BY <1>6, <2>4, <3>4
      <3> QED  BY <1>5, <3>2, <3>4, <3>5
    <2> QED  BY <1>11, <2>1, <2>2, <2>3, <2>4
  <1>13. ASSUME NEW i \in 1..Len(t), t[i].key[2] # 1
         PROVE  t[i].event.count = t[i].key[2]
    <2>1. ASSUME i \in 1..Len(f) PROVE t[i].event.count = t[i].key[2]
      <3>1. t[i] = f[i]
        BY <1>11, <2>1
      <3>2. f[i].event = kept[last[i]] /\ f[i].key[2] = kept[last[i]].count
        BY <1>10, <2>1
      <3> QED  BY <3>1, <3>2
    <2>2. ASSUME NEW k \in 1..Len(s), i = Len(f) + k PROVE t[i].event.count = t[i].key[2]
      <3>1. t[i] = m[k] /\ m[k].key = s[k].key
        BY <1>5, <1>11, <2>2
      <3>2. evs = <<>>
        BY <1>0, <1>13, <3>1
      <3>3. m[k] = s[k]
        BY <1>5, <3>2
      <3> QED  BY <1>0, <1>13, <3>1, <3>3 DEF KeysTell
    <2> QED  BY <1>11, <2>1, <2>2
  <1>14. KeysTell(t) /\ CountsTell(<<>>)
    <2>1. KeysTell(t)
      BY <1>12, <1>13 DEF KeysTell
    <2> QED  BY <2>1 DEF CountsTell
  <1> QED  BY <1>14 DEF Fresh, t

-----------------------------------------------------------------------------
(* Clears.  While nothing is discarded, a queue keeps a clear of each       *)
(* fingerprint it had one of, and one that is at least as late.             *)

HasClear(evs, fp, after) ==
    \E i \in 1..Len(evs) : /\ evs[i].kind \in Clears /\ ClearFingerprint[evs[i].kind] = fp
                           /\ evs[i].id > after

LEMMA HasClearConcat ==
    ASSUME NEW a \in Seq(AnyEvent), NEW b \in Seq(AnyEvent), NEW fp, NEW after
    PROVE  HasClear(a \o b, fp, after) <=> HasClear(a, fp, after) \/ HasClear(b, fp, after)
  <1> DEFINE P(ev) == ev.kind \in Clears /\ ClearFingerprint[ev.kind] = fp /\ ev.id > after
  <1>1. \A evs : HasClear(evs, fp, after) <=> \E i \in 1..Len(evs) : P(evs[i])
    BY DEF HasClear
  <1> HIDE DEF P
  <1>2. /\ \A i \in 1..Len(a) : i \in 1..Len(a \o b) /\ (a \o b)[i] = a[i]
        /\ \A j \in 1..Len(b) : Len(a) + j \in 1..Len(a \o b) /\ (a \o b)[Len(a) + j] = b[j]
        /\ \A i \in 1..Len(a \o b) : i \in 1..Len(a) \/ \E j \in 1..Len(b) : i = Len(a) + j
    BY Concat
  <1>3. ASSUME NEW i \in 1..Len(a \o b), P((a \o b)[i])
        PROVE  (\E k \in 1..Len(a) : P(a[k])) \/ (\E k \in 1..Len(b) : P(b[k]))
    <2>1. CASE i \in 1..Len(a)
      BY <1>2, <1>3, <2>1
    <2>2. CASE \E j \in 1..Len(b) : i = Len(a) + j
      BY <1>2, <1>3, <2>2
    <2> QED  BY <1>2, <2>1, <2>2
  <1>4. ASSUME NEW i \in 1..Len(a), P(a[i]) PROVE \E k \in 1..Len(a \o b) : P((a \o b)[k])
    BY <1>2, <1>4
  <1>5. ASSUME NEW j \in 1..Len(b), P(b[j]) PROVE \E k \in 1..Len(a \o b) : P((a \o b)[k])
    BY <1>2, <1>5
  <1> QED  BY <1>1, <1>3, <1>4, <1>5

LEMMA HasClearInLine ==
    ASSUME NEW s \in Seq(AnyEntry), NEW evs \in Seq(AnyEvent), NEW out \in Seq(AnyEvent), NEW fp, NEW after
    PROVE  HasClear(Line(s, evs, out), fp, after) <=>
             HasClear(out, fp, after) \/ HasClear(evs, fp, after) \/ HasClear(Events(s), fp, after)
  <1>1. Events(s) \in Seq(AnyEvent)
    BY EventsType
  <1>2. out \o evs \in Seq(AnyEvent)
    BY Concat
  <1> QED  BY <1>1, <1>2, HasClearConcat DEF Line

LEMMA OccZero ==
    ASSUME NEW evs \in Seq(AnyEvent), Occurrences(evs) = 0
    PROVE  evs = <<>>
  <1> SUFFICES ASSUME evs # <<>> PROVE FALSE
    OBVIOUS
  <1>1. Len(evs) \in Nat /\ Len(evs) # 0
    BY LenProperties, EmptySeq
  <1>2. 1 \in 1..Len(evs) /\ evs[1] \in AnyEvent
    BY <1>1, ElementOfSeq
  <1>3. 1 <= evs[1].count
    BY <1>2 DEF AnyEvent
  <1>4. <<1, 1>> \in OccSet(evs)
    BY <1>2, <1>3, OccSetProperties
  <1>5. OccSet(evs) = {}
    BY OccSetProperties, FS_EmptySet
  <1> QED  BY <1>4, <1>5

LEMMA HasClearAdded ==
    ASSUME NEW s, NEW evs, NEW out, NEW n \in Nat, OneQueue(s, evs, out, n), NEW k \in Kinds,
           Append1(s, NewEvent(k, n)).discarded = <<>>, NEW fp, NEW after \in Int
    PROVE  LET t == Append1(s, NewEvent(k, n)).queue
           IN  /\ HasClear(Events(s), fp, after) => HasClear(Events(t), fp, after)
               /\ k \in Clears /\ ClearFingerprint[k] = fp /\ after <= n => HasClear(Events(t), fp, after)
  <1> DEFINE r == Append1(s, NewEvent(k, n))
  <1>0. /\ s \in Seq(AnyEntry) /\ evs \in Seq(AnyEvent) /\ out \in Seq(AnyEvent)
        /\ Len(s) <= MaxQueueLen /\ (Deduplicate => KeysDiffer(s)) /\ UpTo(Line(s, evs, out), n)
    BY DEF OneQueue
  <1>1. PICK p, x : Adds(s, k, n, r, p, x)
    BY <1>0, Append1Adds
  <1>d. r.discarded = <<>>
    OBVIOUS
  <1> HIDE DEF r
  <1>2. /\ p \in Seq(AnyEntry) /\ x \in AnyEntry /\ r.queue = Append(p, x)
        /\ x.key = <<k, 1>> /\ x.event.id = n + 1 /\ x.event.kind = k
        /\ \A i \in 1..Len(s) : \/ \E l \in 1..Len(p) : p[l] = s[i]
                                \/ Deduplicate /\ s[i].key = x.key
                                \/ r.discarded = <<s[i].event>>
    BY <1>1 DEF Adds
  <1> DEFINE t == r.queue
             last == Len(p) + 1
  <1>3. /\ Len(t) = last /\ Len(p) \in Nat /\ last \in 1..Len(t)
        /\ t[last] = x /\ \A l \in 1..Len(p) : l \in 1..Len(t) /\ t[l] = p[l]
    BY <1>2, AppendProperties, LenProperties
  <1>4. t \in Seq(AnyEntry)
    BY <1>2, AppendProperties
  <1>5. /\ Len(Events(t)) = Len(t) /\ \A l \in 1..Len(t) : Events(t)[l] = t[l].event
        /\ Len(Events(s)) = Len(s) /\ \A i \in 1..Len(s) : Events(s)[i] = s[i].event
    BY <1>0, <1>4, EventsType
  <1>6. ASSUME NEW i \in 1..Len(s), s[i].event.kind \in Clears, ClearFingerprint[s[i].event.kind] = fp,
               s[i].event.id > after
        PROVE  HasClear(Events(t), fp, after)
    <2>1. CASE \E l \in 1..Len(p) : p[l] = s[i]
      <3>1. PICK l \in 1..Len(p) : p[l] = s[i]
        BY <2>1
      <3>2. l \in 1..Len(Events(t)) /\ Events(t)[l] = s[i].event
        BY <1>3, <1>5, <3>1
      <3> QED  BY <1>6, <3>2 DEF HasClear
    <2>2. CASE s[i].key = x.key
      <3>1. s[i].event.kind = k
        BY <1>0, <1>2, <2>2, EntryFacts
      <3>2. s[i].event.id <= n /\ s[i].event.id \in Nat
        <4>1. UpTo(Events(s), n)
          BY <1>0, LineProperties
        <4> QED  BY <1>0, <1>5, <4>1, EntryFacts DEF UpTo
      <3>3. last \in 1..Len(Events(t)) /\ Events(t)[last] = x.event
        BY <1>3, <1>5
      <3>4. n + 1 > after
        BY <1>6, <3>2
      <3> QED  BY <1>2, <1>6, <3>1, <3>3, <3>4 DEF HasClear
    <2>3. r.discarded # <<s[i].event>>
      BY <1>d
    <2> QED  BY <1>2, <2>1, <2>2, <2>3
  <1>7. HasClear(Events(s), fp, after) => HasClear(Events(t), fp, after)
    <2> SUFFICES ASSUME HasClear(Events(s), fp, after) PROVE HasClear(Events(t), fp, after)
      OBVIOUS
    <2>1. PICK i \in 1..Len(s) : /\ s[i].event.kind \in Clears /\ ClearFingerprint[s[i].event.kind] = fp
                                 /\ s[i].event.id > after
      BY <1>5 DEF HasClear
    <2> QED  BY <1>6, <2>1
  <1>8. ASSUME k \in Clears, ClearFingerprint[k] = fp, after <= n PROVE HasClear(Events(t), fp, after)
    <2>1. last \in 1..Len(Events(t)) /\ Events(t)[last] = x.event
      BY <1>3, <1>5
    <2>2. n + 1 > after
      BY <1>8
    <2> QED  BY <1>2, <1>8, <2>1, <2>2 DEF HasClear
  <1> QED  BY <1>7, <1>8 DEF r

LEMMA HasClearPutBack ==
    ASSUME NEW s, NEW evs, NEW out, NEW n \in Nat, OneQueue(s, evs, out, n), Fresh(s, evs),
           ExtendLeft(s, evs).discarded = <<>>, NEW fp, NEW after \in Int,
           HasClear(evs, fp, after) \/ HasClear(Events(s), fp, after)
    PROVE  HasClear(Events(ExtendLeft(s, evs).queue), fp, after)
  <1> DEFINE add == Unmerged(s, evs)
             m == Merged(s, evs)
             r == ExtendLeft(s, evs)
             f == FiledInOrder(add)
  <1>0. s \in Seq(AnyEntry) /\ evs \in Seq(AnyEvent) /\ Len(s) <= MaxQueueLen
    BY DEF OneQueue
  <1>1. PICK kept \in Seq(AnyEvent) : r.queue = FiledInOrder(kept) \o m /\ add = r.discarded \o kept
    BY <1>0, ExtendLeftSplits
  <1>2. add = kept
    BY <1>1, ConcatEmptySeq
  <1>3. r.queue = f \o m
    BY <1>1, <1>2
  <1>4. /\ add \in Seq(AnyEvent) /\ Part(add, evs)
        /\ \A j \in 1..Len(evs) : \/ \E k \in 1..Len(add) : add[k] = evs[j]
                                  \/ \E i \in 1..Len(s) : Deduplicate /\ s[i].key = Fingerprint(evs[j])
    BY <1>0, UnmergedProperties
  <1>5. /\ m \in Seq(AnyEntry) /\ Len(m) = Len(s)
        /\ \A i \in 1..Len(s) : m[i].event.id = s[i].event.id /\ m[i].event.kind = s[i].event.kind
    BY <1>0, MergedProperties
  <1>6. /\ f \in Seq(AnyEntry)
        /\ \E first, last : Files(add, f, first, last)
    BY <1>4, FiledFiles
  <1> HIDE DEF add, m, r, f
  <1>7. /\ Events(r.queue) = Events(f) \o Events(m)
        /\ Events(f) \in Seq(AnyEvent) /\ Events(m) \in Seq(AnyEvent)
        /\ Len(Events(f)) = Len(f) /\ \A i \in 1..Len(f) : Events(f)[i] = f[i].event
        /\ Len(Events(m)) = Len(s) /\ \A i \in 1..Len(s) : Events(m)[i] = m[i].event
        /\ Len(Events(s)) = Len(s) /\ \A i \in 1..Len(s) : Events(s)[i] = s[i].event
    <2>1. Events(f \o m) = Events(f) \o Events(m)
      BY <1>5, <1>6, EventsOfConcat
    <2> QED  BY <1>0, <1>3, <1>5, <1>6, <2>1, EventsType
  <1>8. HasClear(Events(r.queue), fp, after) <=> HasClear(Events(f), fp, after) \/ HasClear(Events(m), fp, after)
    BY <1>7, HasClearConcat
  <1>9. ASSUME NEW i \in 1..Len(s), s[i].event.kind \in Clears, ClearFingerprint[s[i].event.kind] = fp,
               s[i].event.id > after
        PROVE  HasClear(Events(m), fp, after)
    <2>1. i \in 1..Len(Events(m)) /\ Events(m)[i] = m[i].event
      BY <1>7
    <2> QED  BY <1>5, <1>9, <2>1 DEF HasClear
  <1>10. CASE HasClear(Events(s), fp, after)
    <2>1. PICK i \in 1..Len(s) : /\ s[i].event.kind \in Clears /\ ClearFingerprint[s[i].event.kind] = fp
                                 /\ s[i].event.id > after
      BY <1>7, <1>10 DEF HasClear
    <2> QED  BY <1>8, <1>9, <2>1 DEF r
  <1>11. CASE HasClear(evs, fp, after)
    <2>1. PICK j \in 1..Len(evs) : /\ evs[j].kind \in Clears /\ ClearFingerprint[evs[j].kind] = fp
                                   /\ evs[j].id > after
      BY <1>11 DEF HasClear
    <2>2. evs[j].id \in Nat
      <3>1. evs[j] \in AnyEvent
        BY <1>0, ElementOfSeq
      <3> QED  BY <3>1 DEF AnyEvent
    <2>3. ASSUME NEW i \in 1..Len(s), Deduplicate, s[i].key = Fingerprint(evs[j])
          PROVE  HasClear(Events(r.queue), fp, after)
      <3>1. evs[j].id < s[i].event.id /\ s[i].event.id \in Nat
        BY <1>0, <2>3, EntryFacts DEF Fresh
      <3>2. s[i].event.kind = evs[j].kind
        <4>1. s[i].key = <<s[i].event.kind, s[i].key[2]>>
          BY <1>0, EntryFacts
        <4>2. s[i].key = <<evs[j].kind, evs[j].count>>
          BY <2>3 DEF Fingerprint
        <4> QED  BY <4>1, <4>2
      <3>3. s[i].event.id > after
        BY <2>1, <2>2, <3>1
      <3> QED  BY <1>8, <1>9, <2>1, <3>2, <3>3
    <2>4. ASSUME NEW k \in 1..Len(add), add[k] = evs[j]
          PROVE  HasClear(Events(r.queue), fp, after)
      <3>1. PICK first, last : Files(add, f, first, last)
        BY <1>6
      <3>2. PICK l \in 1..Len(f) : /\ k <= last[l] /\ Fingerprint(add[k]) = Fingerprint(add[last[l]])
                                   /\ (~Deduplicate => k = last[l])
        BY <3>1 DEF Files
      <3>3. last[l] \in 1..Len(add) /\ f[l] = Entry(add[last[l]])
        BY <3>1 DEF Files
      <3>4. f[l].event = add[last[l]] /\ add[last[l]].kind = evs[j].kind
        BY <2>4, <3>2, <3>3 DEF Entry, Fingerprint
      <3>5. add[last[l]].id > after
        <4>1. CASE k = last[l]
          BY <2>1, <2>4, <4>1
        <4>2. CASE k # last[l]
          <5>1. Deduplicate /\ k < last[l]
            BY <3>2, <3>3, <4>2
          <5>2. CountsTell(add)
            <6>1. CountsTell(evs)
              BY <5>1 DEF Fresh
            <6>2. Len(add) \in Nat /\ Len(evs) \in Nat
              BY <1>0, <1>4, LenProperties
            <6> QED  BY <1>4, <6>1, <6>2, CountsOfPart
          <5>3. add[k].id < add[last[l]].id
            BY <3>2, <3>3, <5>1, <5>2 DEF CountsTell
          <5>4. add[last[l]].id \in Nat
            <6>1. add[last[l]] \in AnyEvent
              BY <1>4, <3>3, ElementOfSeq
            <6> QED  BY <6>1 DEF AnyEvent
          <5>5. after < evs[j].id /\ evs[j].id < add[last[l]].id
            BY <2>1, <2>4, <5>3
          <5> QED  BY <2>2, <5>4, <5>5
        <4> QED  BY <4>1, <4>2
      <3>6. l \in 1..Len(Events(f)) /\ Events(f)[l] = add[last[l]]
        BY <1>7, <3>4
      <3> QED  BY <1>8, <2>1, <3>4, <3>5, <3>6 DEF HasClear
    <2> QED  BY <1>4, <2>3, <2>4 DEF r
  <1> QED  BY <1>10, <1>11

-----------------------------------------------------------------------------
(* All together: what the state of both queues and of the clears keeps, as  *)
(* steps that EventQueueManager and PushEvents compose.                     *)

Held(count, fp) == IF fp \in DOMAIN count THEN count[fp] ELSE 0

\* A clear that came after the problem is in a queue.
ClearIn(qs, ch, pr, se, fp, after) ==
    \E q \in Queues : HasClear(Line(qs[q], InFlight(ch, pr, q), se[q]), fp, after)

Coming(qs, ch, pr, se, di, count, last) ==
    ~AllowDuplicateClears /\ DuplicateClearInterval = 0 /\ di = 0 =>
       \A fp \in ClearFingerprints : Held(count, fp) # 0 => ClearIn(qs, ch, pr, se, fp, last[fp])

Good(qs, ch, pr, se, di, n, dr, count, last) ==
    /\ Fine(qs, ch, pr, se, di, n, dr)
    /\ \A q \in Queues : Fresh(qs[q], InFlight(ch, pr, q))
    /\ ClearsTyped(count, last, n)
    /\ Coming(qs, ch, pr, se, di, count, last)

LEMMA Flights ==
    ASSUME NEW qs \in [Queues -> Seq(AnyEntry)], NEW hb \in {0, 1}, NEW q \in Queues
    PROVE  /\ InFlight(ChunkOf(hb, qs), RestOf(hb, qs), q) = Events(qs[q])
           /\ InFlight(NoChunk, qs, q) = Events(qs[q])
  <1>1. InFlight(ChunkOf(hb, qs), RestOf(hb, qs), q) = Events(qs[q])
    BY ChunkProperties DEF InFlight
  <1>2. <<>> \o Events(qs[q]) = Events(qs[q])
    <2>1. qs[q] \in Seq(AnyEntry)
      OBVIOUS
    <2>2. Events(qs[q]) \in Seq(AnyEvent)
      BY <2>1, EventsType
    <2> HIDE DEF AnyEvent
    <2> QED  BY <2>2, ConcatEmptySeq
  <1> QED  BY <1>1, <1>2, EmptyLines DEF InFlight

LEMMA GoodTaken ==
    ASSUME NEW qs, NEW se, NEW di, NEW n, NEW dr, NEW count, NEW last, NEW hb \in {0, 1},
           Good(qs, NoChunk, Empty, se, di, n, dr, count, last)
    PROVE  Good(Empty, ChunkOf(hb, qs), RestOf(hb, qs), se, di, n, dr, count, last)
  <1> DEFINE ch == ChunkOf(hb, qs)
             pr == RestOf(hb, qs)
  <1>0. /\ Fine(qs, NoChunk, Empty, se, di, n, dr) /\ ClearsTyped(count, last, n)
        /\ \A q \in Queues : Fresh(qs[q], <<>>)
        /\ Coming(qs, NoChunk, Empty, se, di, count, last)
    BY EmptyLines DEF Good
  <1>1. Fine(Empty, ch, pr, se, di, n, dr)
    BY <1>0, FineTaken
  <1>2. ASSUME NEW q \in Queues
        PROVE  /\ qs[q] \in Seq(AnyEntry) /\ se[q] \in Seq(AnyEvent) /\ (Deduplicate => KeysDiffer(qs[q]))
               /\ InFlight(ch, pr, q) = Events(qs[q])
    <2>1. qs \in [Queues -> Seq(AnyEntry)] /\ OneQueue(qs[q], InFlight(NoChunk, Empty, q), se[q], n)
      BY <1>0 DEF Fine
    <2> QED  BY <2>1, Flights DEF OneQueue
  <1> HIDE DEF ch, pr
  <1>3. \A q \in Queues : Fresh(Empty[q], InFlight(ch, pr, q))
    BY <1>0, <1>2, FreshTaken, EmptyLines
  <1>4. ASSUME NEW fp, NEW after, ClearIn(qs, NoChunk, Empty, se, fp, after)
        PROVE  ClearIn(Empty, ch, pr, se, fp, after)
    <2>1. PICK q \in Queues : HasClear(Line(qs[q], <<>>, se[q]), fp, after)
      BY <1>4, EmptyLines DEF ClearIn
    <2>2. <<>> \in Seq(AnyEvent) /\ <<>> \in Seq(AnyEntry)
      OBVIOUS
    <2>3. ~HasClear(<<>>, fp, after)
      BY DEF HasClear
    <2>4. HasClear(se[q], fp, after) \/ HasClear(Events(qs[q]), fp, after)
      BY <1>2, <2>1, <2>2, <2>3, HasClearInLine
    <2>5. Events(qs[q]) \in Seq(AnyEvent)
      BY <1>2, EventsType
    <2>6. HasClear(Line(<<>>, Events(qs[q]), se[q]), fp, after)
      BY <1>2, <2>2, <2>4, <2>5, HasClearInLine
    <2> QED  BY <1>2, <2>6, EmptyLines DEF ClearIn
  <1>5. Coming(Empty, ch, pr, se, di, count, last)
    BY <1>0, <1>4 DEF Coming
  <1>6. Good(Empty, ch, pr, se, di, n, dr, count, last)
    BY <1>0, <1>1, <1>3, <1>5 DEF Good
  <1> QED  BY <1>6 DEF ch, pr

LEMMA GoodAnswered ==
    ASSUME NEW qs, NEW ch, NEW pr, NEW se, NEW di, NEW n, NEW dr, NEW count, NEW last,
           Good(qs, ch, pr, se, di, n, dr, count, last)
    PROVE  Good(qs, NoChunk, pr, [q \in Queues |-> se[q] \o ch[q]], di, n, dr, count, last)
  <1> DEFINE out == [q \in Queues |-> se[q] \o ch[q]]
  <1>0. /\ Fine(qs, ch, pr, se, di, n, dr) /\ ClearsTyped(count, last, n)
        /\ \A q \in Queues : Fresh(qs[q], InFlight(ch, pr, q))
        /\ Coming(qs, ch, pr, se, di, count, last)
    BY DEF Good
  <1>1. Fine(qs, NoChunk, pr, out, di, n, dr)
    BY <1>0, FineAnswered
  <1>2. ASSUME NEW q \in Queues
        PROVE  /\ Fresh(qs[q], InFlight(NoChunk, pr, q))
               /\ Line(qs[q], InFlight(NoChunk, pr, q), out[q]) = Line(qs[q], InFlight(ch, pr, q), se[q])
    <2>1. /\ pr \in [Queues -> Seq(AnyEntry)] /\ pr[q] \in Seq(AnyEntry) /\ ch[q] \in Seq(AnyEvent)
          /\ OneQueue(qs[q], InFlight(ch, pr, q), se[q], n)
      BY <1>0 DEF Fine
    <2>2. Events(pr[q]) \in Seq(AnyEvent)
      BY <2>1, EventsType
    <2>3. InFlight(NoChunk, pr, q) = Events(pr[q])
      BY <2>1, Flights
    <2>4. InFlight(ch, pr, q) = ch[q] \o Events(pr[q])
      BY DEF InFlight
    <2>5. Fresh(qs[q], ch[q] \o Events(pr[q])) /\ OneQueue(qs[q], ch[q] \o Events(pr[q]), se[q], n)
      BY <1>0, <2>1, <2>4
    <2>6. Fresh(qs[q], Events(pr[q]))
      BY <2>1, <2>2, <2>5, FreshAnswered
    <2>7. Line(qs[q], Events(pr[q]), se[q] \o ch[q]) = Line(qs[q], ch[q] \o Events(pr[q]), se[q])
      BY <2>1, <2>2, <2>5, OneAnswered
    <2>8. out[q] = se[q] \o ch[q]
      OBVIOUS
    <2> QED  BY <2>3, <2>4, <2>6, <2>7, <2>8
  <1> HIDE DEF out
  <1>3. Coming(qs, NoChunk, pr, out, di, count, last)
    <2>1. \A fp, after : ClearIn(qs, ch, pr, se, fp, after) => ClearIn(qs, NoChunk, pr, out, fp, after)
      BY <1>2 DEF ClearIn
    <2> QED  BY <1>0, <2>1 DEF Coming
  <1>4. Good(qs, NoChunk, pr, out, di, n, dr, count, last)
    BY <1>0, <1>1, <1>2, <1>3 DEF Good
  <1> QED  BY <1>4 DEF out

LEMMA GoodNext ==
    ASSUME NEW qs, NEW pr, NEW se, NEW di, NEW n, NEW dr, NEW count, NEW last,
           Good(qs, NoChunk, pr, se, di, n, dr, count, last)
    PROVE  Good(qs, ChunkOf(0, pr), RestOf(0, pr), se, di, n, dr, count, last)
  <1> DEFINE ch == ChunkOf(0, pr)
             rest == RestOf(0, pr)
  <1>0. /\ Fine(qs, NoChunk, pr, se, di, n, dr) /\ ClearsTyped(count, last, n)
        /\ \A q \in Queues : Fresh(qs[q], InFlight(NoChunk, pr, q))
        /\ Coming(qs, NoChunk, pr, se, di, count, last)
    BY DEF Good
  <1>1. Fine(qs, ch, rest, se, di, n, dr)
    BY <1>0, FineNext
  <1>2. \A q \in Queues : InFlight(ch, rest, q) = InFlight(NoChunk, pr, q)
    <2>1. pr \in [Queues -> Seq(AnyEntry)] /\ 0 \in {0, 1}
      BY <1>0 DEF Fine
    <2> QED  BY <2>1, Flights
  <1> HIDE DEF ch, rest
  <1>3. Coming(qs, ch, rest, se, di, count, last)
    <2>1. \A fp, after : ClearIn(qs, NoChunk, pr, se, fp, after) => ClearIn(qs, ch, rest, se, fp, after)
      BY <1>2 DEF ClearIn
    <2> QED  BY <1>0, <2>1 DEF Coming
  <1>4. Good(qs, ch, rest, se, di, n, dr, count, last)
    BY <1>0, <1>1, <1>2, <1>3 DEF Good
  <1> QED  BY <1>4 DEF ch, rest

LEMMA HeldUncounted ==
    ASSUME NEW count, DOMAIN count \subseteq ClearFingerprints, \A f \in DOMAIN count : count[f] \in Int,
           NEW fp
    PROVE  Held(Uncounted(count, <<>>), fp) = Held(count, fp)
  <1>1. <<>> \in Seq(AnyEvent)
    OBVIOUS
  <1>2. /\ DOMAIN Uncounted(count, <<>>) = DOMAIN count
        /\ \A f \in DOMAIN count : Uncounted(count, <<>>)[f] = count[f]
    BY <1>1, UncountedTyped
  <1> QED  BY <1>2 DEF Held

LEMMA GoodAdded ==
    ASSUME Good(queue, chunk, prev, sent, discarded, lastId, dropped, clearCount, lastProblem),
           NEW q \in Queues, NEW kind \in Kinds, Recorded(q, kind)
    PROVE  Good(Filing(q, kind).queue, chunk, prev, sent, discarded', lastId', dropped', clearCount', lastProblem')
  <1> DEFINE fl(p) == InFlight(chunk, prev, p)
             qs == Filing(q, kind).queue
             out == Filing(q, kind).discarded
             fk == ClearFingerprint[kind]
  <1>0. /\ Fine(queue, chunk, prev, sent, discarded, lastId, dropped)
        /\ ClearsTyped(clearCount, lastProblem, lastId)
        /\ \A p \in Queues : Fresh(queue[p], fl(p))
        /\ Coming(queue, chunk, prev, sent, discarded, clearCount, lastProblem)
    BY DEF Good
  <1>1. /\ queue \in [Queues -> Seq(AnyEntry)] /\ discarded \in Nat /\ lastId \in Nat
        /\ \A p \in Queues : OneQueue(queue[p], fl(p), sent[p], lastId)
    BY <1>0 DEF Fine
  <1>2. /\ out \in Seq(AnyEvent)
        /\ Fine(qs, chunk, prev, sent, discarded', lastId', dropped')
    <2>1. /\ discarded' = discarded + Occurrences(out) /\ lastId' = lastId + 1
          /\ dropped' = IF IsSuperfluous(kind) THEN dropped + 1 ELSE dropped
      BY DEF Recorded
    <2> QED  BY <1>0, <2>1, FineAdded
  <1>3. ClearsTyped(clearCount', lastProblem', lastId')
    BY <1>0, <1>1, <1>2, ClearsAdded
  <1> DEFINE r == Append1(queue[q], NewEvent(kind, lastId))
  <1>4. IF IsSuperfluous(kind) THEN qs = queue /\ out = <<>>
        ELSE qs = [queue EXCEPT ![q] = r.queue] /\ out = r.discarded
    BY DEF Filing, NewEvent
  <1>5. ~IsSuperfluous(kind) => /\ qs[q] = r.queue /\ out = r.discarded
                                /\ \A p \in Queues : p # q => qs[p] = queue[p]
    BY <1>1, <1>4
  <1> HIDE DEF qs, out
  <1>6. \A p \in Queues : Fresh(qs[p], fl(p))
    <2>1. CASE IsSuperfluous(kind)
      BY <1>0, <1>4, <2>1
    <2>2. CASE ~IsSuperfluous(kind)
      <3>1. Fresh(r.queue, fl(q))
        BY <1>0, <1>1, FreshAdded
      <3> QED  BY <1>0, <1>5, <2>2, <3>1
    <2> QED  BY <2>1, <2>2
  <1>7. Coming(qs, chunk, prev, sent, discarded', clearCount', lastProblem')
    <2> SUFFICES ASSUME ~AllowDuplicateClears, DuplicateClearInterval = 0, discarded' = 0,
                        NEW fp \in ClearFingerprints, Held(clearCount', fp) # 0
                 PROVE  ClearIn(qs, chunk, prev, sent, fp, lastProblem'[fp])
      BY DEF Coming
    <2>1. out = <<>> /\ discarded = 0
      <3>1. discarded' = discarded + Occurrences(out)
        BY DEF Recorded, out
      <3>2. Occurrences(out) \in Nat
        BY <1>2, OccSetProperties
      <3>3. Occurrences(out) = 0 /\ discarded = 0
        BY <1>1, <3>1, <3>2
      <3> QED  BY <1>2, <3>3, OccZero
    <2>2. clearCount' = Uncounted(CountedClear(kind), <<>>)
      BY <2>1 DEF Recorded, out
    <2>3. Held(CountedClear(kind), fp) # 0
      <3>1. Held(Uncounted(CountedClear(kind), <<>>), fp) = Held(CountedClear(kind), fp)
        BY <1>0, CountedTyped, HeldUncounted
      <3> QED  BY <2>2, <3>1
    <2>4. ClearsChecked
      BY DEF ClearsChecked
    <2>5. \A f \in ClearFingerprints :
             Held(clearCount, f) # 0 => ClearIn(queue, chunk, prev, sent, f, lastProblem[f])
      BY <1>0, <2>1 DEF Coming
    <2>6. lastProblem[fp] \in Int /\ lastProblem[fp] <= lastId
      BY <1>0 DEF ClearsTyped
    <2>7. ASSUME ~IsSuperfluous(kind), ClearIn(queue, chunk, prev, sent, fp, lastProblem[fp])
          PROVE  ClearIn(qs, chunk, prev, sent, fp, lastProblem[fp])
      <3>1. PICK p \in Queues : HasClear(Line(queue[p], fl(p), sent[p]), fp, lastProblem[fp])
        BY <2>7 DEF ClearIn
      <3>2. CASE p # q
        BY <1>5, <2>7, <3>1, <3>2 DEF ClearIn
      <3>3. CASE p = q
        <4>1. /\ queue[q] \in Seq(AnyEntry) /\ fl(q) \in Seq(AnyEvent) /\ sent[q] \in Seq(AnyEvent)
          BY <1>1 DEF OneQueue
        <4>2. qs[q] \in Seq(AnyEntry)
          BY <1>2 DEF Fine
        <4>3. HasClear(Events(queue[q]), fp, lastProblem[fp]) => HasClear(Events(r.queue), fp, lastProblem[fp])
          BY <1>1, <1>5, <2>1, <2>6, <2>7, HasClearAdded
        <4>4. HasClear(Line(qs[q], fl(q), sent[q]), fp, lastProblem[fp])
          BY <1>5, <2>7, <3>1, <3>3, <4>1, <4>2, <4>3, HasClearInLine
        <4> QED  BY <4>4 DEF ClearIn
      <3> QED  BY <3>2, <3>3
    <2>8. CASE kind \in Clears
      <3>1. lastProblem' = lastProblem
        BY <2>8 DEF Recorded
      <3>2. CountedClear(kind) = [f \in DOMAIN clearCount \cup {fk} |->
                                    IF f = fk THEN CountOf(fk) + 1 ELSE clearCount[f]]
        BY <2>4, <2>8 DEF CountedClear
      <3>3. fp # fk => Held(clearCount, fp) # 0
        BY <2>3, <3>2 DEF Held
      <3>4. CASE IsSuperfluous(kind)
        <4>1. CountOf(fk) # 0
          BY <3>4 DEF IsSuperfluous
        <4>2. Held(clearCount, fp) # 0
          BY <3>3, <4>1 DEF Held, CountOf
        <4> QED  BY <1>4, <2>5, <3>1, <3>4, <4>2
      <3>5. CASE ~IsSuperfluous(kind) /\ fp = fk
        <4>1. /\ queue[q] \in Seq(AnyEntry) /\ fl(q) \in Seq(AnyEvent) /\ sent[q] \in Seq(AnyEvent)
          BY <1>1 DEF OneQueue
        <4>2. qs[q] \in Seq(AnyEntry)
          BY <1>2 DEF Fine
        <4>3. HasClear(Events(r.queue), fp, lastProblem[fp])
          BY <1>1, <1>5, <2>1, <2>6, <2>8, <3>5, HasClearAdded
        <4>4. HasClear(Line(qs[q], fl(q), sent[q]), fp, lastProblem[fp])
          BY <1>5, <3>5, <4>1, <4>2, <4>3, HasClearInLine
        <4> QED  BY <3>1, <4>4 DEF ClearIn
      <3>6. CASE ~IsSuperfluous(kind) /\ fp # fk
        BY <2>5, <2>7, <3>1, <3>3, <3>6
      <3> QED  BY <3>4, <3>5, <3>6
    <2>9. CASE kind \notin Clears
      <3>1. CountedClear(kind) = [f \in DOMAIN clearCount \ {fk} |-> clearCount[f]]
        BY <2>4, <2>9 DEF CountedClear
      <3>2. fp # fk /\ Held(clearCount, fp) # 0
        BY <2>3, <3>1 DEF Held
      <3>3. lastProblem'[fp] = lastProblem[fp]
        BY <1>0, <2>9, <3>2 DEF Recorded, ClearsTyped
      <3>4. ~IsSuperfluous(kind)
        BY <2>9 DEF IsSuperfluous
      <3> QED  BY <2>5, <2>7, <3>2, <3>3, <3>4
    <2> QED  BY <2>8, <2>9
  <1>8. Good(qs, chunk, prev, sent, discarded', lastId', dropped', clearCount', lastProblem')
    BY <1>2, <1>3, <1>6, <1>7 DEF Good
  <1> QED  BY <1>8 DEF qs

LEMMA GoodFailed ==
    ASSUME Good(queue, chunk, prev, sent, discarded, lastId, dropped, clearCount, lastProblem)
    PROVE  Good([q \in Queues |-> Back[q].queue], NoChunk, Empty, sent, discarded + Occurrences(Over),
                lastId, dropped, Uncounted(clearCount, Over), lastProblem)
  <1> DEFINE fl(p) == InFlight(chunk, prev, p)
             qs == [q \in Queues |-> Back[q].queue]
             count == Uncounted(clearCount, Over)
             di == discarded + Occurrences(Over)
  <1>0. /\ Fine(queue, chunk, prev, sent, discarded, lastId, dropped)
        /\ ClearsTyped(clearCount, lastProblem, lastId)
        /\ \A p \in Queues : Fresh(queue[p], fl(p))
        /\ Coming(queue, chunk, prev, sent, discarded, clearCount, lastProblem)
    BY DEF Good
  <1>1. /\ discarded \in Nat /\ lastId \in Nat
        /\ \A p \in Queues : OneQueue(queue[p], fl(p), sent[p], lastId)
    BY <1>0 DEF Fine
  <1>2. Over \in Seq(AnyEvent) /\ Fine(qs, NoChunk, Empty, sent, di, lastId, dropped)
    BY <1>0, FineFailed
  <1>3. ASSUME NEW p \in Queues
        PROVE  /\ Back[p] = ExtendLeft(queue[p], fl(p)) /\ qs[p] = ExtendLeft(queue[p], fl(p)).queue
               /\ Back[p].discarded \in Seq(AnyEvent)
               /\ Fresh(qs[p], InFlight(NoChunk, Empty, p))
    <2>1. Back[p] = ExtendLeft(queue[p], fl(p)) /\ qs[p] = ExtendLeft(queue[p], fl(p)).queue
      BY DEF Back
    <2>2. Back[p].discarded \in Seq(AnyEvent)
      BY <1>1, <2>1, OnePutBack
    <2>3. Fresh(ExtendLeft(queue[p], fl(p)).queue, <<>>)
      BY <1>0, <1>1, FreshPutBack
    <2> QED  BY <2>1, <2>2, <2>3, EmptyLines
  <1>4. \A f \in DOMAIN clearCount : clearCount[f] \in Int
    BY <1>0 DEF ClearsTyped
  <1>5. ClearsTyped(count, lastProblem, lastId)
    BY <1>0, <1>2, UncountedTyped DEF ClearsTyped
  <1> HIDE DEF qs, count, di
  <1>6. Coming(qs, NoChunk, Empty, sent, di, count, lastProblem)
    <2> SUFFICES ASSUME ~AllowDuplicateClears, DuplicateClearInterval = 0, di = 0,
                        NEW fp \in ClearFingerprints, Held(count, fp) # 0
                 PROVE  ClearIn(qs, NoChunk, Empty, sent, fp, lastProblem[fp])
      BY DEF Coming
    <2>1. discarded = 0 /\ Over = <<>>
      <3>1. Occurrences(Over) \in Nat
        BY <1>2, OccSetProperties
      <3>2. Occurrences(Over) = 0 /\ discarded = 0
        BY <1>1, <3>1 DEF di
      <3> QED  BY <1>2, <3>2, OccZero
    <2>2. \A p \in Queues : ExtendLeft(queue[p], fl(p)).discarded = <<>>
      <3>1. Back["perf"].discarded \in Seq(AnyEvent) /\ Back["event"].discarded \in Seq(AnyEvent)
        BY <1>3 DEF Queues
      <3>2. /\ Len(Back["perf"].discarded) \in Nat /\ Len(Back["event"].discarded) \in Nat
            /\ Len(Over) = Len(Back["perf"].discarded) + Len(Back["event"].discarded)
        <4> HIDE DEF AnyEvent
        <4> QED  BY <3>1, Concat DEF Over
      <3>3. Len(Over) = 0
        BY <2>1
      <3>4. Len(Back["perf"].discarded) = 0 /\ Len(Back["event"].discarded) = 0
        <4> DEFINE a == Len(Back["perf"].discarded)
                   b == Len(Back["event"].discarded)
        <4>1. a \in Nat /\ b \in Nat /\ a + b = 0
          BY <3>2, <3>3
        <4> HIDE DEF a, b
        <4>2. a = 0 /\ b = 0
          BY <4>1
        <4> QED  BY <4>2 DEF a, b
      <3>5. Back["perf"].discarded = <<>> /\ Back["event"].discarded = <<>>
        BY <3>1, <3>4, EmptySeq
      <3> QED  BY <1>3, <3>5 DEF Queues
    <2>3. Held(clearCount, fp) # 0
      <3>1. Held(Uncounted(clearCount, <<>>), fp) = Held(clearCount, fp)
        BY <1>0, <1>4, HeldUncounted DEF ClearsTyped
      <3> QED  BY <2>1, <3>1 DEF count
    <2>4. PICK p \in Queues : HasClear(Line(queue[p], fl(p), sent[p]), fp, lastProblem[fp])
      BY <1>0, <2>1, <2>3 DEF Coming, ClearIn
    <2>5. queue[p] \in Seq(AnyEntry) /\ fl(p) \in Seq(AnyEvent) /\ sent[p] \in Seq(AnyEvent)
      BY <1>1 DEF OneQueue
    <2>6. qs[p] \in Seq(AnyEntry) /\ <<>> \in Seq(AnyEvent)
      BY <1>2 DEF Fine
    <2>7. lastProblem[fp] \in Int
      BY <1>0 DEF ClearsTyped
    <2>8. HasClear(sent[p], fp, lastProblem[fp]) \/ HasClear(Events(qs[p]), fp, lastProblem[fp])
      <3>1. CASE HasClear(sent[p], fp, lastProblem[fp])
        BY <3>1
      <3>2. CASE HasClear(fl(p), fp, lastProblem[fp]) \/ HasClear(Events(queue[p]), fp, lastProblem[fp])
        <4>1. HasClear(Events(ExtendLeft(queue[p], fl(p)).queue), fp, lastProblem[fp])
          BY <1>0, <1>1, <2>2, <2>7, <3>2, HasClearPutBack
        <4> QED  BY <1>3, <4>1
      <3> QED  BY <2>4, <2>5, <3>1, <3>2, HasClearInLine
    <2>9. HasClear(Line(qs[p], <<>>, sent[p]), fp, lastProblem[fp])
      BY <2>5, <2>6, <2>8, HasClearInLine
    <2> QED  BY <2>9, EmptyLines DEF ClearIn
  <1>7. Good(qs, NoChunk, Empty, sent, di, lastId, dropped, count, lastProblem)
    BY <1>2, <1>3, <1>5, <1>6 DEF Good
  <1> QED  BY <1>7 DEF qs, count, di

-----------------------------------------------------------------------------
(* The invariant                                                           *)

\* No flush leaves anything behind, and at most one heartbeat is queued.
Resting == /\ {heartbeat, chunk.heartbeat} \subseteq {0, 1}
           /\ flushing \in BOOLEAN
           /\ ~flushing => chunk = NoChunk /\ prev = Empty

GoodNow == Good(queue, chunk, prev, sent, discarded, lastId, dropped, clearCount, lastProblem)

IInv == GoodNow /\ Resting /\ lastId <= MaxEvents

LEMMA StateTypes ==
    ASSUME GoodNow
    PROVE  /\ queue \in [Queues -> Seq(AnyEntry)] /\ prev \in [Queues -> Seq(AnyEntry)]
           /\ sent \in [Queues -> Seq(AnyEvent)] /\ \A q \in Queues : chunk[q] \in Seq(AnyEvent)
           /\ discarded \in Nat /\ lastId \in Nat /\ dropped \in Nat /\ dropped <= lastId
           /\ Fine(queue, chunk, prev, sent, discarded, lastId, dropped)
           /\ \A q \in Queues : OneQueue(queue[q], InFlight(chunk, prev, q), sent[q], lastId)
           /\ \A q \in Queues : Len(queue[q]) <= MaxQueueLen
  BY DEF GoodNow, Good, Fine, OneQueue

LEMMA GoodInit == EQMInit => GoodNow /\ Resting /\ lastId = 0
  <1> SUFFICES ASSUME EQMInit PROVE GoodNow /\ Resting /\ lastId = 0
    OBVIOUS
  <1>1. /\ queue = Empty /\ chunk = NoChunk /\ prev = Empty /\ sent = Empty
        /\ discarded = 0 /\ lastId = 0 /\ dropped = 0 /\ clearCount = <<>>
        /\ lastProblem = [fp \in ClearFingerprints |-> 0] /\ flushing = FALSE /\ heartbeat = 0
    BY DEF EQMInit
  <1>2. Resting
    BY <1>1 DEF Resting, NoChunk
  <1>3. <<>> \in Seq(AnyEntry) /\ <<>> \in Seq(AnyEvent) /\ Events(<<>>) = <<>> /\ Len(<<>>) = 0
    BY DEF Events
  <1>4. Line(<<>>, <<>>, <<>>) = <<>>
    BY <1>3, ConcatEmptySeq DEF Line
  <1>5. OneQueue(<<>>, <<>>, <<>>, 0)
    <2>1. KeysDiffer(<<>>) /\ Ordered(<<>>) /\ UpTo(<<>>, 0)
      BY DEF KeysDiffer, Ordered, UpTo
    <2>2. 0 <= MaxQueueLen
      BY EventAssumption
    <2> QED  BY <1>3, <1>4, <2>1, <2>2 DEF OneQueue
  <1>6. InAll(Empty, NoChunk, Empty, Empty) = 0
    <2>1. \A q \in Queues : Occurrences(Line(Empty[q], InFlight(NoChunk, Empty, q), Empty[q])) = 0
      BY <1>4, EmptyLines, OccEmpty
    <2> QED  BY <2>1 DEF InAll, Queues
  <1>7. Empty \in [Queues -> Seq(AnyEntry)] /\ Empty \in [Queues -> Seq(AnyEvent)]
    BY <1>3 DEF Empty
  <1>8. Fine(Empty, NoChunk, Empty, Empty, 0, 0, 0)
    BY <1>5, <1>6, <1>7, EmptyLines DEF Fine
  <1>9. \A q \in Queues : Fresh(Empty[q], InFlight(NoChunk, Empty, q))
    <2>1. Fresh(<<>>, <<>>)
      BY <1>3 DEF Fresh, KeysTell, CountsTell
    <2> QED  BY <2>1, EmptyLines
  <1>10. DOMAIN clearCount = {}
    BY <1>1
  <1>11. ClearsTyped(clearCount, lastProblem, 0)
    BY <1>1, <1>10 DEF ClearsTyped
  <1>12. Coming(Empty, NoChunk, Empty, Empty, 0, clearCount, lastProblem)
    BY <1>10 DEF Coming, Held
  <1>13. GoodNow
    BY <1>1, <1>8, <1>9, <1>11, <1>12 DEF GoodNow, Good
  <1> QED  BY <1>1, <1>2, <1>13

\* What a flush leaves when its next chunk goes out, or nothing is left to send
LEMMA NextRests ==
    ASSUME NEW hb \in {0, 1}, NEW qs \in [Queues -> Seq(AnyEntry)], SendNext(hb, qs)
    PROVE  /\ chunk'.heartbeat \in {0, 1} /\ flushing' \in BOOLEAN
           /\ ~flushing' => chunk' = NoChunk /\ prev' = Empty /\ qs = Empty /\ hb = 0
  <1>1. chunk' = ChunkOf(hb, qs) /\ prev' = RestOf(hb, qs) /\ flushing' = (ChunkOf(hb, qs) # NoChunk)
    BY DEF SendNext
  <1>2. ChunkOf(hb, qs).heartbeat = hb
    BY ChunkProperties
  <1>3. ChunkOf(hb, qs) = NoChunk => hb = 0 /\ qs = Empty /\ RestOf(hb, qs) = Empty
    BY ChunkProperties
  <1> QED  BY <1>1, <1>2, <1>3

LEMMA StepAdd ==
    ASSUME IInv, NEW q \in Queues, NEW kind \in Kinds, AddEvent(q, kind)
    PROVE  IInv'
  <1>1. /\ lastId < MaxEvents /\ queue' = Filing(q, kind).queue /\ Recorded(q, kind)
        /\ heartbeat' = heartbeat /\ flushing' = flushing /\ prev' = prev /\ chunk' = chunk /\ sent' = sent
    BY DEF AddEvent, flush
  <1>2. Good(Filing(q, kind).queue, chunk, prev, sent, discarded', lastId', dropped', clearCount', lastProblem')
    BY <1>1, GoodAdded DEF IInv, GoodNow
  <1>3. GoodNow'
    BY <1>1, <1>2 DEF GoodNow
  <1>4. lastId' <= MaxEvents
    <2>1. lastId' = lastId + 1 /\ lastId \in Nat
      BY <1>1, StateTypes DEF Recorded, IInv
    <2> QED  BY <1>1, <2>1, EventAssumption
  <1>5. Resting'
    BY <1>1 DEF IInv, Resting
  <1> QED  BY <1>3, <1>4, <1>5 DEF IInv

LEMMA StepHeartbeat ==
    ASSUME IInv, AddHeartbeatEvent
    PROVE  IInv'
  <1>1. /\ heartbeat' = 1 /\ queue' = queue /\ flushing' = flushing /\ prev' = prev /\ chunk' = chunk
        /\ sent' = sent /\ clearCount' = clearCount /\ discarded' = discarded /\ lastId' = lastId
        /\ dropped' = dropped /\ lastProblem' = lastProblem
    BY DEF AddHeartbeatEvent, flush, added
  <1> QED  BY <1>1 DEF IInv, Resting, GoodNow

LEMMA StepSend ==
    ASSUME IInv, SendEvents
    PROVE  IInv'
  <1>1. /\ ~flushing /\ queue' = Empty /\ heartbeat' = 0 /\ SendNext(heartbeat, queue)
        /\ sent' = sent /\ clearCount' = clearCount /\ discarded' = discarded /\ lastId' = lastId
        /\ dropped' = dropped /\ lastProblem' = lastProblem
    BY DEF SendEvents, TakeOver, added
  <1>2. heartbeat \in {0, 1} /\ chunk = NoChunk /\ prev = Empty
    BY <1>1 DEF IInv, Resting
  <1>3. Good(Empty, ChunkOf(heartbeat, queue), RestOf(heartbeat, queue), sent, discarded, lastId, dropped,
             clearCount, lastProblem)
    BY <1>2, GoodTaken DEF IInv, GoodNow
  <1>4. GoodNow'
    BY <1>1, <1>3 DEF GoodNow, SendNext
  <1>5. Resting'
    BY <1>1, <1>2, NextRests, StateTypes DEF IInv, Resting
  <1> QED  BY <1>1, <1>4, <1>5 DEF IInv

LEMMA StepSent ==
    ASSUME IInv, ChunkSent
    PROVE  IInv'
  <1>1. /\ Answered /\ SendNext(0, prev) /\ queue' = queue /\ heartbeat' = heartbeat
        /\ clearCount' = clearCount /\ discarded' = discarded /\ lastId' = lastId
        /\ dropped' = dropped /\ lastProblem' = lastProblem
    BY DEF ChunkSent, added
  <1>2. Good(queue, NoChunk, prev, [q \in Queues |-> sent[q] \o chunk[q]], discarded, lastId, dropped,
             clearCount, lastProblem)
    BY GoodAnswered DEF IInv, GoodNow
  <1>3. Good(queue, ChunkOf(0, prev), RestOf(0, prev), sent', discarded, lastId, dropped,
             clearCount, lastProblem)
    BY <1>1, <1>2, GoodNext DEF Answered
  <1>4. GoodNow'
    BY <1>1, <1>3 DEF GoodNow, SendNext
  <1>5. Resting'
    <2>1. 0 \in {0, 1} /\ prev \in [Queues -> Seq(AnyEntry)]
      BY StateTypes DEF IInv
    <2> QED  BY <1>1, <2>1, NextRests DEF IInv, Resting
  <1> QED  BY <1>1, <1>4, <1>5 DEF IInv

LEMMA FailedGood ==
    ASSUME GoodNow, ChunkFailed
    PROVE  GoodNow'
  <1>1. /\ queue' = [q \in Queues |-> Back[q].queue] /\ discarded' = discarded + Occurrences(Over)
        /\ clearCount' = Uncounted(clearCount, Over)
    BY DEF ChunkFailed, Back, Over, InFlight
  <1>2. /\ prev' = Empty /\ chunk' = NoChunk /\ sent' = sent /\ lastId' = lastId /\ dropped' = dropped
        /\ lastProblem' = lastProblem
    BY DEF ChunkFailed, FlushEnds
  <1>3. Good([q \in Queues |-> Back[q].queue], NoChunk, Empty, sent, discarded + Occurrences(Over),
             lastId, dropped, Uncounted(clearCount, Over), lastProblem)
    BY GoodFailed DEF GoodNow
  <1> QED  BY <1>1, <1>2, <1>3 DEF GoodNow

LEMMA StepFailed ==
    ASSUME IInv, ChunkFailed
    PROVE  IInv'
  <1>1. /\ flushing' = FALSE /\ prev' = Empty /\ chunk' = NoChunk /\ heartbeat' = heartbeat /\ lastId' = lastId
    BY DEF ChunkFailed, FlushEnds
  <1>2. GoodNow'
    BY FailedGood DEF IInv
  <1>3. Resting'
    BY <1>1 DEF IInv, Resting, NoChunk
  <1> QED  BY <1>1, <1>2, <1>3 DEF IInv

\* Whatever daemons queue and whatever flushes are answered or fail (addEvent,
\* sendEvents, PBDaemon.py:499-630), both queues, what is in flight and what was sent
\* stay as Good says, and a flush that is over holds nothing back.
THEOREM EQMInvariantHolds == EQMSpec => []IInv
  <1>1. EQMInit => IInv
    <2>1. 0 <= MaxEvents
      BY EventAssumption
    <2> QED  BY <2>1, GoodInit DEF IInv
  <1>2. IInv /\ [EQMNext]_eqmVars => IInv'
    <2> SUFFICES ASSUME IInv, [EQMNext]_eqmVars PROVE IInv'
      OBVIOUS
    <2>1. ASSUME NEW q \in Queues, NEW kind \in Kinds, AddEvent(q, kind) PROVE IInv'
      BY <2>1, StepAdd
    <2>2. CASE AddHeartbeatEvent
      BY <2>2, StepHeartbeat
    <2>3. CASE SendEvents
      BY <2>3, StepSend
    <2>4. CASE ChunkSent
      BY <2>4, StepSent
    <2>5. CASE ChunkFailed
      BY <2>5, StepFailed
    <2>6. CASE UNCHANGED eqmVars
      BY <2>6 DEF IInv, GoodNow, Resting, eqmVars, flush, added
    <2> QED  BY <2>1, <2>2, <2>3, <2>4, <2>5, <2>6 DEF EQMNext
  <1> QED  BY <1>1, <1>2, PTL DEF EQMSpec

-----------------------------------------------------------------------------
(* What it implies                                                         *)

LEMMA InOrderIsLine ==
    ASSUME GoodNow, NEW q \in Queues
    PROVE  /\ InOrder(q) = Line(queue[q], InFlight(chunk, prev, q), sent[q])
           /\ InOrder(q) \in Seq(AnyEvent) /\ DOMAIN InOrder(q) = 1..Len(InOrder(q))
  <1>1. /\ sent[q] \in Seq(AnyEvent) /\ chunk[q] \in Seq(AnyEvent) /\ Events(prev[q]) \in Seq(AnyEvent)
        /\ Line(queue[q], InFlight(chunk, prev, q), sent[q]) \in Seq(AnyEvent)
    <2>1. Fine(queue, chunk, prev, sent, discarded, lastId, dropped)
      BY StateTypes
    <2> QED  BY <2>1, FineTypes, EventsType
  <1>2. (sent[q] \o chunk[q]) \o Events(prev[q]) = sent[q] \o (chunk[q] \o Events(prev[q]))
    <2> DEFINE a == sent[q]
               b == chunk[q]
               c == Events(prev[q])
    <2>1. a \in Seq(AnyEvent) /\ b \in Seq(AnyEvent) /\ c \in Seq(AnyEvent)
      BY <1>1
    <2> HIDE DEF a, b, c
    <2>2. (a \o b) \o c = a \o (b \o c)
      BY <2>1, ConcatAssociative
    <2> QED  BY <2>2 DEF a, b, c
  <1>3. InOrder(q) = Line(queue[q], InFlight(chunk, prev, q), sent[q])
    BY <1>2 DEF InOrder, Line, InFlight
  <1>4. \A s \in Seq(AnyEvent) : DOMAIN s = 1..Len(s)
    BY LenProperties
  <1> QED  BY <1>1, <1>3, <1>4

LEMMA AccountedIsInAll ==
    ASSUME GoodNow
    PROVE  Accounted = InAll(queue, chunk, prev, sent) + discarded
  BY InOrderIsLine DEF Accounted, InAll, Queues

LEMMA GoodBounded ==
    ASSUME GoodNow
    PROVE  QueueBounded
  BY StateTypes DEF QueueBounded

LEMMA GoodNotInvented ==
    ASSUME GoodNow
    PROVE  /\ NoOccurrenceInvented
           /\ ~Deduplicate => NoOccurrenceLost
  <1>1. /\ InAll(queue, chunk, prev, sent) + discarded <= lastId - dropped
        /\ ~Deduplicate => InAll(queue, chunk, prev, sent) + discarded = lastId - dropped
    BY StateTypes DEF Fine
  <1> QED  BY <1>1, AccountedIsInAll DEF NoOccurrenceInvented, NoOccurrenceLost

LEMMA GoodOrder ==
    ASSUME GoodNow
    PROVE  OrderKept
  <1> SUFFICES ASSUME NEW q \in Queues, NEW i \in DOMAIN InOrder(q), NEW j \in DOMAIN InOrder(q), i < j
               PROVE  /\ InOrder(q)[i].id # InOrder(q)[j].id
                      /\ ~Deduplicate => InOrder(q)[i].id < InOrder(q)[j].id
    BY DEF OrderKept
  <1>1. Ordered(InOrder(q))
    BY StateTypes, InOrderIsLine DEF OneQueue
  <1> QED  BY <1>1, InOrderIsLine DEF Ordered, Follows

LEMMA GoodClears ==
    ASSUME GoodNow
    PROVE  ClearsGetThrough
  <1> SUFFICES ASSUME discarded = 0, ~AllowDuplicateClears, DuplicateClearInterval = 0,
                      NEW fp \in ClearFingerprints, CountOf(fp) # 0
               PROVE  \E q \in Queues : \E i \in DOMAIN InOrder(q) :
                         /\ InOrder(q)[i].kind \in Clears
                         /\ ClearFingerprint[InOrder(q)[i].kind] = fp
                         /\ InOrder(q)[i].id > lastProblem[fp]
    BY DEF ClearsGetThrough, AClearIsComing
  <1>1. Coming(queue, chunk, prev, sent, discarded, clearCount, lastProblem)
    BY DEF GoodNow, Good
  <1>2. Held(clearCount, fp) # 0
    BY DEF Held, CountOf
  <1>3. PICK q \in Queues : HasClear(Line(queue[q], InFlight(chunk, prev, q), sent[q]), fp, lastProblem[fp])
    BY <1>1, <1>2 DEF Coming, ClearIn
  <1>4. HasClear(InOrder(q), fp, lastProblem[fp])
    BY <1>3, InOrderIsLine
  <1> QED  BY <1>4, InOrderIsLine DEF HasClear

\* An event stands for as many occurrences as it counts.
LEMMA CountBound ==
    ASSUME NEW evs \in Seq(AnyEvent), NEW i \in 1..Len(evs)
    PROVE  evs[i].count \in Nat /\ evs[i].count <= Occurrences(evs)
  <1> DEFINE c == evs[i].count
             g == [n \in 1..c |-> <<i, n>>]
  <1>1. evs[i] \in AnyEvent
    BY ElementOfSeq
  <1>2. c \in Nat
    BY <1>1 DEF AnyEvent
  <1> HIDE DEF c
  <1>3. \A n \in 1..c : <<i, n>> \in OccSet(evs)
    <2>1. ASSUME NEW n \in 1..c PROVE <<i, n>> \in OccSet(evs)
      <3>1. n \in Nat \ {0} /\ n <= evs[i].count
        BY <1>2 DEF c
      <3> QED  BY <3>1, OccSetProperties
    <2> QED  BY <2>1
  <1>4. g \in [1..c -> OccSet(evs)] /\ \A n, m \in 1..c : g[n] = g[m] => n = m
    BY <1>3
  <1>5. Cardinality(1..c) <= Cardinality(OccSet(evs))
    <2>1. IsFiniteSet(OccSet(evs))
      BY OccSetProperties
    <2> HIDE DEF g
    <2> QED  BY <1>4, <2>1, InjectionBound
  <1>6. Cardinality(1..c) = c
    <2>1. 1 \in Int /\ c \in Int /\ (1 > c <=> c = 0)
      BY <1>2
    <2> QED  BY <1>2, <2>1, FS_Interval
  <1> QED  BY <1>2, <1>5, <1>6, OccSetProperties DEF c

\* Of the lines of both queues, an event is as young and counts as much as was added.
LEMMA LineBound ==
    ASSUME IInv, NEW q \in Queues,
           NEW evs \in Seq(AnyEvent), NEW i \in 1..Len(evs),
           NEW l, l = Line(queue[q], InFlight(chunk, prev, q), sent[q]), NEW k \in 1..Len(l), evs[i] = l[k]
    PROVE  evs[i].id \in 1..MaxEvents /\ evs[i].count \in 1..MaxEvents /\ evs[i] \in Event
  <1> DEFINE o(p) == Occurrences(Line(queue[p], InFlight(chunk, prev, p), sent[p]))
  <1>1. Fine(queue, chunk, prev, sent, discarded, lastId, dropped)
    BY StateTypes DEF IInv
  <1>2. l \in Seq(AnyEvent) /\ UpTo(l, lastId)
    <2>1. OneQueue(queue[q], InFlight(chunk, prev, q), sent[q], lastId)
      BY <1>1 DEF Fine
    <2> QED  BY <1>1, <2>1, FineTypes DEF OneQueue
  <1>3. /\ lastId \in Nat /\ dropped \in Nat /\ discarded \in Nat /\ lastId <= MaxEvents
        /\ InAll(queue, chunk, prev, sent) + discarded <= lastId - dropped
    BY <1>1 DEF IInv, Fine
  <1>4. evs[i] \in AnyEvent
    BY ElementOfSeq
  <1>5. evs[i].id <= lastId
    BY <1>2 DEF UpTo
  <1>6. evs[i].count <= o(q)
    BY <1>2, CountBound
  <1>7. InAll(queue, chunk, prev, sent) = o("perf") + o("event")
    BY DEF InAll
  <1>8. o("perf") \in Nat /\ o("event") \in Nat
    BY <1>1, FineTypes DEF Queues
  <1> HIDE DEF o
  <1>9. o(q) <= InAll(queue, chunk, prev, sent) /\ o(q) \in Nat /\ InAll(queue, chunk, prev, sent) \in Nat
    BY <1>7, <1>8 DEF Queues
  <1>10. evs[i].id \in Nat \ {0} /\ evs[i].count \in Nat \ {0} /\ evs[i].kind \in Kinds
    BY <1>4 DEF AnyEvent
  <1>11. evs[i].id <= MaxEvents /\ evs[i].count <= MaxEvents /\ MaxEvents \in Nat
    <2> DEFINE all == InAll(queue, chunk, prev, sent)
               id == evs[i].id
               n == evs[i].count
    <2>1. id <= lastId /\ n <= o(q) /\ o(q) <= all /\ all + discarded <= lastId - dropped
      BY <1>3, <1>5, <1>6, <1>9
    <2>2. id \in Nat /\ n \in Nat /\ all \in Nat /\ o(q) \in Nat
      BY <1>9, <1>10
    <2>3. MaxEvents \in Nat
      BY EventAssumption
    <2> DEFINE w == o(q)
    <2>4. n <= w /\ w <= all /\ w \in Nat
      BY <2>1, <2>2
    <2> HIDE DEF all, id, n, w
    <2>5. id <= MaxEvents /\ n <= MaxEvents
      BY <1>3, <2>1, <2>2, <2>3, <2>4
    <2> QED  BY <2>3, <2>5 DEF id, n
  <1>12. evs[i].id \in 1..MaxEvents /\ evs[i].count \in 1..MaxEvents
    BY <1>10, <1>11
  <1>13. evs[i] \in Event
    BY <1>4, <1>12 DEF AnyEvent, Event
  <1> QED  BY <1>12, <1>13

\* The parts of a line are in it.
LEMMA InLine ==
    ASSUME NEW s \in Seq(AnyEntry), NEW a \in Seq(AnyEvent), NEW b \in Seq(AnyEvent), NEW out \in Seq(AnyEvent)
    PROVE  LET l == Line(s, a \o b, out)
           IN  /\ \A i \in 1..Len(out) : \E k \in 1..Len(l) : out[i] = l[k]
               /\ \A i \in 1..Len(a) : \E k \in 1..Len(l) : a[i] = l[k]
               /\ \A i \in 1..Len(b) : \E k \in 1..Len(l) : b[i] = l[k]
               /\ \A i \in 1..Len(Events(s)) : \E k \in 1..Len(l) : Events(s)[i] = l[k]
  <1> DEFINE Has(l, e) == \E k \in 1..Len(l) : e = l[k]
  <1>1. ASSUME NEW u \in Seq(AnyEvent), NEW v \in Seq(AnyEvent)
        PROVE  /\ u \o v \in Seq(AnyEvent)
               /\ \A e : Has(u, e) => Has(u \o v, e)
               /\ \A e : Has(v, e) => Has(u \o v, e)
    <2>1. /\ u \o v \in Seq(AnyEvent)
          /\ Len(u) \in Nat /\ Len(v) \in Nat /\ Len(u \o v) = Len(u) + Len(v)
          /\ \A i \in 1..Len(u) : i \in 1..Len(u \o v) /\ (u \o v)[i] = u[i]
          /\ \A j \in 1..Len(v) : Len(u) + j \in 1..Len(u \o v) /\ (u \o v)[Len(u) + j] = v[j]
      <3> QED  BY Concat
    <2> DEFINE w == u \o v
    <2>2. /\ \A i \in 1..Len(u) : i \in 1..Len(w) /\ w[i] = u[i]
          /\ \A j \in 1..Len(v) : Len(u) + j \in 1..Len(w) /\ w[Len(u) + j] = v[j]
      BY <2>1
    <2> HIDE DEF w
    <2>3. /\ \A e : Has(u, e) => Has(w, e)
          /\ \A e : Has(v, e) => Has(w, e)
      BY <2>2
    <2> QED  BY <2>1, <2>3 DEF w
  <1>2. \A u : \A i \in 1..Len(u) : Has(u, u[i])
    OBVIOUS
  <1>3. Events(s) \in Seq(AnyEvent)
    BY EventsType
  <1> HIDE DEF Has
  <1>4. a \o b \in Seq(AnyEvent) /\ (\A e : Has(a, e) => Has(a \o b, e)) /\ (\A e : Has(b, e) => Has(a \o b, e))
    BY <1>1
  <1>5. /\ out \o (a \o b) \in Seq(AnyEvent)
        /\ \A e : Has(out, e) => Has(out \o (a \o b), e)
        /\ \A e : Has(a \o b, e) => Has(out \o (a \o b), e)
    BY <1>1, <1>4
  <1>6. /\ \A e : Has(out \o (a \o b), e) => Has(Line(s, a \o b, out), e)
        /\ \A e : Has(Events(s), e) => Has(Line(s, a \o b, out), e)
    BY <1>1, <1>3, <1>5 DEF Line
  <1>7. /\ \A e : Has(out, e) => Has(Line(s, a \o b, out), e)
        /\ \A e : Has(a, e) => Has(Line(s, a \o b, out), e)
        /\ \A e : Has(b, e) => Has(Line(s, a \o b, out), e)
    BY <1>4, <1>5, <1>6
  <1>8. /\ \A i \in 1..Len(out) : Has(Line(s, a \o b, out), out[i])
        /\ \A i \in 1..Len(a) : Has(Line(s, a \o b, out), a[i])
        /\ \A i \in 1..Len(b) : Has(Line(s, a \o b, out), b[i])
        /\ \A i \in 1..Len(Events(s)) : Has(Line(s, a \o b, out), Events(s)[i])
    BY <1>2, <1>6, <1>7
  <1> QED  BY <1>8 DEF Has

LEMMA GoodTypes ==
    ASSUME IInv
    PROVE  TypeOK
  <1>0. Fine(queue, chunk, prev, sent, discarded, lastId, dropped) /\ GoodNow /\ lastId <= MaxEvents
    BY StateTypes DEF IInv
  <1>1. ASSUME NEW s \in Seq(AnyEntry), \A i \in 1..Len(s) : s[i].event \in Event
        PROVE  s \in Seq([key : Kinds \X (1..MaxEvents), event : Event])
    <2>1. ASSUME NEW i \in 1..Len(s) PROVE s[i] \in [key : Kinds \X (1..MaxEvents), event : Event]
      <3>1. /\ s[i] \in AnyEntry /\ s[i].key = <<s[i].event.kind, s[i].key[2]>> /\ s[i].event.kind \in Kinds
            /\ s[i].key[2] \in Nat \ {0} /\ s[i].key[2] <= s[i].event.count
        BY EntryFacts
      <3>2. s[i].event \in Event /\ s[i].event.count \in 1..MaxEvents /\ MaxEvents \in Nat
        BY <1>1, EventAssumption DEF Event
      <3>3. s[i].key[2] \in 1..MaxEvents
        BY <3>1, <3>2
      <3>4. s[i].key \in Kinds \X (1..MaxEvents)
        <4> DEFINE n == s[i].key[2]
        <4>1. n \in 1..MaxEvents /\ s[i].key = <<s[i].event.kind, n>>
          BY <3>1, <3>3
        <4> HIDE DEF n
        <4> QED  BY <3>1, <4>1
      <3>5. s[i] = [key |-> s[i].key, event |-> s[i].event]
        BY <3>1 DEF AnyEntry
      <3> QED  BY <3>2, <3>4, <3>5
    <2> DEFINE R == [key : Kinds \X (1..MaxEvents), event : Event]
    <2>2. \A i \in 1..Len(s) : s[i] \in R
      BY <2>1
    <2> HIDE DEF R
    <2>3. s \in Seq(R)
      BY <2>2, LenProperties, SeqDef
    <2> QED  BY <2>3 DEF R
  <1>2. ASSUME NEW s \in Seq(AnyEvent), \A i \in 1..Len(s) : s[i] \in Event
        PROVE  s \in Seq(Event)
    BY <1>2, LenProperties, SeqDef
  <1>3. ASSUME NEW q \in Queues
        PROVE  /\ queue[q] \in Seq([key : Kinds \X (1..MaxEvents), event : Event])
               /\ prev[q] \in Seq([key : Kinds \X (1..MaxEvents), event : Event])
               /\ chunk[q] \in Seq(Event) /\ sent[q] \in Seq(Event)
               /\ Deduplicate => IsInjective([i \in DOMAIN queue[q] |-> queue[q][i].key])
    <2> DEFINE l == Line(queue[q], InFlight(chunk, prev, q), sent[q])
    <2>1. /\ queue[q] \in Seq(AnyEntry) /\ prev[q] \in Seq(AnyEntry)
          /\ chunk[q] \in Seq(AnyEvent) /\ sent[q] \in Seq(AnyEvent)
      BY <1>0, FineTypes
    <2>2. Events(prev[q]) \in Seq(AnyEvent) /\ Events(queue[q]) \in Seq(AnyEvent)
      BY <2>1, EventsType
    <2>3. /\ \A i \in 1..Len(sent[q]) : \E k \in 1..Len(l) : sent[q][i] = l[k]
          /\ \A i \in 1..Len(chunk[q]) : \E k \in 1..Len(l) : chunk[q][i] = l[k]
          /\ \A i \in 1..Len(Events(prev[q])) : \E k \in 1..Len(l) : Events(prev[q])[i] = l[k]
          /\ \A i \in 1..Len(Events(queue[q])) : \E k \in 1..Len(l) : Events(queue[q])[i] = l[k]
      <3> DEFINE a == chunk[q]
                 b == Events(prev[q])
                 s == queue[q]
                 out == sent[q]
      <3>1. a \in Seq(AnyEvent) /\ b \in Seq(AnyEvent) /\ s \in Seq(AnyEntry) /\ out \in Seq(AnyEvent)
        BY <2>1, <2>2
      <3>2. l = Line(s, a \o b, out)
        BY DEF InFlight
      <3> HIDE DEF a, b, s, out, l
      <3> DEFINE m == Line(s, a \o b, out)
      <3>3. /\ \A i \in 1..Len(out) : \E k \in 1..Len(m) : out[i] = m[k]
            /\ \A i \in 1..Len(a) : \E k \in 1..Len(m) : a[i] = m[k]
            /\ \A i \in 1..Len(b) : \E k \in 1..Len(m) : b[i] = m[k]
            /\ \A i \in 1..Len(Events(s)) : \E k \in 1..Len(m) : Events(s)[i] = m[k]
        BY <3>1, InLine
      <3>4. l = m
        BY <3>2
      <3> HIDE DEF m
      <3> QED  BY <3>3, <3>4 DEF a, b, s, out
    <2>4. ASSUME NEW evs \in Seq(AnyEvent), NEW i \in 1..Len(evs), \E k \in 1..Len(l) : evs[i] = l[k]
          PROVE  evs[i] \in Event
      <3>1. PICK k \in 1..Len(l) : evs[i] = l[k]
        BY <2>4
      <3> HIDE DEF l
      <3> QED  BY <3>1, LineBound DEF l
    <2>5. sent[q] \in Seq(Event) /\ chunk[q] \in Seq(Event)
      BY <1>2, <2>1, <2>3, <2>4
    <2>6. /\ \A i \in 1..Len(prev[q]) : prev[q][i].event \in Event
          /\ \A i \in 1..Len(queue[q]) : queue[q][i].event \in Event
      <3>1. /\ \A i \in 1..Len(Events(prev[q])) : Events(prev[q])[i] \in Event
            /\ \A i \in 1..Len(Events(queue[q])) : Events(queue[q])[i] \in Event
        BY <2>2, <2>3, <2>4
      <3> QED  BY <2>1, <3>1, EventsType
    <2>7. Deduplicate => IsInjective([i \in DOMAIN queue[q] |-> queue[q][i].key])
      <3> SUFFICES ASSUME Deduplicate PROVE IsInjective([i \in DOMAIN queue[q] |-> queue[q][i].key])
        OBVIOUS
      <3>1. KeysDiffer(queue[q]) /\ DOMAIN queue[q] = 1..Len(queue[q])
        BY <1>0, <2>1, LenProperties DEF Fine, OneQueue
      <3> QED  BY <3>1 DEF KeysDiffer, IsInjective
    <2> QED  BY <1>1, <2>1, <2>5, <2>6, <2>7
  <1>4. {discarded, lastId, dropped} \subseteq 0..MaxEvents
    <2>1. /\ discarded \in Nat /\ lastId \in Nat /\ dropped \in Nat /\ dropped <= lastId
          /\ InAll(queue, chunk, prev, sent) + discarded <= lastId - dropped
      BY <1>0 DEF Fine
    <2>2. InAll(queue, chunk, prev, sent) \in Nat
      <3>1. \A q \in Queues : Occurrences(Line(queue[q], InFlight(chunk, prev, q), sent[q])) \in Nat
        BY <1>0, FineTypes
      <3> QED  BY <3>1 DEF InAll, Queues
    <2>3. discarded <= lastId
      BY <2>1, <2>2
    <2> QED  BY <1>0, <2>1, <2>3, EventAssumption
  <1>5. ClearsTyped(clearCount, lastProblem, lastId) /\ 0..lastId \subseteq 0..MaxEvents
    <2>1. lastId \in Nat /\ MaxEvents \in Nat
      BY <1>0, EventAssumption DEF Fine
    <2>2. 0..lastId \subseteq 0..MaxEvents
      BY <1>0, <2>1
    <2> QED  BY <1>0, <2>2 DEF GoodNow, Good
  <1>6. lastProblem \in [ClearFingerprints -> 0..MaxEvents]
    BY <1>5 DEF ClearsTyped
  <1>7. Resting
    BY DEF IInv
  <1> QED  BY <1>3, <1>4, <1>5, <1>6, <1>7 DEF TypeOK, Resting, ClearsTyped

\* Queues hold entries filed under a fingerprint, once each with de-duplication, a
\* queue has one heartbeat at most (deque of maxlen 1), and counts stay within bounds.
THEOREM TypeCorrect == EQMSpec => []TypeOK
  <1>1. IInv => TypeOK
    BY GoodTypes
  <1> QED  BY <1>1, EQMInvariantHolds, PTL

\* The two queues stay within maxqueuelen: append makes room before it adds, and
\* extendleft puts back no more than fits (PBDaemon.py:291-297, 305-316, 340-359, 392-402).
THEOREM QueuesStayBounded == EQMSpec => []QueueBounded
  <1>1. IInv => QueueBounded
    BY GoodBounded DEF IInv
  <1> QED  BY <1>1, EQMInvariantHolds, PTL

\* No occurrence is counted twice, whatever is merged, put back or discarded.
THEOREM OccurrencesAreNotInvented == EQMSpec => []NoOccurrenceInvented
  <1>1. IInv => NoOccurrenceInvented
    BY GoodNotInvented DEF IInv
  <1> QED  BY <1>1, EQMInvariantHolds, PTL

\* Without de-duplication none is lost either.
THEOREM OccurrencesAreNotLost ==
    ASSUME ~Deduplicate
    PROVE  EQMSpec => []NoOccurrenceLost
  <1>1. IInv => NoOccurrenceLost
    BY GoodNotInvented DEF IInv
  <1> QED  BY <1>1, EQMInvariantHolds, PTL

\* An event goes to the hub once, and without de-duplication in order.
THEOREM EventsGoOnceInOrder == EQMSpec => []OrderKept
  <1>1. IInv => OrderKept
    BY GoodOrder DEF IInv
  <1> QED  BY <1>1, EQMInvariantHolds, PTL

\* While nothing was discarded, clears are dropped only behind a clear that comes
\* after the problem (PBDaemon.py:472-534).
THEOREM ClearsAreNotHeldBack == EQMSpec => []ClearsGetThrough
  <1>1. IInv => ClearsGetThrough
    BY GoodClears DEF IInv
  <1> QED  BY <1>1, EQMInvariantHolds, PTL
=============================================================================
