------------------------------ MODULE DataProofs ------------------------------
(* What the models' data does: numbers, the lists of LinkedList when nothing *)
(* is on them twice, sums over finite sets (SumFunctionOnSet), and loops     *)
(* written as recursive functions over an interval.                          *)
EXTENDS LinkedList, Integers, FiniteSets, Functions, TLAPS,
        SequenceTheorems, FiniteSetTheorems, WellFoundedInduction

-----------------------------------------------------------------------------
(* Numbers. *)

\* A set of numbers that is not empty has a least one: the first bit that is
\* set (find_first_bit), the first entry that is of some kind.
LEMMA LeastNat ==
    ASSUME NEW N \in SUBSET Nat, N # {}
    PROVE  \E n \in N : \A m \in N : n <= m
<1>1. PICK n \in N : \A m \in N : ~(<<m, n>> \in OpToRel(<, Nat))
  BY WFMin, NatLessThanWellFounded
<1>2. \A m \in N : ~(m < n)
  BY <1>1 DEF OpToRel
<1> QED BY <1>2

\* A set of numbers below a bound that is not empty has a greatest one.
LEMMA GreatestNat ==
    ASSUME NEW n \in Nat, NEW N \in SUBSET (0 .. n), N # {}
    PROVE  \E k \in N : \A m \in N : m <= k
<1> DEFINE D == {n - k : k \in N}
<1>1. D \in SUBSET Nat /\ D # {}
  <2>1. \A k \in N : n - k \in Nat
    OBVIOUS
  <2>2. D \in SUBSET Nat
    BY <2>1
  <2>3. PICK k \in N : TRUE
    OBVIOUS
  <2>4. n - k \in D
    OBVIOUS
  <2> QED BY <2>2, <2>4
<1>2. PICK d \in D : \A e \in D : d <= e
  <2> HIDE DEF D
  <2> QED BY <1>1, LeastNat
<1>3. PICK k \in N : d = n - k
  BY <1>2
<1>4. ASSUME NEW m \in N PROVE m <= k
  <2>1. n - k <= n - m
    BY <1>2, <1>3
  <2> QED BY <2>1
<1> QED BY <1>4

\* What holds at m and goes on from one index to the next holds up to n.
LEMMA Upwards ==
    ASSUME NEW I, NEW m \in Nat, NEW n \in Nat, m \in I,
           \A i \in m + 1 .. n : i - 1 \in I => i \in I
    PROVE  \A i \in m .. n : i \in I
<1> DEFINE Bad == {i \in m .. n : i \notin I}
<1> SUFFICES ASSUME Bad # {} PROVE FALSE
  OBVIOUS
<1>1. PICK i \in Bad : \A j \in Bad : i <= j
  <2>1. Bad \in SUBSET Nat
    OBVIOUS
  <2> HIDE DEF Bad
  <2> QED BY <2>1, LeastNat
<1>2. i \in m + 1 .. n /\ i \notin I
  BY <1>1
<1>3. i - 1 \in m .. n /\ ~(i <= i - 1)
  BY <1>2
<1>4. i - 1 \in I
  BY <1>1, <1>3
<1> QED BY <1>2, <1>4

\* What is left of q * M + s.
LEMMA ModOf ==
    ASSUME NEW M \in Nat \ {0}, NEW q \in Nat, NEW s \in 0 .. M - 1
    PROVE  (q * M + s) % M = s
<1> DEFINE a == q * M + s
           d == a \div M
           m == a % M
<1>1. a \in Nat
  OBVIOUS
<1>2. a = M * d + m /\ m \in 0 .. M - 1 /\ d \in Nat
  <2> HIDE DEF a
  <2> QED BY <1>1
<1>3. a = q * M + s
  OBVIOUS
<1> HIDE DEF a, d, m
<1>4. ASSUME d = q PROVE m = s
  <2>1. M * d = q * M
    BY <1>2, <1>4
  <2> QED BY <1>2, <1>3, <2>1
<1>5. ASSUME d < q PROVE FALSE
  <2>1. q = d + (q - d) /\ q - d \in Nat /\ q - d >= 1
    BY <1>2, <1>5
  <2>2. q * M = M * d + (q - d) * M
    BY <1>2, <2>1
  <2>3. (q - d) * M >= M
    BY <2>1
  <2> QED BY <1>2, <1>3, <2>2, <2>3
<1>6. ASSUME d > q PROVE FALSE
  <2>1. d - q \in Nat /\ d - q >= 1
    BY <1>2, <1>6
  <2>2. M * d = q * M + (d - q) * M
    BY <1>2, <2>1
  <2>3. (d - q) * M >= M
    BY <2>1
  <2> QED BY <1>2, <1>3, <2>2, <2>3
<1>7. m = s
  BY <1>2, <1>4, <1>5, <1>6
<1> QED BY <1>7 DEF m, a

-----------------------------------------------------------------------------
(* The operations of LinkedList on lists without repetitions. *)

\* s lists the elements of S, each once.
Lists(s, S) ==
    /\ s \in Seq(S)
    /\ \A j, k \in 1 .. Len(s) : s[j] = s[k] => j = k
    /\ \A x \in S : \E k \in 1 .. Len(s) : s[k] = x

\* Lists, element by element.
LEMMA ListsElements ==
    ASSUME NEW S, NEW T, NEW s \in Seq(T)
    PROVE  Lists(s, S) <=> /\ \A j, k \in 1 .. Len(s) : s[j] = s[k] => j = k
                           /\ \A k \in 1 .. Len(s) : s[k] \in S
                           /\ \A x \in S : \E k \in 1 .. Len(s) : s[k] = x
<1>1. s \in Seq(S) <=> \A k \in 1 .. Len(s) : s[k] \in S
  <2>1. ASSUME s \in Seq(S) PROVE \A k \in 1 .. Len(s) : s[k] \in S
    BY <2>1, ElementOfSeq
  <2>2. ASSUME \A k \in 1 .. Len(s) : s[k] \in S PROVE s \in Seq(S)
    <3>1. Len(s) \in Nat /\ s \in [1 .. Len(s) -> T]
      BY LenProperties
    <3>2. s \in [1 .. Len(s) -> S]
      BY <2>2, <3>1
    <3> QED BY <3>1, <3>2, SeqDef
  <2> QED BY <2>1, <2>2
<1> QED BY <1>1 DEF Lists

\* A list of the elements of S is one of elements of any larger set.
LEMMA ListsWithin ==
    ASSUME NEW S, NEW T, S \subseteq T, NEW s, Lists(s, S)
    PROVE  s \in Seq(T)
BY DEF Lists

\* list_del_init takes out the one entry of p.
LEMMA DeleteLists ==
    ASSUME NEW S, NEW s, Lists(s, S), NEW p \in S
    PROVE  Lists(list_del_init(s, p), S \ {p})
<1> DEFINE i == CHOOSE k \in DOMAIN s : s[k] = p
           r == RemoveAt(s, i)
<1>1. /\ s \in Seq(S) /\ Len(s) \in Nat /\ DOMAIN s = 1 .. Len(s)
      /\ \A k \in 1 .. Len(s) : s[k] \in S
  BY LenProperties, ElementOfSeq DEF Lists
<1>2. PICK k0 \in 1 .. Len(s) : s[k0] = p
  BY DEF Lists
<1>3. i \in 1 .. Len(s) /\ s[i] = p
  BY <1>1, <1>2
<1>4. list_del_init(s, p) = r
  BY <1>1, <1>2 DEF list_del_init
<1> HIDE DEF i
<1>5. /\ r \in Seq(S)
      /\ Len(r) = Len(s) - 1
      /\ \A k \in 1 .. Len(s) - 1 : r[k] = IF k < i THEN s[k] ELSE s[k + 1]
  <2> DEFINE a == SubSeq(s, 1, i - 1)
             b == SubSeq(s, i + 1, Len(s))
  <2>1. /\ a \in Seq(S) /\ Len(a) = i - 1
        /\ \A k \in 1 .. i - 1 : a[k] = s[k]
    <3>1. \A k \in 1 .. i - 1 : s[k] \in S
      BY <1>1, <1>3
    <3>2. /\ a \in Seq(S) /\ Len(a) = IF 1 <= i - 1 THEN i - 1 - 1 + 1 ELSE 0
          /\ \A k \in 1 .. i - 1 - 1 + 1 : a[k] = s[1 + k - 1]
      BY <1>1, <1>3, <3>1, SubSeqProperties
    <3> QED BY <1>1, <1>3, <3>2
  <2>2. /\ b \in Seq(S) /\ Len(b) = Len(s) - i
        /\ \A k \in 1 .. Len(s) - i : b[k] = s[i + k]
    <3>1. \A k \in i + 1 .. Len(s) : s[k] \in S
      BY <1>1, <1>3
    <3>2. /\ b \in Seq(S)
          /\ Len(b) = IF i + 1 <= Len(s) THEN Len(s) - (i + 1) + 1 ELSE 0
          /\ \A k \in 1 .. Len(s) - (i + 1) + 1 : b[k] = s[i + 1 + k - 1]
      BY <1>1, <1>3, <3>1, SubSeqProperties
    <3> HIDE DEF b
    <3>3. Len(b) = Len(s) - i
      <4>1. Len(b) = IF i + 1 <= Len(s) THEN Len(s) - (i + 1) + 1 ELSE 0
        BY <3>2
      <4>2. Len(s) \in Nat /\ i \in 1 .. Len(s)
        BY <1>1, <1>3
      <4>3. CASE i + 1 <= Len(s)
        BY <4>1, <4>2, <4>3
      <4>4. CASE ~(i + 1 <= Len(s))
        BY <4>1, <4>2, <4>4
      <4> QED BY <4>3, <4>4
    <3>4. ASSUME NEW k \in 1 .. Len(s) - i PROVE b[k] = s[i + k]
      <4>1. k \in 1 .. Len(s) - (i + 1) + 1 /\ i + 1 + k - 1 = i + k
        BY <1>1, <1>3
      <4> QED BY <3>2, <4>1
    <3> QED BY <3>2, <3>3, <3>4
  <2>3. r = a \o b
    BY DEF RemoveAt
  <2> HIDE DEF a, b, r
  <2>4. /\ r \in Seq(S) /\ Len(r) = Len(a) + Len(b)
        /\ \A k \in 1 .. Len(a) + Len(b) :
              r[k] = IF k <= Len(a) THEN a[k] ELSE b[k - Len(a)]
    BY <2>1, <2>2, <2>3, ConcatProperties
  <2>5. Len(a) + Len(b) = Len(s) - 1
    BY <1>1, <1>3, <2>1, <2>2
  <2>6. ASSUME NEW k \in 1 .. Len(s) - 1
        PROVE  r[k] = IF k < i THEN s[k] ELSE s[k + 1]
    <3>1. r[k] = IF k <= i - 1 THEN a[k] ELSE b[k - (i - 1)]
      BY <2>1, <2>4, <2>5
    <3>2. CASE k < i
      BY <1>1, <1>3, <2>1, <3>1, <3>2
    <3>3. CASE ~(k < i)
      <4>1. k - (i - 1) \in 1 .. Len(s) - i
        BY <1>1, <1>3, <3>3
      <4>2. b[k - (i - 1)] = s[i + (k - (i - 1))] /\ i + (k - (i - 1)) = k + 1
        BY <1>1, <1>3, <2>2, <4>1
      <4> QED BY <1>1, <1>3, <3>1, <3>3, <4>2
    <3> QED BY <3>2, <3>3
  <2> QED BY <2>4, <2>5, <2>6
<1> HIDE DEF r
<1>6. \A j, k \in 1 .. Len(s) : s[j] = s[k] => j = k
  BY DEF Lists
<1>7. ASSUME NEW j \in 1 .. Len(r), NEW k \in 1 .. Len(r), r[j] = r[k]
      PROVE  j = k
  BY <1>1, <1>3, <1>5, <1>6, <1>7
<1>8. ASSUME NEW k \in 1 .. Len(r)
      PROVE  r[k] \in S \ {p}
  <2>1. PICK m \in 1 .. Len(s) : m # i /\ r[k] = s[m]
    BY <1>1, <1>3, <1>5
  <2> QED BY <1>1, <1>3, <1>6, <2>1
<1>9. ASSUME NEW x \in S \ {p}
      PROVE  \E k \in 1 .. Len(r) : r[k] = x
  <2>1. PICK m \in 1 .. Len(s) : s[m] = x
    BY DEF Lists
  <2>2. m # i
    BY <1>3, <2>1
  <2>3. CASE m < i
    <3>1. m \in 1 .. Len(r) /\ r[m] = x
      BY <1>1, <1>3, <1>5, <2>1, <2>3
    <3> QED BY <3>1
  <2>4. CASE m > i
    <3>1. m - 1 \in 1 .. Len(r) /\ r[m - 1] = x
      BY <1>1, <1>3, <1>5, <2>1, <2>4
    <3> QED BY <3>1
  <2> QED BY <1>1, <1>3, <2>2, <2>3, <2>4
<1> QED BY <1>4, <1>5, <1>7, <1>8, <1>9, ListsElements

\* list_add and list_add_tail put in an entry that was not there.
LEMMA InsertLists ==
    ASSUME NEW S, NEW s, Lists(s, S), NEW p, p \notin S, NEW head
    PROVE  Lists(list_insert(s, p, head), S \union {p})
<1>1. /\ s \in Seq(S \union {p}) /\ Len(s) \in Nat
      /\ \A k \in 1 .. Len(s) : s[k] \in S
  BY LenProperties, ElementOfSeq, ListsWithin DEF Lists
<1>2. CASE head
  <2> DEFINE r == <<p>> \o s
  <2>1. /\ r \in Seq(S \union {p}) /\ Len(r) = Len(s) + 1
        /\ r[1] = p
        /\ \A k \in 2 .. Len(s) + 1 : r[k] = s[k - 1]
    <3>1. <<p>> \in Seq(S \union {p}) /\ Len(<<p>>) = 1 /\ <<p>>[1] = p
      OBVIOUS
    <3>2. /\ r \in Seq(S \union {p}) /\ Len(r) = 1 + Len(s)
          /\ \A k \in 1 .. 1 + Len(s) : r[k] = IF k <= 1 THEN <<p>>[k] ELSE s[k - 1]
      BY <1>1, <3>1, ConcatProperties
    <3> QED BY <1>1, <3>1, <3>2
  <2>2. list_insert(s, p, head) = r
    BY <1>2 DEF list_insert
  <2> HIDE DEF r
  <2>3. ASSUME NEW x \in S \union {p}
        PROVE  \E k \in 1 .. Len(r) : r[k] = x
    <3>1. CASE x = p
      <4>1. 1 \in 1 .. Len(r)
        BY <1>1, <2>1
      <4> QED BY <2>1, <3>1, <4>1
    <3>2. CASE x # p
      <4>1. PICK m \in 1 .. Len(s) : s[m] = x
        BY <3>2 DEF Lists
      <4>2. m + 1 \in 1 .. Len(r) /\ r[m + 1] = x
        BY <1>1, <2>1, <4>1
      <4> QED BY <4>2
    <3> QED BY <3>1, <3>2
  <2>4. ASSUME NEW j \in 1 .. Len(r), NEW k \in 1 .. Len(r), r[j] = r[k]
        PROVE  j = k
    <3>1. \A m \in 1 .. Len(s) : s[m] # p
      BY <1>1
    <3>2. \A m, n \in 1 .. Len(s) : s[m] = s[n] => m = n
      BY DEF Lists
    <3>3. ASSUME NEW m \in 1 .. Len(r), m # 1
          PROVE  m - 1 \in 1 .. Len(s) /\ r[m] = s[m - 1]
      BY <1>1, <2>1, <3>3
    <3>4. ASSUME NEW m \in 1 .. Len(r), r[m] = p
          PROVE  m = 1
      BY <3>1, <3>3, <3>4
    <3>5. CASE j = 1 \/ k = 1
      BY <2>1, <2>4, <3>4, <3>5
    <3>6. CASE j # 1 /\ k # 1
      <4>1. j - 1 = k - 1
        BY <2>4, <3>2, <3>3, <3>6
      <4> QED BY <1>1, <2>1, <4>1
    <3> QED BY <3>5, <3>6
  <2>5. \A k \in 1 .. Len(r) : r[k] \in S \union {p}
    BY <1>1, <2>1
  <2> QED BY <2>1, <2>2, <2>3, <2>4, <2>5, ListsElements
<1>3. CASE ~head
  <2> DEFINE r == Append(s, p)
  <2>1. /\ r \in Seq(S \union {p}) /\ Len(r) = Len(s) + 1
        /\ r[Len(s) + 1] = p
        /\ \A k \in 1 .. Len(s) : r[k] = s[k]
    BY <1>1, AppendProperties
  <2>2. list_insert(s, p, head) = r
    BY <1>3 DEF list_insert
  <2> HIDE DEF r
  <2>3. ASSUME NEW x \in S \union {p}
        PROVE  \E k \in 1 .. Len(r) : r[k] = x
    <3>1. CASE x = p
      <4>1. Len(s) + 1 \in 1 .. Len(r)
        BY <1>1, <2>1
      <4> QED BY <2>1, <3>1, <4>1
    <3>2. CASE x # p
      <4>1. PICK m \in 1 .. Len(s) : s[m] = x
        BY <3>2 DEF Lists
      <4>2. m \in 1 .. Len(r) /\ r[m] = x
        BY <1>1, <2>1, <4>1
      <4> QED BY <4>2
    <3> QED BY <3>1, <3>2
  <2>4. ASSUME NEW j \in 1 .. Len(r), NEW k \in 1 .. Len(r), r[j] = r[k]
        PROVE  j = k
    <3>1. \A m \in 1 .. Len(s) : s[m] # p
      BY <1>1
    <3>2. \A m, n \in 1 .. Len(s) : s[m] = s[n] => m = n
      BY DEF Lists
    <3> QED BY <1>1, <2>1, <2>4, <3>1, <3>2
  <2>5. \A k \in 1 .. Len(r) : r[k] \in S \union {p}
    BY <1>1, <2>1
  <2> QED BY <2>1, <2>2, <2>3, <2>4, <2>5, ListsElements
<1> QED BY <1>2, <1>3

\* A list is empty iff it lists nothing.
LEMMA EmptyLists ==
    ASSUME NEW S, NEW s, Lists(s, S)
    PROVE  s = <<>> <=> S = {}
<1>1. s \in Seq(S) /\ Len(s) \in Nat
  BY LenProperties DEF Lists
<1>2. ASSUME s = <<>> PROVE S = {}
  <2>1. Len(s) = 0
    BY <1>2
  <2> QED BY <2>1 DEF Lists
<1>3. ASSUME s # <<>> PROVE S # {}
  <2>1. 1 \in 1 .. Len(s)
    BY <1>1, <1>3, EmptySeq
  <2> QED BY <2>1 DEF Lists
<1> QED BY <1>2, <1>3

Entries(s, P) == {k \in 1 .. Len(s) : s[k] \in P}

\* The entries in P are as many as the elements of P.
LEMMA ListsCount ==
    ASSUME NEW S, NEW s, Lists(s, S), NEW P, P \subseteq S
    PROVE  IsFiniteSet(P) /\ Cardinality(P) = Cardinality(Entries(s, P))
<1> DEFINE I == {k \in 1 .. Len(s) : s[k] \in P}
           f == [k \in I |-> s[k]]
<1>1. IsFiniteSet(I)
  <2>1. Len(s) \in Nat
    BY LenProperties DEF Lists
  <2>2. IsFiniteSet(1 .. Len(s))
    BY <2>1, FS_Interval
  <2> QED BY <2>2, FS_Subset
<1>2. f \in Bijection(I, P)
  <2>1. \A j, k \in I : f[j] = f[k] => j = k
    BY DEF Lists
  <2>2. \A x \in P : \E k \in I : f[k] = x
    BY DEF Lists
  <2>3. f \in [I -> P]
    OBVIOUS
  <2> HIDE DEF f, I
  <2> QED BY <2>1, <2>2, <2>3 DEF Bijection, Injection, Surjection, IsInjective
<1>3. ExistsBijection(I, P)
  BY <1>2 DEF ExistsBijection
<1> HIDE DEF I, f
<1>4. IsFiniteSet(P) /\ Cardinality(P) = Cardinality(I)
  BY <1>1, <1>2, FS_Bijection DEF ExistsBijection
<1> QED BY <1>4 DEF I, Entries

-----------------------------------------------------------------------------
(* Sums over finite sets: what SumFunctionOnSet computes.                    *)

\* The element a fold over s takes first.
Pick(s) == CHOOSE x \in s : TRUE

\* What a fold makes of s, given g for the smaller sets.
Added(g, f, s) == IF s = {} THEN 0 ELSE f[Pick(s)] + g[s \ {Pick(s)}]

\* g gives the sum of f over every subset of S, as the fold computes it.
Adds(g, f, S) == g = [s \in SUBSET S |-> Added(g, f, s)]

\* The same for the subsets of S with n elements or fewer.
AddsUpTo(g, f, S, n) == \A s \in SUBSET S : Cardinality(s) <= n => g[s] = Added(g, f, s)

\* The element picked is one of the set's; the rest is smaller by one.
LEMMA PickedOne ==
    ASSUME NEW s, IsFiniteSet(s), s # {}
    PROVE  /\ Pick(s) \in s
           /\ IsFiniteSet(s \ {Pick(s)})
           /\ Cardinality(s) \in Nat /\ Cardinality(s \ {Pick(s)}) = Cardinality(s) - 1
<1>1. Pick(s) \in s
  BY DEF Pick
<1> QED BY <1>1, FS_RemoveElement, FS_CardinalityType

\* Folding is defined on the subsets with up to n elements, for every n ...
LEMMA AddsUpToExists ==
    ASSUME NEW f, NEW S, IsFiniteSet(S), NEW n \in Nat
    PROVE  \E g : AddsUpTo(g, f, S, n)
<1> DEFINE Bad == {m \in Nat : ~ \E g : AddsUpTo(g, f, S, m)}
<1> SUFFICES ASSUME n \in Bad PROVE FALSE
  OBVIOUS
<1>1. PICK m \in Bad : \A k \in Bad : m <= k
  BY LeastNat
<1>2. \A s \in SUBSET S : IsFiniteSet(s) /\ Cardinality(s) \in Nat
  BY FS_Subset, FS_CardinalityType
<1>3. \E g : IF m = 0 THEN g = [s \in SUBSET S |-> 0] ELSE AddsUpTo(g, f, S, m - 1)
  <2>1. CASE m = 0
    BY <2>1
  <2>2. CASE m # 0
    <3>1. m - 1 \in Nat /\ m - 1 \notin Bad
      BY <1>1, <2>2
    <3> QED BY <2>2, <3>1
  <2> QED BY <2>1, <2>2
<1>4. PICK g : IF m = 0 THEN g = [s \in SUBSET S |-> 0] ELSE AddsUpTo(g, f, S, m - 1)
  BY <1>3
<1> DEFINE h == [s \in SUBSET S |-> Added(g, f, s)]
<1>5. ASSUME NEW s \in SUBSET S, Cardinality(s) <= m PROVE h[s] = Added(h, f, s)
  <2>1. CASE s = {}
    BY <2>1 DEF Added
  <2>2. CASE s # {}
    <3> DEFINE t == s \ {Pick(s)}
    <3>1. t \in SUBSET S /\ Cardinality(t) = Cardinality(s) - 1 /\ Cardinality(s) \in Nat /\ Cardinality(t) \in Nat
      BY <1>2, <2>2, PickedOne
    <3>2. m # 0 /\ Cardinality(t) <= m - 1
      BY <1>1, <1>5, <3>1
    <3>3. g[t] = Added(g, f, t)
      BY <1>4, <3>1, <3>2 DEF AddsUpTo
    <3>4. h[t] = g[t]
      BY <3>1, <3>3
    <3>5. h[s] = Added(g, f, s)
      OBVIOUS
    <3> HIDE DEF h
    <3> QED BY <2>2, <3>4, <3>5 DEF Added
  <2> QED BY <2>1, <2>2
<1>6. AddsUpTo(h, f, S, m)
  BY <1>5 DEF AddsUpTo
<1> QED BY <1>1, <1>6

\* ... so it is defined on all of them ...
LEMMA AddsExists ==
    ASSUME NEW f, NEW S, IsFiniteSet(S)
    PROVE  \E g : Adds(g, f, S)
<1>1. Cardinality(S) \in Nat
  BY FS_CardinalityType
<1>2. PICK h : AddsUpTo(h, f, S, Cardinality(S))
  BY <1>1, AddsUpToExists
<1> DEFINE g == [s \in SUBSET S |-> h[s]]
<1>3. ASSUME NEW s \in SUBSET S PROVE g[s] = Added(g, f, s)
  <2>1. Cardinality(s) <= Cardinality(S) /\ IsFiniteSet(s)
    BY FS_Subset
  <2>2. h[s] = Added(h, f, s)
    BY <1>2, <2>1 DEF AddsUpTo
  <2>3. CASE s = {}
    BY <2>2, <2>3 DEF Added
  <2>4. CASE s # {}
    <3>1. s \ {Pick(s)} \in SUBSET S
      OBVIOUS
    <3>2. g[s] = h[s] /\ g[s \ {Pick(s)}] = h[s \ {Pick(s)}]
      BY <3>1
    <3> QED BY <2>2, <2>4, <3>2 DEF Added
  <2> QED BY <2>3, <2>4
<1>4. g = [s \in SUBSET S |-> Added(g, f, s)]
  BY <1>3
<1> QED BY <1>4 DEF Adds

\* ... and gives a subset of S and of T the same sum.
LEMMA AddsAgree ==
    ASSUME NEW f, NEW e, NEW S, IsFiniteSet(S), NEW T \in SUBSET S,
           \A x \in T : f[x] = e[x],
           NEW g, Adds(g, f, S), NEW h, Adds(h, e, T)
    PROVE  g[T] = h[T]
<1>1. IsFiniteSet(T) /\ \A s \in SUBSET T : IsFiniteSet(s) /\ Cardinality(s) \in Nat
  BY FS_Subset, FS_CardinalityType
<1> DEFINE Bad == {n \in Nat : \E s \in SUBSET T : Cardinality(s) = n /\ g[s] # h[s]}
<1> SUFFICES ASSUME g[T] # h[T] PROVE FALSE
  OBVIOUS
<1>2. Cardinality(T) \in Bad
  BY <1>1
<1>3. PICK n \in Bad : \A m \in Bad : n <= m
  BY <1>2, LeastNat
<1>4. PICK s \in SUBSET T : Cardinality(s) = n /\ g[s] # h[s]
  BY <1>3
<1>5. g[s] = Added(g, f, s) /\ h[s] = Added(h, e, s)
  BY DEF Adds
<1>6. s # {}
  BY <1>4, <1>5 DEF Added
<1> DEFINE t == s \ {Pick(s)}
<1>7. t \in SUBSET T /\ Cardinality(t) \in Nat /\ Cardinality(t) = n - 1 /\ n \in Nat /\ Pick(s) \in T
  BY <1>1, <1>4, <1>6, PickedOne
<1>8. g[t] = h[t]
  BY <1>3, <1>7
<1> QED BY <1>4, <1>5, <1>6, <1>7, <1>8 DEF Added

\* The sum is that of the fold.
LEMMA SumFolds ==
    ASSUME NEW f, NEW S
    PROVE  SumFunctionOnSet(f, S) = (CHOOSE g : Adds(g, f, S))[S]
BY Zenon DEF SumFunctionOnSet, FoldFunctionOnSet, MapThenFoldSet, Adds, Added, Pick

\* Any fold gives the sum.
LEMMA SumOfAdds ==
    ASSUME NEW f, NEW S, IsFiniteSet(S), NEW g, Adds(g, f, S), NEW T \in SUBSET S
    PROVE  g[T] = SumFunctionOnSet(f, T)
<1>1. IsFiniteSet(T)
  BY FS_Subset
<1>2. PICK e : e = f
  OBVIOUS
<1>3. PICK h : h = CHOOSE k : Adds(k, f, T)
  OBVIOUS
<1>4. Adds(h, e, T)
  BY <1>1, <1>2, <1>3, AddsExists
<1>5. SumFunctionOnSet(f, T) = h[T]
  BY <1>3, SumFolds
<1>6. \A x \in T : f[x] = e[x]
  BY <1>2
<1>7. g[T] = h[T]
  BY <1>4, <1>6, AddsAgree
<1> QED BY <1>5, <1>7

\* The sum depends on the summands alone.
LEMMA SumSame ==
    ASSUME NEW f, NEW e, NEW S, IsFiniteSet(S), \A x \in S : f[x] = e[x]
    PROVE  SumFunctionOnSet(f, S) = SumFunctionOnSet(e, S)
<1>1. PICK g : Adds(g, f, S)
  BY AddsExists
<1>2. PICK h : Adds(h, e, S)
  BY AddsExists
<1>3. g[S] = h[S]
  BY <1>1, <1>2, AddsAgree
<1>4. g[S] = SumFunctionOnSet(f, S) /\ h[S] = SumFunctionOnSet(e, S)
  BY <1>1, <1>2, SumOfAdds
<1> QED BY <1>3, <1>4

\* The sum over nothing.
LEMMA SumEmpty ==
    ASSUME NEW f
    PROVE  SumFunctionOnSet(f, {}) = 0
<1>1. IsFiniteSet({})
  BY FS_EmptySet
<1>2. PICK g : Adds(g, f, {})
  BY <1>1, AddsExists
<1>3. g[{}] = 0
  BY <1>2 DEF Adds, Added
<1> QED BY <1>1, <1>2, <1>3, SumOfAdds

\* The sum, from its first summand.
LEMMA SumPicked ==
    ASSUME NEW f, NEW S, IsFiniteSet(S), S # {}
    PROVE  SumFunctionOnSet(f, S) = f[Pick(S)] + SumFunctionOnSet(f, S \ {Pick(S)})
<1>1. PICK g : Adds(g, f, S)
  BY AddsExists
<1>2. g[S] = f[Pick(S)] + g[S \ {Pick(S)}]
  BY <1>1 DEF Adds, Added
<1>3. S \in SUBSET S /\ S \ {Pick(S)} \in SUBSET S
  OBVIOUS
<1>4. g[S] = SumFunctionOnSet(f, S)
  BY <1>1, <1>3, SumOfAdds
<1>5. g[S \ {Pick(S)}] = SumFunctionOnSet(f, S \ {Pick(S)})
  BY <1>1, <1>3, SumOfAdds
<1> QED BY <1>2, <1>4, <1>5

\* A sum of integers is an integer.
LEMMA SumInt ==
    ASSUME NEW f, NEW S, IsFiniteSet(S), \A x \in S : f[x] \in Int
    PROVE  SumFunctionOnSet(f, S) \in Int
<1> DEFINE Bad == {n \in Nat : \E s \in SUBSET S : Cardinality(s) = n /\ SumFunctionOnSet(f, s) \notin Int}
<1>1. \A s \in SUBSET S : IsFiniteSet(s) /\ Cardinality(s) \in Nat
  BY FS_Subset, FS_CardinalityType
<1> SUFFICES ASSUME SumFunctionOnSet(f, S) \notin Int PROVE FALSE
  OBVIOUS
<1>2. Cardinality(S) \in Bad
  BY <1>1
<1>3. PICK n \in Bad : \A m \in Bad : n <= m
  BY <1>2, LeastNat
<1>4. PICK s \in SUBSET S : Cardinality(s) = n /\ SumFunctionOnSet(f, s) \notin Int
  BY <1>3
<1>5. s # {}
  BY <1>4, SumEmpty
<1> DEFINE t == s \ {Pick(s)}
<1>6. t \in SUBSET S /\ Cardinality(t) \in Nat /\ Cardinality(t) = n - 1 /\ n \in Nat /\ Pick(s) \in S
  BY <1>1, <1>4, <1>5, PickedOne
<1>7. SumFunctionOnSet(f, t) \in Int
  BY <1>3, <1>6
<1>8. SumFunctionOnSet(f, s) = f[Pick(s)] + SumFunctionOnSet(f, t)
  BY <1>1, <1>5, SumPicked
<1> QED BY <1>4, <1>6, <1>7, <1>8

\* Any summand may be the first.
LEMMA SumRemove ==
    ASSUME NEW f, NEW S, IsFiniteSet(S), \A x \in S : f[x] \in Int, NEW y \in S
    PROVE  SumFunctionOnSet(f, S) = f[y] + SumFunctionOnSet(f, S \ {y})
<1> DEFINE Fails(s) == \E x \in s : SumFunctionOnSet(f, s) # f[x] + SumFunctionOnSet(f, s \ {x})
           Bad == {n \in Nat : \E s \in SUBSET S : Cardinality(s) = n /\ Fails(s)}
<1>1. \A s \in SUBSET S : IsFiniteSet(s) /\ Cardinality(s) \in Nat
  BY FS_Subset, FS_CardinalityType
<1>2. \A s \in SUBSET S : SumFunctionOnSet(f, s) \in Int
  <2> SUFFICES ASSUME NEW s \in SUBSET S PROVE SumFunctionOnSet(f, s) \in Int
    OBVIOUS
  <2>1. IsFiniteSet(s) /\ \A x \in s : f[x] \in Int
    BY <1>1
  <2> QED BY <2>1, SumInt
<1> SUFFICES ASSUME Fails(S) PROVE FALSE
  OBVIOUS
<1>3. Cardinality(S) \in Bad
  BY <1>1
<1>4. PICK n \in Bad : \A m \in Bad : n <= m
  BY <1>3, LeastNat
<1>5. PICK s \in SUBSET S : Cardinality(s) = n /\ Fails(s)
  BY <1>4
<1>6. PICK x \in s : SumFunctionOnSet(f, s) # f[x] + SumFunctionOnSet(f, s \ {x})
  BY <1>5
<1> DEFINE p == Pick(s)
<1>7. SumFunctionOnSet(f, s) = f[p] + SumFunctionOnSet(f, s \ {p})
  BY <1>1, <1>6, SumPicked
<1>8. p # x /\ p \in s
  BY <1>1, <1>6, <1>7, PickedOne
<1>9. ASSUME NEW z \in s PROVE ~Fails(s \ {z})
  <2>1. s \ {z} \in SUBSET S /\ Cardinality(s \ {z}) = n - 1 /\ n \in Nat
    BY <1>1, <1>5, FS_RemoveElement
  <2>2. Cardinality(s \ {z}) \in Nat
    BY <1>1, <2>1
  <2>3. Cardinality(s \ {z}) \notin Bad
    <3> HIDE DEF Bad
    <3>1. n \in Int /\ ~(n <= Cardinality(s \ {z}))
      BY <2>1, <2>2
    <3> QED BY <1>4, <3>1
  <2> QED BY <2>1, <2>2, <2>3
<1>10. SumFunctionOnSet(f, s \ {p}) = f[x] + SumFunctionOnSet(f, (s \ {p}) \ {x})
  BY <1>8, <1>9
<1>11. SumFunctionOnSet(f, s \ {x}) = f[p] + SumFunctionOnSet(f, (s \ {x}) \ {p})
  BY <1>8, <1>9
<1>12. (s \ {p}) \ {x} = (s \ {x}) \ {p}
  OBVIOUS
<1>13. /\ f[x] \in Int /\ f[p] \in Int
       /\ SumFunctionOnSet(f, (s \ {x}) \ {p}) \in Int
  <2>1. (s \ {x}) \ {p} \in SUBSET S
    OBVIOUS
  <2> QED BY <1>2, <1>8, <2>1
<1>14. PICK rest \in Int : rest = SumFunctionOnSet(f, (s \ {x}) \ {p})
  BY <1>13
<1>15. SumFunctionOnSet(f, s \ {p}) = f[x] + rest
  BY <1>10, <1>12, <1>14
<1>16. SumFunctionOnSet(f, s) = f[x] + (f[p] + rest)
  BY <1>7, <1>13, <1>15
<1> QED BY <1>6, <1>11, <1>14, <1>16

\* One summand changes.
LEMMA SumChanged ==
    ASSUME NEW S, IsFiniteSet(S), NEW y \in S, NEW f, NEW e,
           \A x \in S : f[x] \in Int /\ e[x] \in Int,
           \A x \in S \ {y} : e[x] = f[x]
    PROVE  SumFunctionOnSet(e, S) = SumFunctionOnSet(f, S) - f[y] + e[y]
<1>1. IsFiniteSet(S \ {y})
  BY FS_Subset
<1>2. SumFunctionOnSet(e, S \ {y}) = SumFunctionOnSet(f, S \ {y})
  BY <1>1, SumSame
<1>3. /\ SumFunctionOnSet(f, S) = f[y] + SumFunctionOnSet(f, S \ {y})
      /\ SumFunctionOnSet(e, S) = e[y] + SumFunctionOnSet(e, S \ {y})
  BY SumRemove
<1>4. SumFunctionOnSet(f, S \ {y}) \in Int
  BY <1>1, SumInt
<1> QED BY <1>2, <1>3, <1>4

\* Two summands change.
LEMMA SumChangedTwice ==
    ASSUME NEW S, IsFiniteSet(S), NEW y \in S, NEW z \in S \ {y}, NEW f, NEW e,
           \A x \in S : f[x] \in Int /\ e[x] \in Int,
           \A x \in S \ {y, z} : e[x] = f[x]
    PROVE  SumFunctionOnSet(e, S) = SumFunctionOnSet(f, S) - f[y] - f[z] + e[y] + e[z]
<1>1. IsFiniteSet(S \ {y}) /\ z \in S \ {y} /\ (S \ {y}) \ {z} = S \ {y, z}
  BY FS_Subset
<1>2. SumFunctionOnSet(e, S \ {y}) = SumFunctionOnSet(f, S \ {y}) - f[z] + e[z]
  <2> DEFINE R == S \ {y}
  <2>1. IsFiniteSet(R) /\ z \in R /\ (\A x \in R : f[x] \in Int /\ e[x] \in Int) /\ \A x \in R \ {z} : e[x] = f[x]
    BY <1>1
  <2> HIDE DEF R
  <2>2. SumFunctionOnSet(e, R) = SumFunctionOnSet(f, R) - f[z] + e[z]
    BY <2>1, SumChanged
  <2> QED BY <2>2 DEF R
<1>3. /\ SumFunctionOnSet(f, S) = f[y] + SumFunctionOnSet(f, S \ {y})
      /\ SumFunctionOnSet(e, S) = e[y] + SumFunctionOnSet(e, S \ {y})
  BY SumRemove
<1>4. SumFunctionOnSet(f, S \ {y}) \in Int
  BY <1>1, SumInt
<1> QED BY <1>2, <1>3, <1>4

\* Two sets that share nothing.
LEMMA SumDisjoint ==
    ASSUME NEW S, IsFiniteSet(S), NEW T \in SUBSET S, NEW f, \A x \in S : f[x] \in Int
    PROVE  SumFunctionOnSet(f, S) = SumFunctionOnSet(f, T) + SumFunctionOnSet(f, S \ T)
<1> DEFINE Fails(t) == SumFunctionOnSet(f, S) # SumFunctionOnSet(f, t) + SumFunctionOnSet(f, S \ t)
           Bad == {n \in Nat : \E t \in SUBSET S : Cardinality(t) = n /\ Fails(t)}
<1>1. \A s \in SUBSET S : IsFiniteSet(s) /\ Cardinality(s) \in Nat
  BY FS_Subset, FS_CardinalityType
<1>2. \A s \in SUBSET S : SumFunctionOnSet(f, s) \in Int
  <2> SUFFICES ASSUME NEW s \in SUBSET S PROVE SumFunctionOnSet(f, s) \in Int
    OBVIOUS
  <2>1. IsFiniteSet(s) /\ \A x \in s : f[x] \in Int
    BY <1>1
  <2> QED BY <2>1, SumInt
<1> SUFFICES ASSUME Fails(T) PROVE FALSE
  OBVIOUS
<1>3. Cardinality(T) \in Bad
  BY <1>1
<1>4. PICK n \in Bad : \A m \in Bad : n <= m
  BY <1>3, LeastNat
<1>5. PICK t \in SUBSET S : Cardinality(t) = n /\ Fails(t)
  BY <1>4
<1>6. t # {}
  <2>1. S \ {} = S
    OBVIOUS
  <2>2. SumFunctionOnSet(f, S) \in Int
    BY <1>2
  <2>3. SumFunctionOnSet(f, {}) = 0
    BY SumEmpty
  <2>4. ~Fails({})
    BY <2>1, <2>2, <2>3
  <2> QED BY <1>5, <2>4
<1>7. PICK x : x \in t
  BY <1>6
<1> DEFINE u == t \ {x}
<1>8. u \in SUBSET S /\ Cardinality(u) = n - 1 /\ n \in Nat /\ Cardinality(u) \in Nat
  BY <1>1, <1>5, <1>7, FS_RemoveElement
<1>9. ~Fails(u)
  <2>1. Cardinality(u) \notin Bad
    <3> HIDE DEF Bad, u
    <3>1. ~(n <= Cardinality(u))
      BY <1>8
    <3> QED BY <1>4, <3>1
  <2> QED BY <1>8, <2>1
<1>10. SumFunctionOnSet(f, t) = f[x] + SumFunctionOnSet(f, u)
  BY <1>1, <1>7, SumRemove
<1>11. SumFunctionOnSet(f, S \ u) = f[x] + SumFunctionOnSet(f, S \ t)
  <2>1. IsFiniteSet(S \ u) /\ x \in S \ u /\ S \ t = (S \ u) \ {x} /\ \A y \in S \ u : f[y] \in Int
    BY <1>1, <1>7
  <2> QED BY <2>1, SumRemove
<1>12. SumFunctionOnSet(f, u) \in Int /\ SumFunctionOnSet(f, S \ t) \in Int /\ f[x] \in Int
  <2>1. S \ t \in SUBSET S
    OBVIOUS
  <2> QED BY <1>2, <1>7, <1>8, <2>1
<1> HIDE DEF u
<1> QED BY <1>5, <1>9, <1>10, <1>11, <1>12

\* Summands that are not negative: neither is the sum.
LEMMA SumNat ==
    ASSUME NEW S, IsFiniteSet(S), NEW f, \A x \in S : f[x] \in Nat
    PROVE  SumFunctionOnSet(f, S) \in Nat
<1> DEFINE Bad == {n \in Nat : \E s \in SUBSET S : Cardinality(s) = n /\ SumFunctionOnSet(f, s) \notin Nat}
<1>1. \A s \in SUBSET S : IsFiniteSet(s) /\ Cardinality(s) \in Nat
  BY FS_Subset, FS_CardinalityType
<1> SUFFICES ASSUME SumFunctionOnSet(f, S) \notin Nat PROVE FALSE
  OBVIOUS
<1>2. Cardinality(S) \in Bad
  BY <1>1
<1>3. PICK n \in Bad : \A m \in Bad : n <= m
  BY <1>2, LeastNat
<1>4. PICK s \in SUBSET S : Cardinality(s) = n /\ SumFunctionOnSet(f, s) \notin Nat
  BY <1>3
<1>5. s # {}
  <2>1. SumFunctionOnSet(f, {}) = 0
    BY SumEmpty
  <2>2. SumFunctionOnSet(f, s) # 0
    BY <1>4
  <2> QED BY <2>1, <2>2
<1> DEFINE t == s \ {Pick(s)}
<1>6. t \in SUBSET S /\ Cardinality(t) \in Nat /\ Cardinality(t) = n - 1 /\ n \in Nat /\ Pick(s) \in S
  BY <1>1, <1>4, <1>5, PickedOne
<1>7. SumFunctionOnSet(f, t) \in Nat
  BY <1>3, <1>6
<1>8. SumFunctionOnSet(f, s) = f[Pick(s)] + SumFunctionOnSet(f, t)
  BY <1>1, <1>5, SumPicked
<1> QED BY <1>4, <1>6, <1>7, <1>8

\* The same number from each.
LEMMA SumConstant ==
    ASSUME NEW S, IsFiniteSet(S), NEW f, NEW k \in Int, \A x \in S : f[x] = k
    PROVE  SumFunctionOnSet(f, S) = k * Cardinality(S)
<1> DEFINE Fails(s) == SumFunctionOnSet(f, s) # k * Cardinality(s)
           Bad == {n \in Nat : \E s \in SUBSET S : Cardinality(s) = n /\ Fails(s)}
<1>1. \A s \in SUBSET S : IsFiniteSet(s) /\ Cardinality(s) \in Nat
  BY FS_Subset, FS_CardinalityType
<1> SUFFICES ASSUME Fails(S) PROVE FALSE
  OBVIOUS
<1>2. Cardinality(S) \in Bad
  BY <1>1
<1>3. PICK n \in Bad : \A m \in Bad : n <= m
  BY <1>2, LeastNat
<1>4. PICK s \in SUBSET S : Cardinality(s) = n /\ Fails(s)
  BY <1>3
<1>5. s # {}
  <2>1. k * 0 = 0
    OBVIOUS
  <2> QED BY <1>4, <2>1, SumEmpty, FS_EmptySet
<1> DEFINE t == s \ {Pick(s)}
<1>6. t \in SUBSET S /\ Cardinality(t) \in Nat /\ Cardinality(t) = n - 1 /\ n \in Nat /\ Pick(s) \in S
  BY <1>1, <1>4, <1>5, PickedOne
<1>7. SumFunctionOnSet(f, t) = k * (n - 1)
  BY <1>3, <1>6
<1>8. SumFunctionOnSet(f, s) = f[Pick(s)] + SumFunctionOnSet(f, t)
  BY <1>1, <1>5, SumPicked
<1>9. k + k * (n - 1) = k * n
  BY <1>6
<1> QED BY <1>4, <1>6, <1>7, <1>8, <1>9

-----------------------------------------------------------------------------
(* Loops: functions defined step by step.                                    *)

\* A loop from a, with G[i] for its i-th round, can be run in A.
Runs(A, a, m, n, G) ==
    \E h \in [m .. n -> A] : h[m] = a /\ \A i \in m + 1 .. n : h[i] = G[i][h[i - 1]]

\* It can if each round stays in A.
LEMMA LoopExists ==
    ASSUME NEW A, NEW a \in A, NEW m \in Nat, NEW n \in Nat, m <= n,
           NEW G, \A i \in m + 1 .. n : \A x \in A : G[i][x] \in A
    PROVE  Runs(A, a, m, n, G)
<1> DEFINE Ran(h, k) == h[m] = a /\ \A i \in m + 1 .. k : h[i] = G[i][h[i - 1]]
           I == {k \in m .. n : \E h \in [m .. n -> A] : Ran(h, k)}
<1>1. m \in I
  <2>1. [i \in m .. n |-> a] \in [m .. n -> A] /\ Ran([i \in m .. n |-> a], m)
    OBVIOUS
  <2> QED BY <2>1
<1>2. ASSUME NEW k \in m + 1 .. n, k - 1 \in I PROVE k \in I
  <2>1. PICK h \in [m .. n -> A] : Ran(h, k - 1)
    BY <1>2
  <2> DEFINE g == [h EXCEPT ![k] = G[k][h[k - 1]]]
  <2>2. G[k][h[k - 1]] \in A
    <3>1. h[k - 1] \in A
      OBVIOUS
    <3> QED BY <3>1
  <2>3. g \in [m .. n -> A] /\ \A i \in m .. n : g[i] = IF i = k THEN G[k][h[k - 1]] ELSE h[i]
    BY <2>2
  <2> HIDE DEF g
  <2>4. g[m] = a
    BY <2>1, <2>3
  <2>5. ASSUME NEW i \in m + 1 .. k PROVE g[i] = G[i][g[i - 1]]
    <3>1. g[i - 1] = h[i - 1] /\ i - 1 \in m .. n
      BY <2>3
    <3>2. CASE i = k
      BY <2>3, <3>1, <3>2
    <3>3. CASE i # k
      <4>1. g[i] = h[i] /\ i \in m + 1 .. k - 1
        BY <2>3, <3>3
      <4> QED BY <2>1, <3>1, <4>1
    <3> QED BY <3>2, <3>3
  <2> QED BY <2>3, <2>4, <2>5
<1>3. n \in I
  <2>1. \A k \in m + 1 .. n : k - 1 \in I => k \in I
    BY <1>2
  <2>2. n \in m .. n
    OBVIOUS
  <2> HIDE DEF I
  <2>3. \A i \in m .. n : i \in I
    BY <1>1, <2>1, Upwards
  <2> QED BY <2>2, <2>3
<1> QED BY <1>3 DEF Runs
=============================================================================
