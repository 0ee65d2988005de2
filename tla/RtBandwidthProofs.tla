-------------------------- MODULE RtBandwidthProofs --------------------------
(* Proofs about RtBandwidth.                                                 *)
EXTENDS RtBandwidth, DataProofs, FunctionTheorems

-----------------------------------------------------------------------------
(* The inductive invariant: what holds as long as no CPU is plugged.         *)

\* What a rebuild of the domains has left to do.
Attachments == [do : {"attach"}, cpu : CPU, rd : SUBSET CPU]

Types ==
    /\ runtime \in [CPU -> Nat \cup {Inf}] /\ time \in [CPU -> Nat]
    /\ rt_b \in Nat \cup {Inf}
    /\ timer \in {[in |-> "off"], [in |-> "on"]}
                 \cup [in : {"visit", "update"}, next : Nat, overrun : Nat, idle : BOOLEAN, throttled : BOOLEAN]
    /\ sysctl \in [in : {"no", "written", "set"}, value : Nat \cup {Inf}]
    /\ rd \in [CPU -> SUBSET CPU] /\ doms \in {{CPU}} \cup Partitions
    /\ plug \in Seq(Attachments)

\* Every CPU is up, and only one administrator is at work.
Settled ==
    /\ online = CPU /\ active = CPU /\ rq_online = CPU
    /\ admin = "sysctl" => plug = <<>>
    /\ admin = "partition" => sysctl.in = "no"

\* What each queue has been given.
given == IF sysctl.in = "set" THEN sysctl.value ELSE rt_b

\* The queues of a root domain have f together, n each.
Split(f, n) == \A c \in CPU : SumFunctionOnSet(f, span(c)) = n * Cardinality(span(c))

\* The queues are all without a limit, or those of each root domain share what
\* they were given.
Shared ==
    \/ given = Inf /\ \A c \in CPU : runtime[c] = Inf
    \/ given \in Nat /\ runtime \in [CPU -> Nat] /\ Split(runtime, given)

IInv == admin \in Admins /\ (admin # "hotplug" => Types /\ Settled /\ Shared)

-----------------------------------------------------------------------------
(* Masks.  The CPUs are numbered from 0.                                     *)

LEMMA CpuNumbers ==
    /\ IsFiniteSet(CPU) /\ Cardinality(CPU) \in Nat
    /\ \A c \in CPU : c \in Nat /\ c + 1 \in 1 .. Cardinality(CPU)
    /\ \A i \in 1 .. Cardinality(CPU) : i - 1 \in CPU
BY CpuAssumption, FS_CardinalityType

LEMMA SpanFacts ==
    ASSUME NEW c \in CPU
    PROVE  /\ c \in span(c) /\ span(c) \subseteq CPU /\ IsFiniteSet(span(c))
           /\ Cardinality(span(c)) \in Nat \ {0}
           /\ IsFiniteSet(span(c) \ {c}) /\ Cardinality(span(c)) = Cardinality(span(c) \ {c}) + 1
           /\ Cardinality(span(c) \ {c}) \in Nat
<1>1. c \in span(c) /\ span(c) \subseteq CPU
  BY DEF span
<1>2. IsFiniteSet(span(c)) /\ IsFiniteSet(span(c) \ {c})
  BY <1>1, CpuNumbers, FS_Subset
<1>3. Cardinality(span(c)) \in Nat /\ Cardinality(span(c) \ {c}) \in Nat
  BY <1>2, FS_CardinalityType
<1>4. Cardinality(span(c) \ {c}) = Cardinality(span(c)) - 1
  BY <1>1, <1>2, FS_RemoveElement
<1> QED BY <1>1, <1>2, <1>3, <1>4

-----------------------------------------------------------------------------
(* Borrowing. *)

\* do_balance_runtime stays where each round stays.
LEMMA BalanceWalks ==
    ASSUME NEW c \in CPU, NEW A, runtime \in A,
           \A r \in A : \A d \in span(c) \ {c} : lend(c, r, d) \in A
    PROVE  do_balance_runtime(c) \in A
<1> DEFINE N == Cardinality(CPU)
           Round(r, d) == IF d \in span(c) \ {c} THEN lend(c, r, d) ELSE r
           Eq(h) == h = [i \in 0 .. N |-> IF i = 0 THEN runtime
                                          ELSE IF i - 1 \in span(c) \ {c} THEN lend(c, h[i - 1], i - 1) ELSE h[i - 1]]
           G == [i \in 1 .. N |-> [r \in A |-> Round(r, i - 1)]]
<1>1. N \in Nat
  BY CpuNumbers
<1>2. G \in [1 .. N -> [A -> A]]
  OBVIOUS
<1>3. \E h : Eq(h)
  <2> HIDE DEF G, N
  <2> PICK m \in Nat : m = 0
    OBVIOUS
  <2>1. (\A i \in m + 1 .. N : \A x \in A : G[i][x] \in A) /\ m <= N
    <3>1. ASSUME NEW i \in 1 .. N, NEW x \in A PROVE G[i][x] \in A
      BY <1>2
    <3> QED BY <1>1, <3>1
  <2>2. PICK h \in [m .. N -> A] : h[m] = runtime /\ \A i \in m + 1 .. N : h[i] = G[i][h[i - 1]]
    <3>1. Runs(A, runtime, m, N, G)
      BY <1>1, <2>1, LoopExists
    <3> QED BY <3>1 DEF Runs
  <2>3. ASSUME NEW i \in 1 .. N PROVE h[i] = Round(h[i - 1], i - 1)
    <3>1. h[i - 1] \in A /\ i \in m + 1 .. N
      BY <1>1
    <3> QED BY <2>2, <3>1 DEF G
  <2>4. Eq(h)
    BY <1>1, <2>2, <2>3
  <2> QED BY <2>4
<1>4. PICK w : w = CHOOSE v : Eq(v)
  OBVIOUS
<1>5. Eq(w)
  BY <1>3, <1>4
<1>6. do_balance_runtime(c) = w[N]
  BY <1>4, Zenon DEF do_balance_runtime
<1>7. w[0] = runtime /\ \A i \in 1 .. N : w[i] = Round(w[i - 1], i - 1)
  BY <1>1, <1>5
<1> HIDE DEF Eq, N
<1> DEFINE I == {i \in Nat : w[i] \in A}
<1>8. 0 \in I /\ \A i \in 0 + 1 .. N : i - 1 \in I => i \in I
  BY <1>1, <1>7
<1>9. N \in I
  <2>1. N \in 0 .. N
    BY <1>1
  <2> HIDE DEF I
  <2> QED BY <1>1, <1>8, <2>1, Upwards
<1> QED BY <1>6, <1>9

\* What c takes of d's spare time is moved, and is no more than d has.
LEMMA LendMoves ==
    ASSUME Types, NEW c \in CPU, NEW d \in span(c) \ {c}, NEW r \in [CPU -> Nat]
    PROVE  /\ lend(c, r, d) \in [CPU -> Nat]
           /\ \E diff \in Int : /\ lend(c, r, d)[c] = r[c] + diff /\ lend(c, r, d)[d] = r[d] - diff
                                /\ \A b \in CPU \ {c, d} : lend(c, r, d)[b] = r[b]
<1> DEFINE spare == r[d] - time[d]
           part  == spare \div Cardinality(span(c))
           diff  == IF r[c] + part > Period THEN Period - r[c] ELSE part
<1>1. d \in CPU /\ d # c /\ Cardinality(span(c)) \in Nat \ {0}
  BY SpanFacts DEF span
<1>2. r[c] \in Nat /\ r[d] \in Nat /\ time[d] \in Nat /\ Period \in Nat
  BY <1>1, BandwidthAssumption DEF Types
<1>3. CASE r[d] = Inf \/ spare <= 0 \/ r[c] = Period
  <2>1. lend(c, r, d) = r
    BY <1>3 DEF lend
  <2>2. r[c] = r[c] + 0 /\ r[d] = r[d] - 0
    BY <1>2
  <2> QED BY <2>1, <2>2
<1>4. CASE ~(r[d] = Inf \/ spare <= 0 \/ r[c] = Period)
  <2>1. lend(c, r, d) = [r EXCEPT ![d] = @ - diff, ![c] = @ + diff]
    BY <1>4 DEF lend
  <2>2. spare \in Nat \ {0}
    BY <1>2, <1>4
  <2>3. part \in Nat /\ part <= spare
    <3>1. PICK n \in Nat \ {0} : n = Cardinality(span(c))
      BY <1>1
    <3>2. PICK s \in Nat : s = spare
      BY <2>2
    <3>3. s \div n \in Nat /\ s \div n <= s
      OBVIOUS
    <3> QED BY <3>1, <3>2, <3>3
  <2> HIDE DEF part
  <2>4. diff \in Int /\ r[c] + diff \in Nat /\ r[d] - diff \in Nat
    BY <1>2, <2>2, <2>3
  <2> HIDE DEF diff
  <2> QED BY <1>1, <2>1, <2>4
<1> QED BY <1>3, <1>4

\* Moving runtime within a root domain leaves every domain what it has.
LEMMA MovesWithin ==
    ASSUME NEW c \in CPU, NEW d \in span(c) \ {c}, NEW r \in [CPU -> Int], NEW s \in [CPU -> Int], NEW diff \in Int,
           s[c] = r[c] + diff, s[d] = r[d] - diff, \A b \in CPU \ {c, d} : s[b] = r[b],
           NEW e \in CPU
    PROVE  SumFunctionOnSet(s, span(e)) = SumFunctionOnSet(r, span(e))
<1>1. IsFiniteSet(span(e)) /\ span(e) \subseteq CPU /\ d \in CPU /\ d # c
  BY SpanFacts DEF span
<1>2. \A x \in span(e) : r[x] \in Int /\ s[x] \in Int
  BY <1>1
<1>3. CASE c \in span(e)
  <2>1. d \in span(e) \ {c}
    BY <1>1, <1>3 DEF span
  <2>2. \A x \in span(e) \ {c, d} : s[x] = r[x]
    BY <1>1
  <2>3. SumFunctionOnSet(s, span(e)) = SumFunctionOnSet(r, span(e)) - r[c] - r[d] + s[c] + s[d]
    BY <1>1, <1>2, <1>3, <2>1, <2>2, SumChangedTwice
  <2>4. SumFunctionOnSet(r, span(e)) \in Int
    BY <1>1, <1>2, SumInt
  <2>5. r[c] \in Int /\ r[d] \in Int
    BY <1>1
  <2> QED BY <2>3, <2>4, <2>5
<1>4. CASE c \notin span(e)
  <2>1. d \notin span(e)
    BY <1>1, <1>4 DEF span
  <2>2. \A x \in span(e) : s[x] = r[x]
    BY <1>1, <1>4, <2>1
  <2> QED BY <1>1, <2>2, SumSame
<1> QED BY <1>3, <1>4

\* Borrowing leaves the shares alone.
LEMMA BalanceKeeps ==
    ASSUME Types, Shared, NEW c \in CPU
    PROVE  /\ do_balance_runtime(c) \in [CPU -> Nat \cup {Inf}]
           /\ \/ given = Inf /\ \A d \in CPU : do_balance_runtime(c)[d] = Inf
              \/ given \in Nat /\ do_balance_runtime(c) \in [CPU -> Nat] /\ Split(do_balance_runtime(c), given)
<1>1. CASE given = Inf /\ \A d \in CPU : runtime[d] = Inf
  <2>1. \A r \in {runtime} : \A d \in span(c) \ {c} : lend(c, r, d) \in {runtime}
    BY <1>1 DEF lend, span
  <2>2. do_balance_runtime(c) \in {runtime}
    BY <2>1, BalanceWalks
  <2> QED BY <1>1, <2>2 DEF Types
<1>2. CASE given \in Nat /\ runtime \in [CPU -> Nat] /\ Split(runtime, given)
  <2> DEFINE A == {r \in [CPU -> Nat] : Split(r, given)}
  <2>1. ASSUME NEW r \in A, NEW d \in span(c) \ {c} PROVE lend(c, r, d) \in A
    <3>1. r \in [CPU -> Nat]
      OBVIOUS
    <3>2. PICK s : s = lend(c, r, d)
      OBVIOUS
    <3>3. /\ s \in [CPU -> Nat]
          /\ \E diff \in Int : s[c] = r[c] + diff /\ s[d] = r[d] - diff /\ \A b \in CPU \ {c, d} : s[b] = r[b]
      BY <3>1, <3>2, LendMoves
    <3>4. r \in [CPU -> Int] /\ s \in [CPU -> Int]
      BY <3>1, <3>3
    <3>5. \A e \in CPU : SumFunctionOnSet(s, span(e)) = SumFunctionOnSet(r, span(e))
      BY <3>3, <3>4, MovesWithin
    <3> QED BY <3>2, <3>3, <3>5 DEF Split
  <2>2. runtime \in A
    BY <1>2
  <2>3. do_balance_runtime(c) \in A
    <3> HIDE DEF A
    <3> QED BY <2>1, <2>2, BalanceWalks
  <2> QED BY <1>2, <2>3
<1> QED BY <1>1, <1>2 DEF Shared

-----------------------------------------------------------------------------
(* Taking back. *)

\* What __disable_runtime is left with after its walk, and what it wants before.
Wanting(c) == [want |-> rt_b - runtime[c], runtime |-> runtime]

\* Where the walk of __disable_runtime is, and that it is there.
Taking == [want : Int, runtime : [CPU -> Nat]]

\* A round takes what it finds, but no more than what is still wanted.
LEMMA ReclaimMoves ==
    ASSUME NEW st \in Taking, NEW d \in CPU
    PROVE  /\ reclaim(st, d) \in Taking
           /\ \A b \in CPU \ {d} : reclaim(st, d).runtime[b] = st.runtime[b]
           /\ reclaim(st, d).want - reclaim(st, d).runtime[d] = st.want - st.runtime[d]
           /\ st.want = 0 => reclaim(st, d).want = 0
           /\ st.want > 0 => /\ reclaim(st, d).want >= 0
                             /\ reclaim(st, d).want > 0 => reclaim(st, d).runtime[d] = 0
           /\ st.want < 0 => reclaim(st, d).want = 0
           /\ st.runtime[d] = 0 /\ st.want >= 0 => reclaim(st, d).runtime[d] = 0
<1> DEFINE diff == IF st.want > 0 /\ st.runtime[d] < st.want THEN st.runtime[d] ELSE st.want
<1>1. st.want \in Int /\ st.runtime \in [CPU -> Nat] /\ st.runtime[d] \in Nat /\ st.runtime[d] # Inf
  BY DEF Taking, Inf
<1>2. CASE st.want = 0
  <2>1. reclaim(st, d) = st
    BY <1>2 DEF reclaim
  <2> QED BY <1>1, <1>2, <2>1
<1>3. CASE st.want # 0
  <2>1. reclaim(st, d) = [want |-> st.want - diff, runtime |-> [st.runtime EXCEPT ![d] = @ - diff]]
    BY <1>1, <1>3 DEF reclaim
  <2>2. /\ diff \in Int /\ st.runtime[d] - diff \in Nat
        /\ st.want > 0 => st.want - diff >= 0 /\ (st.want - diff > 0 => st.runtime[d] - diff = 0)
        /\ st.want < 0 => st.want - diff = 0
        /\ st.runtime[d] = 0 /\ st.want >= 0 => st.runtime[d] - diff = 0
    BY <1>1
  <2> HIDE DEF diff
  <2>3. PICK e : e = [st.runtime EXCEPT ![d] = @ - diff]
    OBVIOUS
  <2>4. e \in [CPU -> Nat] /\ e[d] = st.runtime[d] - diff /\ \A b \in CPU \ {d} : e[b] = st.runtime[b]
    BY <1>1, <2>2, <2>3
  <2>5. PICK u : u = reclaim(st, d)
    OBVIOUS
  <2>6. u = [want |-> st.want - diff, runtime |-> e]
    BY <2>1, <2>3, <2>5
  <2>7. u.want = st.want - diff /\ u.runtime = e /\ u \in Taking
    BY <1>1, <2>2, <2>4, <2>6 DEF Taking
  <2> QED BY <1>1, <1>3, <2>2, <2>4, <2>5, <2>7
<1> QED BY <1>2, <1>3

\* The walk of __disable_runtime, and the rounds it is made of.
LEMMA ReclaimWalks ==
    ASSUME NEW c \in CPU, runtime \in [CPU -> Nat], rt_b \in Nat, runtime[c] # rt_b
    PROVE  \E w : /\ Reclaimed(c) = w[Cardinality(CPU)]
                  /\ w[0] = Wanting(c)
                  /\ \A i \in 1 .. Cardinality(CPU) :
                        w[i] = IF i - 1 \in span(c) \ {c} THEN reclaim(w[i - 1], i - 1) ELSE w[i - 1]
<1> DEFINE N == Cardinality(CPU)
           Round(r, d) == IF d \in span(c) \ {c} THEN reclaim(r, d) ELSE r
           Eq(h) == h = [i \in 0 .. N |-> IF i = 0 THEN [want |-> rt_b - runtime[c], runtime |-> runtime]
                                          ELSE IF i - 1 \in span(c) \ {c} THEN reclaim(h[i - 1], i - 1) ELSE h[i - 1]]
           G == [i \in 1 .. N |-> [r \in Taking |-> Round(r, i - 1)]]
<1>1. N \in Nat
  BY CpuNumbers
<1>2. Wanting(c) \in Taking
  BY DEF Wanting, Taking
<1>3. \E h : Eq(h)
  <2> HIDE DEF N
  <2> PICK m \in Nat : m = 0
    OBVIOUS
  <2>1. ASSUME NEW i \in 1 .. N, NEW x \in Taking PROVE G[i][x] \in Taking /\ G[i][x] = Round(x, i - 1)
    <3>1. Round(x, i - 1) \in Taking
      <4> HIDE DEF Taking
      <4>1. CASE i - 1 \in span(c) \ {c}
        <5>1. i - 1 \in CPU
          BY <4>1 DEF span
        <5> QED BY <4>1, <5>1, ReclaimMoves
      <4>2. CASE i - 1 \notin span(c) \ {c}
        BY <4>2
      <4> QED BY <4>1, <4>2
    <3> QED BY <3>1
  <2>2. (\A i \in m + 1 .. N : \A x \in Taking : G[i][x] \in Taking) /\ m <= N
    BY <1>1, <2>1
  <2>3. Runs(Taking, Wanting(c), m, N, G)
    <3> HIDE DEF G
    <3> QED BY <1>1, <1>2, <2>2, LoopExists
  <2>4. PICK h \in [m .. N -> Taking] : h[m] = Wanting(c) /\ \A i \in m + 1 .. N : h[i] = G[i][h[i - 1]]
    BY <2>3 DEF Runs
  <2>5. ASSUME NEW i \in 1 .. N PROVE h[i] = Round(h[i - 1], i - 1)
    <3>1. h[i - 1] \in Taking /\ i \in m + 1 .. N
      BY <1>1
    <3> QED BY <2>1, <2>4, <3>1
  <2>6. Eq(h)
    BY <1>1, <2>4, <2>5 DEF Wanting
  <2> QED BY <2>6
<1>4. PICK w : w = CHOOSE v : Eq(v)
  OBVIOUS
<1>5. Eq(w)
  BY <1>3, <1>4
<1>6. Reclaimed(c) = w[N]
  <2>1. ~(runtime[c] \in {Inf, rt_b})
    BY DEF Inf
  <2> QED BY <1>4, <2>1, Zenon DEF Reclaimed
<1>7. w[0] = Wanting(c) /\ \A i \in 1 .. N : w[i] = Round(w[i - 1], i - 1)
  BY <1>1, <1>5 DEF Wanting
<1> QED BY <1>6, <1>7

\* How far the walk is before CPU i, given what it wanted first: what is no
\* longer wanted has been taken from the others, and what is still wanted none
\* of those that were visited has.
Took(c, i, st) ==
    LET others == span(c) \ {c}
        want   == rt_b - runtime[c]
    IN  /\ st \in Taking
        /\ \A b \in CPU \ others : st.runtime[b] = runtime[b]
        /\ SumFunctionOnSet(st.runtime, others) = SumFunctionOnSet(runtime, others) - (want - st.want)
        /\ want > 0 => st.want >= 0 /\ (st.want > 0 => \A d \in others : d < i => st.runtime[d] = 0)
        /\ want < 0 => \/ st.want = 0
                       \/ st.want = want /\ \A d \in others : ~(d < i)

\* One round of the walk.
LEMMA TookRound ==
    ASSUME NEW c \in CPU, runtime \in [CPU -> Nat], rt_b \in Nat,
           NEW i \in CPU, NEW st, Took(c, i, st)
    PROVE  Took(c, i + 1, IF i \in span(c) \ {c} THEN reclaim(st, i) ELSE st)
<1> DEFINE others == span(c) \ {c}
           want   == rt_b - runtime[c]
<1>1. /\ st \in Taking /\ st.want \in Int /\ st.runtime \in [CPU -> Nat] /\ want \in Int
      /\ \A b \in CPU \ others : st.runtime[b] = runtime[b]
      /\ SumFunctionOnSet(st.runtime, others) = SumFunctionOnSet(runtime, others) - (want - st.want)
      /\ want > 0 => st.want >= 0 /\ (st.want > 0 => \A d \in others : d < i => st.runtime[d] = 0)
      /\ want < 0 => \/ st.want = 0
                     \/ st.want = want /\ \A d \in others : ~(d < i)
  BY DEF Took, Taking
<1>2. others \subseteq CPU /\ IsFiniteSet(others) /\ i \in Nat /\ \A d \in others : d \in Nat
  BY SpanFacts, CpuNumbers
<1>3. SumFunctionOnSet(runtime, others) \in Int /\ SumFunctionOnSet(st.runtime, others) \in Int
  <2>1. \A d \in others : runtime[d] \in Int /\ st.runtime[d] \in Int
    BY <1>1, <1>2
  <2> QED BY <1>2, <2>1, SumInt
<1>4. CASE i \notin others
  <2>1. \A d \in others : d < i + 1 => d < i
    BY <1>2, <1>4
  <2> HIDE DEF others
  <2>2. Took(c, i + 1, st)
    BY <1>1, <2>1 DEF Took, others
  <2> QED BY <1>4, <2>2 DEF others
<1>5. CASE i \in others
  <2>1. PICK u : u = reclaim(st, i)
    OBVIOUS
  <2>2. /\ u \in Taking
        /\ \A b \in CPU \ {i} : u.runtime[b] = st.runtime[b]
        /\ u.want - u.runtime[i] = st.want - st.runtime[i]
        /\ st.want = 0 => u.want = 0
        /\ st.want > 0 => u.want >= 0 /\ (u.want > 0 => u.runtime[i] = 0)
        /\ st.want < 0 => u.want = 0
    BY <1>1, <2>1, ReclaimMoves
  <2>3. u.want \in Int /\ u.runtime \in [CPU -> Nat]
    BY <2>2 DEF Taking
  <2>4. SumFunctionOnSet(u.runtime, others) = SumFunctionOnSet(st.runtime, others) - st.runtime[i] + u.runtime[i]
    <3>1. \A d \in others : st.runtime[d] \in Int /\ u.runtime[d] \in Int
      BY <1>1, <1>2, <2>3
    <3>2. \A d \in others \ {i} : u.runtime[d] = st.runtime[d]
      BY <1>2, <2>2
    <3>3. PICK f : f = st.runtime
      OBVIOUS
    <3>4. PICK e : e = u.runtime
      OBVIOUS
    <3>5. PICK S : S = others
      OBVIOUS
    <3>6. /\ IsFiniteSet(S) /\ i \in S
          /\ \A d \in S : f[d] \in Int /\ e[d] \in Int
          /\ \A d \in S \ {i} : e[d] = f[d]
      BY <1>2, <1>5, <3>1, <3>2, <3>3, <3>4, <3>5
    <3>7. SumFunctionOnSet(e, S) = SumFunctionOnSet(f, S) - f[i] + e[i]
      BY <3>6, SumChanged
    <3> QED BY <3>3, <3>4, <3>5, <3>7
  <2>5. SumFunctionOnSet(u.runtime, others) = SumFunctionOnSet(runtime, others) - (want - u.want)
    <3>1. st.runtime[i] \in Int /\ u.runtime[i] \in Int
      BY <1>1, <2>3
    <3>2. st.want \in Int /\ want \in Int
      BY <1>1
    <3>3. SumFunctionOnSet(st.runtime, others) = SumFunctionOnSet(runtime, others) - (want - st.want)
      BY <1>1
    <3>4. u.want - u.runtime[i] = st.want - st.runtime[i]
      BY <2>2
    <3> HIDE DEF others, want
    <3> QED BY <1>3, <2>3, <2>4, <3>1, <3>2, <3>3, <3>4
  <2>6. \A b \in CPU \ others : u.runtime[b] = runtime[b]
    BY <1>1, <1>5, <2>2
  <2>7. ASSUME want > 0
        PROVE  u.want >= 0 /\ (u.want > 0 => \A d \in others : d < i + 1 => u.runtime[d] = 0)
    <3>1. st.want >= 0 /\ (u.want > 0 => st.want > 0)
      BY <1>1, <2>2, <2>3, <2>7
    <3>2. u.want >= 0 /\ (u.want > 0 => u.runtime[i] = 0)
      BY <1>1, <2>2, <3>1
    <3>3. ASSUME u.want > 0, NEW d \in others, d < i + 1 PROVE u.runtime[d] = 0
      <4>1. CASE d = i
        BY <3>2, <3>3, <4>1
      <4>2. CASE d # i
        <5>1. d < i /\ d \in CPU \ {i}
          BY <1>2, <3>3, <4>2
        <5>2. st.runtime[d] = 0
          BY <1>1, <2>7, <3>1, <3>3, <5>1
        <5> QED BY <2>2, <5>1, <5>2
      <4> QED BY <4>1, <4>2
    <3> QED BY <3>2, <3>3
  <2>8. want < 0 => u.want = 0
    BY <1>1, <2>2
  <2>9. Took(c, i + 1, u)
    <3> HIDE DEF others, want
    <3>1. /\ u \in Taking
          /\ \A b \in CPU \ others : u.runtime[b] = runtime[b]
          /\ SumFunctionOnSet(u.runtime, others) = SumFunctionOnSet(runtime, others) - (want - u.want)
          /\ want > 0 => u.want >= 0 /\ (u.want > 0 => \A d \in others : d < i + 1 => u.runtime[d] = 0)
          /\ want < 0 => u.want = 0
      BY <2>2, <2>5, <2>6, <2>7, <2>8
    <3> QED BY <3>1 DEF Took, others, want
  <2> QED BY <1>5, <2>1, <2>9
<1> QED BY <1>4, <1>5

\* A queue that leaves a root domain takes back what it lent, or gives back
\* what it borrowed, to the last unit: the others keep their shares.
LEMMA Reclaims ==
    ASSUME NEW c \in CPU, runtime \in [CPU -> Nat], rt_b \in Nat, Split(runtime, rt_b)
    PROVE  /\ Reclaimed(c).want = 0
           /\ Reclaimed(c).runtime \in [CPU -> Nat]
           /\ \A b \in CPU \ (span(c) \ {c}) : Reclaimed(c).runtime[b] = runtime[b]
           /\ SumFunctionOnSet(Reclaimed(c).runtime, span(c) \ {c}) = rt_b * Cardinality(span(c) \ {c})
<1> DEFINE others == span(c) \ {c}
           want   == rt_b - runtime[c]
           n      == Cardinality(others)
<1>1. /\ others \subseteq CPU /\ IsFiniteSet(others) /\ n \in Nat /\ c \in span(c)
      /\ IsFiniteSet(span(c)) /\ Cardinality(span(c)) = n + 1 /\ span(c) \subseteq CPU
  BY SpanFacts
<1>2. SumFunctionOnSet(runtime, span(c)) = rt_b * (n + 1)
  BY <1>1 DEF Split
<1>3. SumFunctionOnSet(runtime, span(c)) = runtime[c] + SumFunctionOnSet(runtime, others)
  <2>1. \A d \in span(c) : runtime[d] \in Int
    BY <1>1
  <2> QED BY <1>1, <2>1, SumRemove
<1>4. SumFunctionOnSet(runtime, others) \in Int /\ runtime[c] \in Nat /\ want \in Int
  <2>1. \A d \in others : runtime[d] \in Int
    BY <1>1
  <2> QED BY <1>1, <2>1, SumInt
<1>5. rt_b * n \in Nat /\ SumFunctionOnSet(runtime, others) = rt_b * n + want
  <2>1. PICK k \in Nat : k = n
    BY <1>1
  <2>2. rt_b * (k + 1) = rt_b * k + rt_b /\ rt_b * k \in Nat
    OBVIOUS
  <2> QED BY <1>2, <1>3, <1>4, <2>1, <2>2
<1>6. CASE runtime[c] = rt_b
  <2>1. Reclaimed(c) = [want |-> 0, runtime |-> runtime]
    BY <1>6 DEF Reclaimed
  <2>2. want = 0
    BY <1>6
  <2> QED BY <1>5, <1>6, <2>1, <2>2
<1>7. CASE runtime[c] # rt_b
  <2> DEFINE N == Cardinality(CPU)
  <2>1. PICK w : /\ Reclaimed(c) = w[N]
                 /\ w[0] = Wanting(c)
                 /\ \A i \in 1 .. N :
                       w[i] = IF i - 1 \in span(c) \ {c} THEN reclaim(w[i - 1], i - 1) ELSE w[i - 1]
    BY <1>7, ReclaimWalks
  <2>2. N \in Nat /\ \A i \in 1 .. N : i - 1 \in CPU
    BY CpuNumbers
  <2>3. Took(c, 0, w[0])
    <3>1. w[0] \in Taking /\ w[0].want = want /\ w[0].runtime = runtime
      BY <2>1 DEF Wanting, Taking
    <3>2. \A d \in others : ~(d < 0)
      BY <1>1, CpuNumbers
    <3>3. SumFunctionOnSet(w[0].runtime, others) = SumFunctionOnSet(runtime, others) - (want - w[0].want)
      BY <1>4, <3>1
    <3> HIDE DEF others, want
    <3>4. /\ want > 0 => w[0].want >= 0 /\ (w[0].want > 0 => \A d \in others : d < 0 => w[0].runtime[d] = 0)
          /\ want < 0 => w[0].want = want /\ \A d \in others : ~(d < 0)
      BY <1>4, <3>1, <3>2
    <3> QED BY <3>1, <3>3, <3>4 DEF Took, others, want
  <2> DEFINE I == {i \in Nat : Took(c, i, w[i])}
  <2>4. ASSUME NEW i \in 1 .. N, i - 1 \in I PROVE i \in I
    <3> PICK j \in CPU : j = i - 1
      BY <2>2
    <3>1. Took(c, j, w[j])
      BY <2>4
    <3>2. w[i] = IF j \in span(c) \ {c} THEN reclaim(w[j], j) ELSE w[j]
      BY <2>1
    <3>3. Took(c, j + 1, w[i])
      BY <3>1, <3>2, TookRound
    <3>4. j + 1 = i /\ i \in Nat
      BY <2>2
    <3> QED BY <3>3, <3>4
  <2>5. N \in I
    <3> PICK m \in Nat : m = 0
      OBVIOUS
    <3>1. m \in I /\ N \in m .. N
      BY <2>2, <2>3
    <3>2. \A i \in m + 1 .. N : i - 1 \in I => i \in I
      BY <2>4
    <3> HIDE DEF I, N
    <3>3. \A i \in m .. N : i \in I
      BY <2>2, <3>1, <3>2, Upwards
    <3> QED BY <3>1, <3>3
  <2>6. PICK st : st = Reclaimed(c)
    OBVIOUS
  <2>7. Took(c, N, st)
    BY <2>1, <2>5, <2>6
  <2>8. /\ st.want \in Int /\ st.runtime \in [CPU -> Nat]
        /\ \A b \in CPU \ others : st.runtime[b] = runtime[b]
        /\ SumFunctionOnSet(st.runtime, others) = SumFunctionOnSet(runtime, others) - (want - st.want)
        /\ want > 0 => st.want >= 0 /\ (st.want > 0 => \A d \in others : d < N => st.runtime[d] = 0)
        /\ want < 0 => \/ st.want = 0
                       \/ st.want = want /\ \A d \in others : ~(d < N)
    BY <2>7 DEF Took, Taking
  <2>9. \A d \in others : d < N
    BY <1>1, CpuNumbers
  <2>10. st.want = 0
    <3>1. CASE want > 0
      <4> SUFFICES ASSUME st.want # 0 PROVE FALSE
        OBVIOUS
      <4>1. st.want > 0 /\ \A d \in others : st.runtime[d] = 0
        BY <2>8, <2>9, <3>1
      <4>2. SumFunctionOnSet(st.runtime, others) = 0
        <5>1. SumFunctionOnSet(st.runtime, others) = 0 * n
          BY <1>1, <4>1, SumConstant
        <5> QED BY <1>1, <5>1
      <4> HIDE DEF want, others, n
      <4> QED BY <1>4, <1>5, <2>8, <4>1, <4>2
    <3>2. CASE want < 0
      <4> SUFFICES ASSUME st.want # 0 PROVE FALSE
        OBVIOUS
      <4>1. others = {}
        BY <2>8, <2>9, <3>2
      <4>2. SumFunctionOnSet(runtime, others) = 0 /\ n = 0
        BY <4>1, SumEmpty, FS_EmptySet
      <4>3. rt_b * 0 = 0
        OBVIOUS
      <4> HIDE DEF want, others, n
      <4> QED BY <1>4, <1>5, <3>2, <4>2, <4>3
    <3>3. want # 0
      BY <1>4, <1>7
    <3> QED BY <1>4, <3>1, <3>2, <3>3
  <2>11. SumFunctionOnSet(st.runtime, others) = rt_b * n
    <3> HIDE DEF want, others, n
    <3> QED BY <1>4, <1>5, <2>8, <2>10
  <2> QED BY <2>6, <2>8, <2>10, <2>11
<1> QED BY <1>6, <1>7

-----------------------------------------------------------------------------
(* Changing the root domain. *)

\* The queues but c's of the root domain x.
Rest(c, x) == {d \in CPU \ {c} : rd[d] = x}

\* One queue more with its share.
LEMMA OneMore ==
    ASSUME NEW S \in SUBSET CPU, NEW c \in S, NEW n \in Nat, NEW r \in [CPU -> Nat], r[c] = n,
           SumFunctionOnSet(r, S \ {c}) = n * Cardinality(S \ {c})
    PROVE  SumFunctionOnSet(r, S) = n * Cardinality(S)
<1>1. IsFiniteSet(S) /\ IsFiniteSet(S \ {c}) /\ \A d \in S : r[d] \in Int
  BY CpuNumbers, FS_Subset
<1>2. SumFunctionOnSet(r, S) = r[c] + SumFunctionOnSet(r, S \ {c})
  BY <1>1, SumRemove
<1>3. PICK k \in Nat : Cardinality(S \ {c}) = k /\ Cardinality(S) = k + 1
  <2>1. Cardinality(S) \in Nat /\ Cardinality(S \ {c}) \in Nat /\ Cardinality(S \ {c}) = Cardinality(S) - 1
    BY <1>1, FS_CardinalityType, FS_RemoveElement
  <2> QED BY <2>1
<1>4. n * (k + 1) = n + n * k
  OBVIOUS
<1> QED BY <1>2, <1>3, <1>4

\* With rt_runtime set again, a queue that joins a root domain brings its share,
\* and the domain it left keeps the others'.
LEMMA AttachSplits ==
    ASSUME runtime \in [CPU -> Nat], rt_b \in Nat, Split(runtime, rt_b), rd \in [CPU -> SUBSET CPU],
           NEW c \in CPU, NEW m \in SUBSET CPU,
           rd' = [rd EXCEPT ![c] = m],
           NEW r \in [CPU -> Nat], r[c] = rt_b, \A b \in CPU \ {c} : r[b] = Reclaimed(c).runtime[b]
    PROVE  \A b \in CPU : SumFunctionOnSet(r, span(b)') = rt_b * Cardinality(span(b)')
<1> PICK k : k = Reclaimed(c).runtime
  OBVIOUS
<1>1. /\ k \in [CPU -> Nat]
      /\ \A b \in CPU \ (span(c) \ {c}) : k[b] = runtime[b]
      /\ SumFunctionOnSet(k, span(c) \ {c}) = rt_b * Cardinality(span(c) \ {c})
  BY Reclaims
<1>2. r \in [CPU -> Nat] /\ r[c] = rt_b /\ \A b \in CPU \ {c} : r[b] = k[b]
  OBVIOUS
<1>3. ASSUME NEW x PROVE IsFiniteSet(Rest(c, x)) /\ SumFunctionOnSet(r, Rest(c, x)) = rt_b * Cardinality(Rest(c, x))
  <2>1. IsFiniteSet(Rest(c, x))
    BY CpuNumbers, FS_Subset DEF Rest
  <2>2. CASE x = rd[c]
    <3>1. Rest(c, x) = span(c) \ {c}
      BY <2>2 DEF span, Rest
    <3>2. \A d \in Rest(c, x) : r[d] = k[d]
      BY <1>2 DEF Rest
    <3>3. SumFunctionOnSet(r, Rest(c, x)) = SumFunctionOnSet(k, Rest(c, x))
      BY <2>1, <3>2, SumSame
    <3> QED BY <1>1, <2>1, <3>1, <3>3
  <2>3. CASE x # rd[c] /\ Rest(c, x) = {}
    <3>1. rt_b * 0 = 0
      OBVIOUS
    <3> QED BY <2>1, <2>3, <3>1, SumEmpty, FS_EmptySet
  <2>4. CASE x # rd[c] /\ Rest(c, x) # {}
    <3>1. PICK d \in Rest(c, x) : TRUE
      BY <2>4
    <3>2. Rest(c, x) = span(d) /\ d \in CPU
      BY <2>4, <3>1 DEF span, Rest
    <3>3. \A e \in Rest(c, x) : r[e] = runtime[e]
      <4>1. \A e \in Rest(c, x) : e \in CPU \ (span(c) \ {c}) /\ e # c
        BY <2>4 DEF span, Rest
      <4> QED BY <1>1, <1>2, <4>1
    <3>4. SumFunctionOnSet(r, Rest(c, x)) = SumFunctionOnSet(runtime, Rest(c, x))
      BY <2>1, <3>3, SumSame
    <3> QED BY <2>1, <3>2, <3>4 DEF Split
  <2> QED BY <2>2, <2>3, <2>4
<1>4. \A d \in CPU : rd'[d] = IF d = c THEN m ELSE rd[d]
  OBVIOUS
<1>5. ASSUME NEW b \in CPU PROVE SumFunctionOnSet(r, span(b)') = rt_b * Cardinality(span(b)')
  <2> PICK x : x = rd'[b]
    OBVIOUS
  <2> PICK S : S = span(b)'
    OBVIOUS
  <2>1. S = {d \in CPU : rd'[d] = x}
    BY DEF span
  <2>2. CASE m # x
    <3>1. S = Rest(c, x)
      BY <1>4, <2>1, <2>2 DEF Rest
    <3> QED BY <1>3, <3>1
  <2>3. CASE m = x
    <3>1. c \in S /\ S \ {c} = Rest(c, x) /\ S \subseteq CPU
      BY <1>4, <2>1, <2>3 DEF Rest
    <3>2. SumFunctionOnSet(r, S \ {c}) = rt_b * Cardinality(S \ {c})
      BY <1>3, <3>1
    <3>3. PICK T \in SUBSET CPU : T = S
      BY <3>1
    <3>4. PICK n \in Nat : n = rt_b
      OBVIOUS
    <3>5. SumFunctionOnSet(r, T) = n * Cardinality(T)
      <4>1. c \in T /\ r[c] = n /\ SumFunctionOnSet(r, T \ {c}) = n * Cardinality(T \ {c})
        BY <1>2, <3>1, <3>2, <3>3, <3>4
      <4> HIDE <3>3, <3>4
      <4> QED BY <4>1, OneMore
    <3> QED BY <3>3, <3>4, <3>5
  <2> QED BY <2>2, <2>3
<1> QED BY <1>5

\* An attachment keeps the shares.
LEMMA AttachKeeps ==
    ASSUME Types, Settled, Shared, given = rt_b, NEW c \in CPU, NEW m \in SUBSET CPU, rq_attach_root(c, m)
    PROVE  /\ runtime' \in [CPU -> Nat \cup {Inf}] /\ time' \in [CPU -> Nat]
           /\ rd' \in [CPU -> SUBSET CPU] /\ rq_online' = CPU /\ active' = CPU
           /\ \/ rt_b = Inf /\ \A d \in CPU : runtime'[d] = Inf
              \/ /\ rt_b \in Nat /\ runtime' \in [CPU -> Nat]
                 /\ \A b \in CPU : SumFunctionOnSet(runtime', span(b)') = rt_b * Cardinality(span(b)')
<1>1. /\ rd' = [rd EXCEPT ![c] = m] /\ active' = active /\ rq_online' = rq_online \cup {c}
      /\ runtime' = [[Reclaimed(c).runtime EXCEPT ![c] = Inf] EXCEPT ![c] = rt_b]
      /\ time' = [time EXCEPT ![c] = 0]
  BY DEF rq_attach_root, Settled
<1>2. /\ rd' \in [CPU -> SUBSET CPU] /\ time' \in [CPU -> Nat] /\ rq_online' = CPU /\ active' = CPU
  BY <1>1 DEF Types, Settled
<1>3. CASE rt_b = Inf /\ \A d \in CPU : runtime[d] = Inf
  <2>1. Reclaimed(c).runtime = runtime
    BY <1>3 DEF Reclaimed
  <2> QED BY <1>1, <1>2, <1>3, <2>1 DEF Types
<1>4. CASE rt_b \in Nat /\ runtime \in [CPU -> Nat] /\ Split(runtime, rt_b)
  <2> PICK k : k = Reclaimed(c).runtime
    OBVIOUS
  <2>1. k \in [CPU -> Nat]
    BY <1>4, Reclaims
  <2>2. runtime' = [k EXCEPT ![c] = rt_b]
    BY <1>1, <2>1
  <2>3. rd \in [CPU -> SUBSET CPU]
    BY DEF Types
  <2>4. PICK r : r = runtime'
    OBVIOUS
  <2>5. r \in [CPU -> Nat] /\ r[c] = rt_b /\ \A b \in CPU \ {c} : r[b] = Reclaimed(c).runtime[b]
    BY <1>4, <2>1, <2>2, <2>4
  <2>6. \A b \in CPU : SumFunctionOnSet(r, span(b)') = rt_b * Cardinality(span(b)')
    BY <1>1, <1>4, <2>3, <2>5, AttachSplits
  <2> QED BY <1>2, <1>4, <2>4, <2>5, <2>6
<1> QED BY <1>3, <1>4 DEF Shared

-----------------------------------------------------------------------------
(* The rebuild of the domains. *)

\* The CPUs of a mask can be listed in order.
Ascends(s, mask) ==
    s \in [1 .. Cardinality(mask) -> mask] /\ \A i, j \in DOMAIN s : i < j => s[i] < s[j]

LEMMA OrderExists ==
    ASSUME NEW mask \in SUBSET CPU
    PROVE  \E s : Ascends(s, mask)
<1>1. \A m \in SUBSET CPU : IsFiniteSet(m) /\ Cardinality(m) \in Nat
  BY CpuNumbers, FS_Subset, FS_CardinalityType
<1> DEFINE Bad == {n \in Nat : \E m \in SUBSET CPU : Cardinality(m) = n /\ ~ \E s : Ascends(s, m)}
<1> SUFFICES ASSUME ~ \E s : Ascends(s, mask) PROVE FALSE
  OBVIOUS
<1>2. Cardinality(mask) \in Bad
  BY <1>1
<1>3. PICK n \in Bad : \A k \in Bad : n <= k
  BY <1>2, LeastNat
<1>4. PICK m \in SUBSET CPU : Cardinality(m) = n /\ ~ \E s : Ascends(s, m)
  BY <1>3
<1>5. m # {}
  <2>1. ASSUME m = {} PROVE Ascends(<<>>, m)
    BY <2>1, FS_EmptySet DEF Ascends
  <2> QED BY <1>4, <2>1
<1>6. PICK last \in m : \A d \in m : d <= last
  <2>1. m \in SUBSET (0 .. Cardinality(CPU))
    BY CpuNumbers
  <2> QED BY <1>5, <2>1, CpuNumbers, GreatestNat
<1>7. /\ n \in Nat \ {0} /\ Cardinality(m \ {last}) = n - 1
      /\ m \ {last} \in SUBSET CPU /\ Cardinality(m \ {last}) \in Nat
  BY <1>1, <1>4, <1>6, FS_RemoveElement
<1>8. PICK s : Ascends(s, m \ {last})
  <2>1. ~(n <= n - 1)
    BY <1>7
  <2>2. n - 1 \notin Bad
    BY <1>3, <1>7, <2>1
  <2> QED BY <1>7, <2>2
<1> DEFINE t == [i \in 1 .. n |-> IF i = n THEN last ELSE s[i]]
<1>9. s \in [1 .. n - 1 -> m \ {last}] /\ \A i, j \in 1 .. n - 1 : i < j => s[i] < s[j]
  BY <1>7, <1>8 DEF Ascends
<1>10. t \in [1 .. n -> m]
  BY <1>6, <1>7, <1>9
<1>11. ASSUME NEW i \in 1 .. n, NEW j \in 1 .. n, i < j PROVE t[i] < t[j]
  <2>1. i \in 1 .. n - 1 /\ t[i] = s[i] /\ s[i] \in m \ {last}
    BY <1>7, <1>9, <1>11
  <2>2. CASE j = n
    <3>1. t[j] = last /\ last \in Nat /\ s[i] \in Nat
      BY <1>6, <2>1, <2>2, CpuNumbers
    <3> QED BY <1>6, <2>1, <3>1
  <2>3. CASE j # n
    BY <1>7, <1>9, <1>11, <2>1, <2>3
  <2> QED BY <2>2, <2>3
<1>12. Ascends(t, m)
  BY <1>4, <1>10, <1>11 DEF Ascends
<1> QED BY <1>4, <1>12

LEMMA InOrderIs ==
    ASSUME NEW mask \in SUBSET CPU
    PROVE  InOrder(mask) \in [1 .. Cardinality(mask) -> mask] /\ Cardinality(mask) \in Nat
<1>1. InOrder(mask) = CHOOSE s \in [1 .. Cardinality(mask) -> mask] : \A i, j \in DOMAIN s : i < j => s[i] < s[j]
  BY DEF InOrder
<1>2. \E s \in [1 .. Cardinality(mask) -> mask] : \A i, j \in DOMAIN s : i < j => s[i] < s[j]
  BY OrderExists DEF Ascends
<1>3. Cardinality(mask) \in Nat
  BY CpuNumbers, FS_Subset, FS_CardinalityType
<1> QED BY <1>1, <1>2, <1>3

\* A finite set can be listed.
LEMMA SetToSeqIs ==
    ASSUME NEW S, IsFiniteSet(S)
    PROVE  SetToSeq(S) \in [1 .. Cardinality(S) -> S] /\ Cardinality(S) \in Nat
<1>1. Cardinality(S) \in Nat
  BY FS_CardinalityType
<1>2. PICK f : f \in Bijection(1 .. Cardinality(S), S)
  BY FS_CardinalityType DEF ExistsBijection
<1>3. f \in [1 .. Cardinality(S) -> S] /\ IsInjective(f)
  BY <1>2, Fun_IsBij DEF Bijection, IsInjective, Injection
<1>4. SetToSeq(S) = CHOOSE g \in [1 .. Cardinality(S) -> S] : IsInjective(g)
  BY DEF SetToSeq
<1> QED BY <1>1, <1>3, <1>4

\* Sequences of elements of T, one after the other.
LEMMA FlattenSeqIs ==
    ASSUME NEW T, NEW n \in Nat, NEW s \in [1 .. n -> Seq(T)]
    PROVE  FlattenSeq(s) \in Seq(T)
<1>1. Len(s) = n /\ s \in Seq(Seq(T))
  BY SeqDef, LenProperties
<1>2. CASE n = 0
  <2>1. FlattenSeq(s) = s
    BY <1>1, <1>2 DEF FlattenSeq
  <2>2. s = <<>>
    BY <1>1, <1>2, EmptySeq
  <2> QED BY <2>1, <2>2, EmptySeq
<1>3. CASE n # 0
  <2> DEFINE Eq(h) == h = [i \in 1 .. Len(s) |-> IF i = 1 THEN s[i] ELSE h[i - 1] \o s[i]]
             G == [i \in 1 .. n |-> [q \in Seq(T) |-> q \o s[i]]]
  <2>1. \E h : Eq(h)
    <3> PICK m \in Nat : m = 1
      OBVIOUS
    <3>1. ASSUME NEW i \in 1 .. n, NEW q \in Seq(T) PROVE G[i][q] \in Seq(T) /\ G[i][q] = q \o s[i]
      <4>1. s[i] \in Seq(T)
        OBVIOUS
      <4>2. q \o s[i] \in Seq(T)
        BY <4>1, ConcatProperties
      <4> QED BY <4>2
    <3>2. (\A i \in m + 1 .. n : \A q \in Seq(T) : G[i][q] \in Seq(T)) /\ m <= n /\ s[m] \in Seq(T)
      BY <1>3, <3>1
    <3>3. Runs(Seq(T), s[m], m, n, G)
      <4> HIDE DEF G
      <4> QED BY <3>2, LoopExists
    <3>4. PICK h \in [m .. n -> Seq(T)] : h[m] = s[m] /\ \A i \in m + 1 .. n : h[i] = G[i][h[i - 1]]
      BY <3>3 DEF Runs
    <3>5. ASSUME NEW i \in m + 1 .. n PROVE h[i] = h[i - 1] \o s[i]
      <4>1. h[i - 1] \in Seq(T) /\ i \in 1 .. n
        OBVIOUS
      <4> HIDE DEF G
      <4> QED BY <3>1, <3>4, <4>1
    <3>6. ASSUME NEW i \in 1 .. n PROVE h[i] = IF i = 1 THEN s[i] ELSE h[i - 1] \o s[i]
      <4>1. CASE i = 1
        BY <3>4, <4>1
      <4>2. CASE i # 1
        <5>1. i \in m + 1 .. n
          BY <4>2
        <5> QED BY <3>5, <4>2, <5>1
      <4> QED BY <4>1, <4>2
    <3>7. h = [i \in 1 .. n |-> IF i = 1 THEN s[i] ELSE h[i - 1] \o s[i]]
      <4> HIDE <3>4, <3>5
      <4>1. h = [i \in 1 .. n |-> h[i]]
        OBVIOUS
      <4> QED BY <3>6, <4>1, Zenon
    <3>8. Eq(h)
      BY <1>1, <3>7, Zenon
    <3> QED BY <3>8
  <2>2. PICK w : w = CHOOSE h : Eq(h)
    OBVIOUS
  <2>3. Eq(w)
    BY <2>1, <2>2
  <2>4. FlattenSeq(s) = w[n]
    BY <1>1, <1>3, <2>2, Zenon DEF FlattenSeq
  <2>5. w[1] = s[1] /\ \A i \in 2 .. n : w[i] = w[i - 1] \o s[i]
    <3>1. w = [i \in 1 .. n |-> IF i = 1 THEN s[i] ELSE w[i - 1] \o s[i]]
      BY <1>1, <2>3, Zenon
    <3> HIDE <2>3
    <3>2. \A i \in 1 .. n : w[i] = IF i = 1 THEN s[i] ELSE w[i - 1] \o s[i]
      BY <3>1, Zenon
    <3>3. 1 \in 1 .. n /\ \A i \in 2 .. n : i \in 1 .. n /\ i # 1
      BY <1>3
    <3> QED BY <3>2, <3>3
  <2> HIDE DEF Eq
  <2> DEFINE I == {i \in Nat : w[i] \in Seq(T)}
  <2>6. 1 \in I
    BY <1>3, <2>5
  <2>7. ASSUME NEW i \in 2 .. n, i - 1 \in I PROVE i \in I
    <3>1. w[i - 1] \in Seq(T) /\ s[i] \in Seq(T) /\ i \in Nat
      BY <2>7
    <3>2. w[i - 1] \o s[i] \in Seq(T)
      BY <3>1, ConcatProperties
    <3> QED BY <2>5, <3>1, <3>2
  <2>8. n \in I
    <3> PICK m \in Nat : m = 1
      OBVIOUS
    <3>1. m \in I /\ n \in m .. n /\ \A i \in m + 1 .. n : i - 1 \in I => i \in I
      BY <1>3, <2>6, <2>7
    <3> HIDE DEF I
    <3>2. \A i \in m .. n : i \in I
      BY <3>1, Upwards
    <3> QED BY <3>1, <3>2
  <2> QED BY <2>4, <2>8
<1> QED BY <1>2, <1>3

\* A list of attachments to one domain.
LEMMA AttachAll ==
    ASSUME NEW mask \in SUBSET CPU, NEW d \in SUBSET CPU
    PROVE  [i \in 1 .. Cardinality(mask) |-> Attach(InOrder(mask)[i], d)] \in Seq(Attachments)
<1>1. PICK n \in Nat : n = Cardinality(mask)
  BY InOrderIs
<1>2. PICK s : s = InOrder(mask)
  OBVIOUS
<1>3. s \in [1 .. n -> mask]
  BY <1>1, <1>2, InOrderIs
<1>4. ASSUME NEW i \in 1 .. n PROVE Attach(s[i], d) \in Attachments
  <2>1. s[i] \in CPU
    BY <1>3
  <2> QED BY <2>1 DEF Attach, Attachments
<1>5. [i \in 1 .. n |-> Attach(s[i], d)] \in [1 .. n -> Attachments]
  BY <1>4
<1>6. [i \in 1 .. n |-> Attach(s[i], d)] \in Seq(Attachments)
  BY <1>5, SeqDef
<1> QED BY <1>1, <1>2, <1>6

\* Rebuilding the domains only attaches CPUs to root domains.
LEMMA RebuildAttaches ==
    ASSUME NEW old \in SUBSET SUBSET CPU, NEW new \in SUBSET SUBSET CPU
    PROVE  partition_sched_domains(old, new) \in Seq(Attachments)
<1> DEFINE gone == UNION (old \ new)
           made == new \ old
           list(k) == LET m == SetToSeq(made)[k] IN [i \in 1 .. Cardinality(m) |-> Attach(InOrder(m)[i], m)]
           lists == [k \in 1 .. Cardinality(made) |-> list(k)]
           first == [i \in 1 .. Cardinality(gone) |-> Attach(InOrder(gone)[i], {})]
<1>1. first \in Seq(Attachments)
  <2>1. gone \in SUBSET CPU /\ {} \in SUBSET CPU
    OBVIOUS
  <2> HIDE DEF gone
  <2> QED BY <2>1, AttachAll
<1>2. IsFiniteSet(made) /\ made \in SUBSET SUBSET CPU
  BY CpuNumbers, FS_SUBSET, FS_Subset
<1> HIDE DEF made
<1>3. SetToSeq(made) \in [1 .. Cardinality(made) -> made] /\ Cardinality(made) \in Nat
  BY <1>2, SetToSeqIs
<1>4. ASSUME NEW k \in 1 .. Cardinality(made) PROVE list(k) \in Seq(Attachments)
  <2>1. SetToSeq(made)[k] \in SUBSET CPU
    BY <1>2, <1>3
  <2> QED BY <2>1, AttachAll
<1>5. lists \in [1 .. Cardinality(made) -> Seq(Attachments)]
  <2> HIDE DEF list
  <2> QED BY <1>4
<1>6. FlattenSeq(lists) \in Seq(Attachments)
  <2> HIDE DEF lists
  <2> QED BY <1>3, <1>5, FlattenSeqIs
<1>7. partition_sched_domains(old, new) = first \o FlattenSeq(lists)
  BY DEF partition_sched_domains, made
<1> HIDE DEF first, lists
<1> QED BY <1>1, <1>6, <1>7, ConcatProperties

-----------------------------------------------------------------------------
(* Every step. *)

\* Steps that leave the shares alone.
LEMMA SharedStays ==
    ASSUME Shared, UNCHANGED <<runtime, rt_b, sysctl, rd>>
    PROVE  Shared'
BY DEF Shared, given, Split, span

\* Steps that lend.
LEMMA SharedBalanced ==
    ASSUME Types, Shared, NEW c \in CPU, runtime' = do_balance_runtime(c), UNCHANGED <<rt_b, sysctl, rd>>
    PROVE  runtime' \in [CPU -> Nat \cup {Inf}] /\ Shared'
<1> PICK r : r = do_balance_runtime(c)
  OBVIOUS
<1>1. /\ r \in [CPU -> Nat \cup {Inf}]
      /\ \/ given = Inf /\ \A d \in CPU : r[d] = Inf
         \/ given \in Nat /\ r \in [CPU -> Nat] /\ Split(r, given)
  BY BalanceKeeps
<1>2. runtime' = r /\ given' = given /\ (Split(runtime, given)' <=> Split(r, given))
  BY DEF given, Split, span
<1> QED BY <1>1, <1>2 DEF Shared

\* What the clock has against a queue stays a number.
LEMMA RefillTypes ==
    ASSUME NEW t \in Nat, NEW r \in Nat \cup {Inf}, NEW overrun \in Nat
    PROVE  refill(t, r, overrun).time \in Nat
<1>1. CASE r = Inf
  BY <1>1 DEF refill
<1>2. CASE r # Inf
  <2> PICK p \in Nat : p = overrun * r
    BY <1>2
  <2>1. refill(t, r, overrun).time = t - (IF p < t THEN p ELSE t)
    BY <1>2 DEF refill
  <2> QED BY <2>1
<1> QED BY <1>1, <1>2

\* Steps of running threads.
LEMMA ThreadSteps ==
    ASSUME Types, Settled, Shared, NEW c \in CPU,
           \/ Enqueue(c) \/ PickNext(c) \/ Dequeue(c) \/ Handler(c)
           \/ \E delta \in Deltas, then \in {"run", "dequeue"} : UpdateCurr(c, delta, then)
    PROVE  Types' /\ Settled' /\ Shared'
<1>1. CASE Enqueue(c)
  <2>1. UNCHANGED <<queue, curr, at, rt_b, sysctl, masks, plug, admin>> /\ (timer' = timer \/ timer' = [in |-> "on"])
    BY <1>1 DEF Enqueue, start_rt_bandwidth
  <2>2. Types'
    BY <2>1 DEF Types, queue, masks
  <2> QED BY <2>1, <2>2, SharedStays DEF Settled, queue, masks
<1>2. CASE PickNext(c) \/ Dequeue(c)
  <2>1. UNCHANGED <<queue, timer, rt_b, sysctl, masks, plug, admin>>
    BY <1>2 DEF PickNext, Dequeue
  <2>2. Types'
    BY <2>1 DEF Types, queue, masks
  <2> QED BY <2>1, <2>2, SharedStays DEF Settled, queue, masks
<1>3. CASE BalanceRuntime(c)
  <2>1. runtime' = do_balance_runtime(c) /\ UNCHANGED <<time, timer, rt_b, sysctl, masks, plug, admin>>
    BY <1>3 DEF BalanceRuntime
  <2>2. runtime' \in [CPU -> Nat \cup {Inf}] /\ Shared'
    BY <2>1, SharedBalanced DEF masks
  <2>3. Types'
    BY <2>1, <2>2 DEF Types, masks
  <2> QED BY <2>1, <2>2, <2>3 DEF Settled, masks
<1>4. CASE RuntimeExceeded(c)
  <2>1. UNCHANGED <<runtime, timer, rt_b, sysctl, masks, plug, admin>> /\ (time' = time \/ time' = [time EXCEPT ![c] = 0])
    BY <1>4 DEF RuntimeExceeded
  <2>2. time' \in [CPU -> Nat]
    <3>1. time \in [CPU -> Nat]
      BY DEF Types
    <3> HIDE DEF Types
    <3> QED BY <2>1, <3>1
  <2>3. Types'
    BY <2>1, <2>2 DEF Types, masks
  <2> QED BY <2>1, <2>3, SharedStays DEF Settled, masks
<1>5. ASSUME NEW delta \in Deltas, NEW then \in {"run", "dequeue"}, UpdateCurr(c, delta, then)
      PROVE  Types' /\ Settled' /\ Shared'
  <2>1. UNCHANGED <<runtime, timer, rt_b, sysctl, masks, plug, admin>> /\ (time' = time \/ time' = [time EXCEPT ![c] = @ + delta])
    BY <1>5 DEF UpdateCurr
  <2>2. time' \in [CPU -> Nat]
    <3>1. time \in [CPU -> Nat] /\ delta \in Nat
      BY InputAssumption DEF Types
    <3>2. [time EXCEPT ![c] = @ + delta] \in [CPU -> Nat]
      BY <3>1
    <3> QED BY <2>1, <3>1, <3>2
  <2>3. Types'
    BY <2>1, <2>2 DEF Types, masks
  <2> QED BY <2>1, <2>3, SharedStays DEF Settled, masks
<1> QED BY <1>1, <1>2, <1>3, <1>4, <1>5 DEF Handler

\* Steps of the period timer.
LEMMA TimerSteps ==
    ASSUME Types, Settled, Shared, Timer
    PROVE  Types' /\ Settled' /\ Shared'
<1> DEFINE Passes == [in : {"visit", "update"}, next : Nat, overrun : Nat, idle : BOOLEAN, throttled : BOOLEAN]
<1>1. timer \in {[in |-> "off"], [in |-> "on"]} \cup Passes
  BY DEF Types
<1>2. ASSUME NEW overrun \in Overruns PROVE Pass(0, overrun) \in Passes
  BY InputAssumption DEF Pass
<1>3. CASE Expire
  <2>1. UNCHANGED <<queue, tasks, rt_b, sysctl, masks, plug, admin>> /\ timer' \in Passes
    BY <1>2, <1>3 DEF Expire
  <2>2. Types'
    BY <2>1 DEF Types, queue, masks
  <2> QED BY <2>1, <2>2, SharedStays DEF Settled, queue, masks
<1>4. CASE Visit
  <2> PICK c \in CPU : c = timer.next
    BY <1>4 DEF Visit
  <2>1. /\ UNCHANGED <<time, rt_b, sysctl, masks, plug, admin>>
        /\ runtime' = runtime \/ runtime' = do_balance_runtime(c)
        /\ timer' = [timer EXCEPT !.next = @ + 1] \/ timer' = [timer EXCEPT !.in = "update"]
        /\ timer.in = "visit"
    BY <1>4 DEF Visit
  <2>2. timer' \in Passes
    <3>1. timer \in Passes
      BY <1>1, <2>1
    <3> QED BY <2>1, <3>1
  <2>3. runtime' \in [CPU -> Nat \cup {Inf}] /\ Shared'
    <3>1. CASE runtime' = runtime
      BY <2>1, <3>1, SharedStays DEF Types, masks
    <3>2. CASE runtime' = do_balance_runtime(c)
      BY <2>1, <3>2, SharedBalanced DEF masks
    <3> QED BY <2>1, <3>1, <3>2
  <2>4. Types'
    BY <2>1, <2>2, <2>3 DEF Types, masks
  <2> QED BY <2>1, <2>3, <2>4 DEF Settled, masks
<1>5. CASE Update
  <2> DEFINE c == timer.next
  <2>1. /\ UNCHANGED <<runtime, tasks, rt_b, sysctl, masks, plug, admin>>
        /\ timer.in = "update"
        /\ time' = IF time[c] # 0 THEN [time EXCEPT ![c] = refill(time[c], runtime[c], timer.overrun).time] ELSE time
        /\ timer' = [timer EXCEPT !.in = "visit", !.next = c + 1,
                                  !.idle = @ /\ time'[c] = 0 /\ c \notin running,
                                  !.throttled = @ \/ c \in throttled']
    BY <1>5 DEF Update
  <2>2. timer \in Passes
    BY <1>1, <2>1
  <2>3. timer' \in Passes
    <3>1. PICK b \in BOOLEAN : b = (timer.idle /\ time'[c] = 0 /\ c \notin running)
      BY Zenon
    <3>2. PICK e \in BOOLEAN : e = (timer.throttled \/ c \in throttled')
      BY Zenon
    <3>3. timer' = [timer EXCEPT !.in = "visit", !.next = c + 1, !.idle = b, !.throttled = e]
      BY <2>1, <3>1, <3>2, Zenon
    <3>4. c + 1 \in Nat
      BY <2>2
    <3> HIDE <2>1, <3>1, <3>2 DEF c
    <3> QED BY <2>2, <3>3, <3>4
  <2>4. time' \in [CPU -> Nat]
    <3>1. CASE c \in CPU
      <4>1. refill(time[c], runtime[c], timer.overrun).time \in Nat
        <5>1. time[c] \in Nat /\ runtime[c] \in Nat \cup {Inf} /\ timer.overrun \in Nat
          BY <2>2, <3>1 DEF Types
        <5> QED BY <5>1, RefillTypes
      <4> HIDE DEF c
      <4> QED BY <2>1, <4>1 DEF Types
    <3>2. CASE c \notin CPU
      <4> HIDE DEF c
      <4> QED BY <2>1, <3>2 DEF Types
    <3> QED BY <3>1, <3>2
  <2>5. Types'
    BY <2>1, <2>3, <2>4 DEF Types, masks
  <2> QED BY <2>1, <2>5, SharedStays DEF Settled, masks
<1>6. CASE TimerEnd
  <2>1. /\ UNCHANGED <<queue, tasks, rt_b, sysctl, masks, plug, admin>>
        /\ timer' \in {[in |-> "off"], [in |-> "on"]} \cup Passes
    BY <1>2, <1>6 DEF TimerEnd
  <2>2. Types'
    BY <2>1 DEF Types, queue, masks
  <2> QED BY <2>1, <2>2, SharedStays DEF Settled, queue, masks
<1> QED BY <1>3, <1>4, <1>5, <1>6 DEF Timer

\* The same for every queue.
LEMMA EvenSplit ==
    ASSUME NEW n \in Nat, NEW r \in [CPU -> Nat], \A c \in CPU : r[c] = n
    PROVE  Split(r, n)
<1>1. ASSUME NEW c \in CPU PROVE SumFunctionOnSet(r, span(c)) = n * Cardinality(span(c))
  <2> PICK S : S = span(c)
    OBVIOUS
  <2>1. IsFiniteSet(S) /\ \A d \in S : r[d] = n
    BY SpanFacts
  <2>2. SumFunctionOnSet(r, S) = n * Cardinality(S)
    BY <2>1, SumConstant
  <2> QED BY <2>2
<1> QED BY <1>1 DEF Split

\* Steps of sched_rt_handler.
LEMMA SysctlSteps ==
    ASSUME Types, Settled, Shared, SysctlWrite \/ sched_rt_global_constraints \/ sched_rt_handler,
           admin \in {"partition", "sysctl"}
    PROVE  Types' /\ Settled' /\ Shared'
<1> DEFINE Sys == [in : {"no", "written", "set"}, value : Nat \cup {Inf}]
<1>1. sysctl \in Sys
  BY DEF Types
<1>2. CASE SysctlWrite
  <2>1. PICK v \in Sysctls : sysctl' = [in |-> "written", value |-> v]
    BY <1>2 DEF SysctlWrite
  <2>2. UNCHANGED <<queue, tasks, timer, rt_b, masks, plug, admin>> /\ admin = "sysctl" /\ sysctl.in = "no"
    BY <1>2 DEF SysctlWrite
  <2>3. v \in Nat \cup {Inf}
    BY AdminAssumption
  <2>4. Types'
    BY <2>1, <2>2, <2>3 DEF Types, queue, masks
  <2>5. given' = given
    BY <2>1, <2>2 DEF given
  <2>6. Shared'
    BY <2>2, <2>5 DEF Shared, Split, span, queue, masks
  <2> QED BY <2>1, <2>2, <2>4, <2>6 DEF Settled, queue, masks
<1>3. CASE sched_rt_global_constraints
  <2>1. /\ sysctl.in = "written" /\ sysctl' = [sysctl EXCEPT !.in = "set"]
        /\ runtime' = [c \in CPU |-> sysctl.value]
        /\ UNCHANGED <<time, throttled, tasks, timer, rt_b, masks, plug, admin>>
    BY <1>3 DEF sched_rt_global_constraints
  <2>2. PICK v \in Nat \cup {Inf} : v = sysctl.value
    BY <1>1
  <2>3. sysctl' \in Sys /\ sysctl'.in = "set" /\ sysctl'.value = v
    BY <1>1, <2>1, <2>2
  <2>4. runtime' \in [CPU -> Nat \cup {Inf}] /\ \A c \in CPU : runtime'[c] = v
    BY <2>1, <2>2
  <2>5. Types'
    BY <2>1, <2>3, <2>4 DEF Types, masks
  <2>6. given' = v
    BY <2>3 DEF given
  <2>7. ASSUME v = Inf PROVE Shared'
    <3>1. given' = Inf /\ \A c \in CPU : runtime'[c] = Inf
      BY <2>4, <2>6, <2>7
    <3> QED BY <3>1 DEF Shared
  <2>8. ASSUME v \in Nat PROVE Shared'
    <3> PICK r : r = runtime'
      OBVIOUS
    <3>1. r \in [CPU -> Nat] /\ \A c \in CPU : r[c] = v
      BY <2>1, <2>2, <2>4, <2>8
    <3>2. Split(r, v)
      BY <2>8, <3>1, EvenSplit
    <3>3. rd' = rd
      BY <2>1 DEF masks
    <3>4. \A c \in CPU : SumFunctionOnSet(runtime', span(c)') = v * Cardinality(span(c)')
      BY <3>2, <3>3 DEF Split, span
    <3>5. Split(runtime, given)'
      BY <2>6, <3>4 DEF Split
    <3>6. given' \in Nat /\ runtime' \in [CPU -> Nat]
      BY <2>6, <2>8, <3>1
    <3> QED BY <3>5, <3>6 DEF Shared
  <2>9. admin # "partition"
    BY <2>1 DEF Settled
  <2> QED BY <2>1, <2>2, <2>5, <2>7, <2>8, <2>9 DEF Settled, masks
<1>4. CASE sched_rt_handler
  <2>1. /\ sysctl.in = "set" /\ sysctl' = [sysctl EXCEPT !.in = "no"] /\ rt_b' = sysctl.value
        /\ UNCHANGED <<queue, tasks, timer, masks, plug, admin>>
    BY <1>4 DEF sched_rt_handler
  <2>2. sysctl' \in Sys /\ sysctl'.in = "no" /\ rt_b' \in Nat \cup {Inf}
    BY <1>1, <2>1
  <2>3. Types'
    BY <2>1, <2>2 DEF Types, queue, masks
  <2>4. given' = given
    BY <2>1, <2>2 DEF given
  <2>5. Shared'
    BY <2>1, <2>4 DEF Shared, Split, span, queue, masks
  <2> QED BY <2>1, <2>2, <2>3, <2>5 DEF Settled, queue, masks
<1> QED BY <1>2, <1>3, <1>4

\* Rebuilding the domains.
LEMMA DomainSteps ==
    ASSUME Types, Settled, Shared, Repartition \/ PlugStep, admin \in {"partition", "sysctl"}
    PROVE  Types' /\ Settled' /\ Shared'
<1>1. CASE Repartition
  <2>1. PICK p \in Partitions : doms' = p /\ plug' = partition_sched_domains(doms, p)
    BY <1>1 DEF Repartition
  <2>2. UNCHANGED <<queue, tasks, timer, rt_b, sysctl, rd, online, active, rq_online, admin>> /\ admin = "partition"
    BY <1>1 DEF Repartition
  <2>3. p \in SUBSET SUBSET CPU /\ doms \in SUBSET SUBSET CPU
    <3>1. \A q \in Partitions : q \in SUBSET SUBSET CPU
      BY AdminAssumption
    <3> QED BY <3>1 DEF Types
  <2>4. plug' \in Seq(Attachments)
    BY <2>1, <2>3, RebuildAttaches
  <2>5. Types'
    BY <2>1, <2>2, <2>4 DEF Types, queue
  <2> QED BY <2>2, <2>5, SharedStays DEF Settled, queue
<1>2. CASE PlugStep
  <2> PICK op : op = Head(plug)
    OBVIOUS
  <2>1. op \in Attachments /\ Tail(plug) \in Seq(Attachments) /\ plug # <<>>
    BY <1>2, HeadTailProperties DEF PlugStep, Types
  <2>2. op.do = "attach" /\ op.cpu \in CPU /\ op.rd \in SUBSET CPU
    BY <2>1 DEF Attachments
  <2>3. /\ plug' = Tail(plug) /\ rq_attach_root(op.cpu, op.rd)
        /\ UNCHANGED <<timer, rt_b, sysctl, doms, admin>>
    BY <1>2, <2>2 DEF PlugStep
  <2>4. admin = "partition" /\ sysctl.in = "no" /\ given = rt_b
    BY <2>1 DEF Settled, given
  <2>5. /\ runtime' \in [CPU -> Nat \cup {Inf}] /\ time' \in [CPU -> Nat]
        /\ rd' \in [CPU -> SUBSET CPU] /\ rq_online' = CPU /\ active' = CPU
        /\ \/ rt_b = Inf /\ \A d \in CPU : runtime'[d] = Inf
           \/ /\ rt_b \in Nat /\ runtime' \in [CPU -> Nat]
              /\ \A b \in CPU : SumFunctionOnSet(runtime', span(b)') = rt_b * Cardinality(span(b)')
    BY <2>2, <2>3, <2>4, AttachKeeps
  <2>6. Types'
    BY <2>1, <2>3, <2>5 DEF Types
  <2>7. given' = rt_b /\ online' = online
    BY <2>3, <2>4 DEF given, rq_attach_root
  <2>8. Shared'
    <3>1. CASE rt_b = Inf /\ \A d \in CPU : runtime'[d] = Inf
      BY <2>7, <3>1 DEF Shared
    <3>2. CASE /\ rt_b \in Nat /\ runtime' \in [CPU -> Nat]
               /\ \A b \in CPU : SumFunctionOnSet(runtime', span(b)') = rt_b * Cardinality(span(b)')
      BY <2>7, <3>2 DEF Shared, Split
    <3> QED BY <2>5, <3>1, <3>2
  <2> QED BY <2>3, <2>4, <2>5, <2>6, <2>7, <2>8 DEF Settled
<1> QED BY <1>1, <1>2

\* No step changes what the administrator does.
LEMMA AdminStays ==
    ASSUME [Next]_vars
    PROVE  admin' = admin
BY DEF Next, vars, Enqueue, PickNext, Dequeue, Handler, BalanceRuntime, RuntimeExceeded, UpdateCurr, Timer, Expire,
       Visit, Update, TimerEnd, SysctlWrite, sched_rt_global_constraints, sched_rt_handler, Repartition, PlugStep,
       CpuDown, CpuUp

\* Every step keeps the invariant.
LEMMA StepIInv ==
    ASSUME IInv, [Next]_vars
    PROVE  IInv'
<1>1. admin' = admin /\ Admins \subseteq {"partition", "hotplug", "sysctl"} /\ admin \in Admins
  BY AdminStays, AdminAssumption DEF IInv
<1> SUFFICES ASSUME admin # "hotplug" PROVE Types' /\ Settled' /\ Shared'
  BY <1>1 DEF IInv
<1>2. Types /\ Settled /\ Shared /\ admin \in {"partition", "sysctl"}
  BY <1>1 DEF IInv
<1>3. ASSUME NEW c \in CPU,
             \/ Enqueue(c) \/ PickNext(c) \/ Dequeue(c) \/ Handler(c)
             \/ \E delta \in Deltas, then \in {"run", "dequeue"} : UpdateCurr(c, delta, then)
      PROVE  Types' /\ Settled' /\ Shared'
  BY <1>2, <1>3, ThreadSteps
<1>4. CASE Timer
  BY <1>2, <1>4, TimerSteps
<1>5. CASE SysctlWrite \/ sched_rt_global_constraints \/ sched_rt_handler
  BY <1>2, <1>5, SysctlSteps
<1>6. CASE Repartition \/ PlugStep
  BY <1>2, <1>6, DomainSteps
<1>7. ASSUME NEW d \in CPU, CpuDown(d) \/ CpuUp(d) PROVE FALSE
  BY <1>2, <1>7 DEF CpuDown, CpuUp, Settled
<1>8. CASE UNCHANGED vars
  BY <1>2, <1>8, SharedStays DEF vars, queue, masks, Types, Settled
<1> QED BY <1>3, <1>4, <1>5, <1>6, <1>7, <1>8 DEF Next

\* At boot every queue has its share.
LEMMA InitIInv == Init => IInv
<1> SUFFICES ASSUME Init PROVE IInv
  OBVIOUS
<1>1. Runtime \in Nat
  BY BandwidthAssumption
<1>2. Types
  <2>1. plug \in Seq(Attachments)
    BY EmptySeq DEF Init
  <2> QED BY <1>1, <2>1 DEF Init, Types
<1>3. Settled
  BY DEF Init, Settled
<1>4. Shared
  <2>1. given = Runtime /\ runtime \in [CPU -> Nat] /\ \A c \in CPU : runtime[c] = Runtime
    BY <1>1 DEF Init, given
  <2>2. PICK r : r = runtime
    OBVIOUS
  <2>3. Split(r, Runtime)
    BY <1>1, <2>1, <2>2, EvenSplit
  <2> QED BY <1>1, <2>1, <2>2, <2>3 DEF Shared
<1> QED BY <1>2, <1>3, <1>4 DEF IInv, Init

\* The invariant holds in every behaviour.
LEMMA Invariant == Spec => []IInv
<1>1. IInv /\ [Next]_vars => IInv'
  BY StepIInv
<1> QED BY InitIInv, <1>1, PTL DEF Spec

\* Whatever is lent, borrowed and given back, and however root domains are
\* formed anew, the queues of each root domain have what they were given, for
\* any number of CPUs and any limit: no runtime is made and none is lost.
THEOREM RuntimeConserved == Spec => []Conserved
<1>1. IInv => Conserved
  <2> SUFFICES ASSUME IInv, admin # "hotplug", sysctl.in = "no", NEW c \in CPU,
                      NEW enabled, enabled = {d \in span(c) : runtime[d] # Inf}
               PROVE  SumFunctionOnSet(runtime, enabled) = rt_b * Cardinality(enabled)
    BY Zenon DEF Conserved
  <2>1. Shared /\ given = rt_b /\ span(c) \subseteq CPU
    BY SpanFacts DEF IInv, given
  <2>2. CASE rt_b = Inf /\ \A d \in CPU : runtime[d] = Inf
    <3>1. enabled = {} /\ rt_b * 0 = 0
      BY <2>1, <2>2 DEF Inf
    <3> QED BY <3>1, SumEmpty, FS_EmptySet
  <2>3. CASE runtime \in [CPU -> Nat] /\ Split(runtime, rt_b)
    <3>1. enabled = span(c)
      BY <2>1, <2>3 DEF Inf
    <3> QED BY <2>3, <3>1 DEF Split
  <2> QED BY <2>1, <2>2, <2>3 DEF Shared
<1> QED BY Invariant, <1>1, PTL

\* What __disable_runtime says of itself, "We cannot be left wanting - that
\* would mean some runtime leaked out of the system", is true as long as no CPU
\* is unplugged: a queue that changes its root domain always gets back, or gets
\* rid of, all it lent or borrowed.
THEOREM NeverLeftWanting == Spec => [](admin # "hotplug" => NotLeftWanting)
<1>1. IInv => (admin # "hotplug" => NotLeftWanting)
  <2> SUFFICES ASSUME IInv, admin # "hotplug", NEW c \in CPU, plug # <<>> PROVE Reclaimed(c).want = 0
    BY DEF NotLeftWanting
  <2>1. Types /\ Settled /\ Shared /\ admin \in {"partition", "sysctl"}
    BY AdminAssumption DEF IInv
  <2>2. given = rt_b
    BY <2>1 DEF Settled, given
  <2>3. CASE runtime[c] = Inf
    BY <2>3 DEF Reclaimed
  <2>4. CASE rt_b \in Nat /\ runtime \in [CPU -> Nat] /\ Split(runtime, rt_b)
    BY <2>4, Reclaims
  <2> QED BY <2>1, <2>2, <2>3, <2>4 DEF Shared
<1> QED BY Invariant, <1>1, PTL
=============================================================================
