--------------------------- MODULE RtPushPullProofs ---------------------------
(* The run queues of the real-time class stay consistent whatever happens    *)
(* where double_lock_balance drops a lock: the pushable list of each is that *)
(* of the threads that wait there and may go elsewhere, and what the root    *)
(* domain knows of it is true.                                               *)
(*                                                                           *)
(* The steps are built of few operations on the machine.  Each keeps OK, and *)
(* none puts a thread on a run queue or a CPU that was on neither, but for   *)
(* the wake-up: Rest, the threads that are on neither, only grows.           *)
EXTENDS RtPushPull, TLAPS, FiniteSetTheorems, WellFoundedInduction

Overload(s, c) == s.migratory[c] > 0 /\ Cardinality(Active(s, c)) > 1

Pushable(s, c) == {p \in Active(s, c) : s.curr[c] # p /\ Many(s, p)}
Movable(s, c)  == {p \in Active(s, c) : Many(s, p)}

QueueKnown(s, c) ==
    /\ s.migratory[c] = Cardinality(Movable(s, c))
    /\ c \in s.overloaded <=> Overload(s, c)
    /\ c \in s.rto <=> c \in s.online /\ c \in s.overloaded
    /\ s.cpupri[c] = IF c \in s.online THEN highest_curr(s, c) ELSE 0

QueueTrue(s, c) == s.pushable[c] = Pushable(s, c) /\ QueueKnown(s, c)

\* A thread that runs is where its run queue is.
CurrHere(s) == \A c \in CPU : s.curr[c] # Idle => s.cpu[s.curr[c]] = c

OK(s) == s \in Machine /\ CurrHere(s) /\ \A c \in CPU : QueueTrue(s, c)

\* The threads that are on no run queue and no CPU.
Rest(s) == {p \in Thread : p \notin s.on_rq /\ \A c \in CPU : s.curr[c] # p}

SameThreads(s, t) ==
    /\ t.prio = s.prio /\ t.allowed = s.allowed /\ t.cpu = s.cpu /\ t.on_rq = s.on_rq
    /\ t.curr = s.curr /\ t.online = s.online

\* The thread of a CPU is on its run queue, but for one that sleeps.
Ready(s, c) == s.curr[c] = Idle \/ s.curr[c] \in s.on_rq

\* What the steps from a machine keep.
Follows(s, t) == Rest(s) \subseteq Rest(t) /\ \A c \in CPU : Ready(s, c) => Ready(t, c)

\* Where a CPU goes on with what it was doing.
Goes ==
    {Run, [in |-> "post"]}
    \union [in : {"push"}, rq : CPU, task : Thread, to : CPU, for : Thread \union {Idle}, tries : 1 .. RT_MAX_TRIES]
    \union [in : {"pull"}, rq : CPU, src : CPU, then : {"pick", "prio", "fair"}, task : Thread]

\* What a CPU may go on with from s.
Fine(s, R) == \A r \in R : OK(r[1]) /\ Follows(s, r[1]) /\ r[2] \in Goes

-----------------------------------------------------------------------------
(* What the operations are built of. *)

\* A set of priorities has a best one.
LEMMA LeastPrio ==
    ASSUME NEW S \in SUBSET Nat, S # {}
    PROVE  Min(S) \in S
<1> DEFINE R == OpToRel(<, Nat)
<1>1. \E i \in S : \A j \in S : <<j, i>> \notin R
  <2>1. IsWellFoundedOn(R, Nat)
    BY NatLessThanWellFounded
  <2> HIDE DEF R
  <2> QED BY <2>1, WFMin
<1>2. \A i, j \in S : <<j, i>> \in R <=> j < i
  BY DEF OpToRel
<1> HIDE DEF R
<1>3. \A i, j \in S : ~(j < i) => i <= j
  OBVIOUS
<1>4. \E i \in S : \A j \in S : i <= j
  BY <1>1, <1>2, <1>3
<1> QED BY <1>4 DEF Min

\* highest_curr is a priority.
LEMMA HighestType ==
    ASSUME NEW s \in Machine, NEW c \in CPU
    PROVE  highest_curr(s, c) \in 1 .. MAX_RT_PRIO
<1> DEFINE S == {s.prio[p] : p \in Active(s, c)} \union {MAX_RT_PRIO}
<1>1. S \subseteq 1 .. MAX_RT_PRIO /\ MAX_RT_PRIO \in S
  <2>1. \A p \in Active(s, c) : s.prio[p] \in 1 .. MAX_RT_PRIO
    BY DEF Active, Machine
  <2> QED BY <2>1, PushPullAssumption
<1> HIDE DEF S
<1>2. Min(S) \in S
  BY <1>1, LeastPrio
<1> QED BY <1>1, <1>2 DEF highest_curr, S

\* The active threads of a queue, and their number.
LEMMA ActiveType ==
    ASSUME NEW s \in Machine, NEW c \in CPU
    PROVE  /\ Active(s, c) \subseteq Thread
           /\ \A S \in SUBSET Thread : IsFiniteSet(S) /\ Cardinality(S) \in Nat
           /\ \A S \in SUBSET Thread : \A p \in Thread \ S : Cardinality(S \union {p}) = Cardinality(S) + 1
           /\ \A S \in SUBSET Thread : \A p \in S : Cardinality(S \ {p}) = Cardinality(S) - 1
<1>1. Active(s, c) \subseteq Thread
  BY DEF Active, Machine
<1>2. \A S \in SUBSET Thread : IsFiniteSet(S)
  BY PushPullAssumption, FS_Subset
<1>3. \A S \in SUBSET Thread : Cardinality(S) \in Nat
  BY <1>2, FS_CardinalityType
<1>4. \A S \in SUBSET Thread : \A p \in Thread \ S : Cardinality(S \union {p}) = Cardinality(S) + 1
  BY <1>2, FS_AddElement
<1>5. \A S \in SUBSET Thread : \A p \in S : Cardinality(S \ {p}) = Cardinality(S) - 1
  BY <1>2, FS_RemoveElement
<1> QED BY <1>1, <1>2, <1>3, <1>4, <1>5

\* What the root domain knows of an overload.
LEMMA SetOverload ==
    ASSUME NEW s \in Machine, NEW O \in SUBSET CPU, NEW R \in SUBSET CPU
    PROVE  [s EXCEPT !.overloaded = O, !.rto = R] \in Machine
BY DEF Machine

\* The priority of a CPU in the root domain.
LEMMA SetCpupri ==
    ASSUME NEW s \in Machine, NEW c \in CPU, NEW n \in 0 .. MAX_RT_PRIO
    PROVE  [s EXCEPT !.cpupri[c] = n] \in Machine
BY DEF Machine

\* A pushable list.
LEMMA SetPushable ==
    ASSUME NEW s \in Machine, NEW c \in CPU, NEW P \in SUBSET Thread
    PROVE  [s EXCEPT !.pushable[c] = P] \in Machine
BY DEF Machine

\* A priority.
LEMMA SetPriority ==
    ASSUME NEW s \in Machine, NEW p \in Thread, NEW n \in 1 .. MAX_RT_PRIO
    PROVE  [s EXCEPT !.prio[p] = n] \in Machine
BY DEF Machine

\* A mask.
LEMMA SetAllowed ==
    ASSUME NEW s \in Machine, NEW p \in Thread, NEW A \in SUBSET CPU
    PROVE  [s EXCEPT !.allowed[p] = A] \in Machine
BY DEF Machine

\* The CPUs that have to reschedule.
LEMMA SetResched ==
    ASSUME NEW s \in Machine, NEW R \in SUBSET CPU
    PROVE  [s EXCEPT !.resched = R] \in Machine
BY DEF Machine

\* A switch.
LEMMA SetCurr ==
    ASSUME NEW s \in Machine, NEW c \in CPU, NEW p \in Thread \union {Idle}, NEW R \in SUBSET CPU
    PROVE  [s EXCEPT !.curr[c] = p, !.resched = R] \in Machine
BY DEF Machine

\* A thread of the fair class that is enqueued.
LEMMA SetOnRq ==
    ASSUME NEW s \in Machine, NEW Q \in SUBSET Thread, NEW p \in Thread, NEW c \in CPU
    PROVE  [s EXCEPT !.on_rq = Q, !.cpu[p] = c] \in Machine
BY DEF Machine

\* A thread of the fair class that is dequeued.
LEMMA SetOffRq ==
    ASSUME NEW s \in Machine, NEW Q \in SUBSET Thread
    PROVE  [s EXCEPT !.on_rq = Q] \in Machine
BY DEF Machine

\* A real-time thread that is enqueued.
LEMMA SetQueued ==
    ASSUME NEW s \in Machine, NEW Q \in SUBSET Thread, NEW p \in Thread, NEW c \in CPU, NEW n \in Int
    PROVE  [s EXCEPT !.on_rq = Q, !.cpu[p] = c, !.migratory[c] = n] \in Machine
BY DEF Machine

\* A real-time thread that is dequeued.
LEMMA SetDequeued ==
    ASSUME NEW s \in Machine, NEW Q \in SUBSET Thread, NEW c \in CPU, NEW n \in Int
    PROVE  [s EXCEPT !.on_rq = Q, !.migratory[c] = n] \in Machine
BY DEF Machine

\* A list and the number of its threads.
LEMMA SetListed ==
    ASSUME NEW s \in Machine, NEW c \in CPU, NEW P \in SUBSET Thread, NEW n \in Int
    PROVE  [s EXCEPT !.pushable[c] = P, !.migratory[c] = n] \in Machine
BY DEF Machine

\* A CPU that is unplugged.
LEMMA SetDown ==
    ASSUME NEW s \in Machine, NEW c \in CPU, NEW p \in Thread \union {Idle}, NEW n \in 0 .. MAX_RT_PRIO,
           NEW O \in SUBSET CPU, NEW R \in SUBSET CPU, NEW Q \in SUBSET CPU
    PROVE  [s EXCEPT !.online = O, !.rto = R, !.cpupri[c] = n, !.curr[c] = p, !.resched = Q] \in Machine
BY DEF Machine

\* The queue of a CPU is as before when all it is about is.
LEMMA SameQueue ==
    ASSUME NEW s \in Machine, NEW t \in Machine, NEW c \in CPU, QueueTrue(s, c),
           Active(t, c) = Active(s, c),
           \A p \in Active(s, c) : t.prio[p] = s.prio[p] /\ t.allowed[p] = s.allowed[p],
           t.pushable[c] = s.pushable[c], t.migratory[c] = s.migratory[c], t.cpupri[c] = s.cpupri[c],
           t.curr[c] = s.curr[c], c \in t.online <=> c \in s.online,
           c \in t.overloaded <=> c \in s.overloaded, c \in t.rto <=> c \in s.rto
    PROVE  QueueTrue(t, c)
<1>1. Pushable(t, c) = Pushable(s, c) /\ Movable(t, c) = Movable(s, c)
  BY DEF Pushable, Movable, Many
<1>2. {t.prio[p] : p \in Active(t, c)} = {s.prio[p] : p \in Active(s, c)}
  OBVIOUS
<1>3. highest_curr(t, c) = highest_curr(s, c)
  BY <1>2 DEF highest_curr
<1> QED BY <1>1, <1>3 DEF QueueTrue, QueueKnown, Overload

\* update_rt_migration keeps rd->rto_mask in step with rt_rq->overloaded.
LEMMA MigrationIs ==
    ASSUME NEW s \in Machine, NEW c \in CPU, NEW t, t = update_rt_migration(s, c)
    PROVE  /\ t \in Machine /\ SameThreads(s, t)
           /\ t.pushable = s.pushable
           /\ t.migratory = s.migratory /\ t.cpupri = s.cpupri
           /\ \A d \in CPU \ {c} : (d \in t.overloaded <=> d \in s.overloaded) /\ (d \in t.rto <=> d \in s.rto)
           /\ c \in t.overloaded <=> Overload(s, c)
           /\ (c \in s.rto <=> c \in s.online /\ c \in s.overloaded) =>
                 (c \in t.rto <=> c \in t.online /\ c \in t.overloaded)
<1> DEFINE now == s.migratory[c] > 0 /\ Cardinality(Active(s, c)) > 1
           put(S) == IF now THEN S \union {c} ELSE S \ {c}
           u == [s EXCEPT !.overloaded = put(@), !.rto = IF c \in s.online THEN put(@) ELSE @]
<1>1. t = IF now <=> c \in s.overloaded THEN s ELSE u
  BY DEF update_rt_migration
<1>2. now <=> Overload(s, c)
  BY DEF Overload
<1> HIDE DEF now
<1>3. CASE now <=> c \in s.overloaded
  BY <1>1, <1>2, <1>3 DEF SameThreads
<1>4. CASE ~(now <=> c \in s.overloaded)
  <2>1. t = u
    BY <1>1, <1>4
  <2>2. t.overloaded = put(s.overloaded) /\ t.rto = IF c \in s.online THEN put(s.rto) ELSE s.rto
    BY <2>1 DEF Machine
  <2>3. t \in Machine
    <3> DEFINE O == put(s.overloaded)
               R == IF c \in s.online THEN put(s.rto) ELSE s.rto
    <3>1. O \in SUBSET CPU /\ R \in SUBSET CPU
      BY DEF Machine
    <3>2. t = [s EXCEPT !.overloaded = O, !.rto = R]
      BY <2>1
    <3>3. [s EXCEPT !.overloaded = O, !.rto = R] \in Machine
      BY <3>1, SetOverload, Zenon
    <3> QED BY <3>2, <3>3, Zenon
  <2>4. /\ SameThreads(s, t) /\ t.pushable = s.pushable
        /\ t.migratory = s.migratory /\ t.cpupri = s.cpupri
    BY <2>1 DEF SameThreads, Machine
  <2> HIDE DEF u
  <2> QED BY <1>2, <1>4, <2>2, <2>3, <2>4 DEF SameThreads
<1> QED BY <1>3, <1>4

\* inc_rt_prio_smp and dec_rt_prio_smp.
LEMMA CpupriIs ==
    ASSUME NEW s \in Machine, NEW c \in CPU, NEW t, t = cpupri_set(s, c)
    PROVE  /\ t \in Machine /\ SameThreads(s, t)
           /\ t.pushable = s.pushable
           /\ t.migratory = s.migratory /\ t.overloaded = s.overloaded /\ t.rto = s.rto
           /\ \A d \in CPU \ {c} : t.cpupri[d] = s.cpupri[d]
           /\ t.cpupri[c] = IF c \in s.online THEN highest_curr(s, c) ELSE s.cpupri[c]
<1>1. highest_curr(s, c) \in 0 .. MAX_RT_PRIO
  BY HighestType, PushPullAssumption
<1>2. CASE c \in s.online
  <2>1. t = [s EXCEPT !.cpupri = [s.cpupri EXCEPT ![c] = highest_curr(s, c)]]
    BY <1>2 DEF cpupri_set, Machine
  <2>2. t.cpupri = [s.cpupri EXCEPT ![c] = highest_curr(s, c)] /\ s.cpupri \in [CPU -> 0 .. MAX_RT_PRIO]
    BY <2>1 DEF Machine
  <2>3. t \in Machine
    BY <1>1, <1>2, SetCpupri DEF cpupri_set
  <2>4. /\ SameThreads(s, t) /\ t.pushable = s.pushable
        /\ t.migratory = s.migratory /\ t.overloaded = s.overloaded /\ t.rto = s.rto
    BY <2>1 DEF SameThreads, Machine
  <2> QED BY <1>2, <2>2, <2>3, <2>4
<1>3. CASE c \notin s.online
  BY <1>3 DEF cpupri_set, SameThreads
<1> QED BY <1>2, <1>3

\* Machines with the same threads have the same queues of them.
LEMMA SameLists ==
    ASSUME NEW s, NEW t, SameThreads(s, t), NEW c
    PROVE  /\ Active(t, c) = Active(s, c) /\ Pushable(t, c) = Pushable(s, c) /\ Movable(t, c) = Movable(s, c)
           /\ highest_curr(t, c) = highest_curr(s, c)
BY DEF SameThreads, Active, Pushable, Movable, Many, rt_task, highest_curr

\* The best priority of a queue is that of its threads.
LEMMA SameHighest ==
    ASSUME NEW s, NEW t, NEW c, Active(t, c) = Active(s, c), t.prio = s.prio
    PROVE  highest_curr(t, c) = highest_curr(s, c)
BY DEF highest_curr

\* After inc_rt_tasks and dec_rt_tasks the root domain knows the queue.
LEMMA Refreshed ==
    ASSUME NEW s \in Machine, NEW c \in CPU, \A d \in CPU \ {c} : QueueTrue(s, d),
           s.migratory[c] = Cardinality(Movable(s, c)),
           c \in s.rto <=> c \in s.online /\ c \in s.overloaded,
           c \notin s.online => s.cpupri[c] = 0,
           NEW t, t = cpupri_set(update_rt_migration(s, c), c)
    PROVE  /\ t \in Machine /\ SameThreads(s, t) /\ t.pushable = s.pushable
           /\ QueueKnown(t, c) /\ \A d \in CPU \ {c} : QueueTrue(t, d)
<1>1. PICK u : u = update_rt_migration(s, c)
  OBVIOUS
<1>2. /\ u \in Machine /\ SameThreads(s, u) /\ u.pushable = s.pushable
      /\ u.migratory = s.migratory /\ u.cpupri = s.cpupri
      /\ \A d \in CPU \ {c} : (d \in u.overloaded <=> d \in s.overloaded) /\ (d \in u.rto <=> d \in s.rto)
      /\ c \in u.overloaded <=> Overload(s, c)
      /\ c \in u.rto <=> c \in u.online /\ c \in u.overloaded
  BY <1>1, MigrationIs
<1>3. /\ t \in Machine /\ SameThreads(u, t) /\ t.pushable = u.pushable
      /\ t.migratory = u.migratory /\ t.overloaded = u.overloaded /\ t.rto = u.rto
      /\ \A d \in CPU \ {c} : t.cpupri[d] = u.cpupri[d]
      /\ t.cpupri[c] = IF c \in u.online THEN highest_curr(u, c) ELSE u.cpupri[c]
  BY <1>1, <1>2, CpupriIs
<1>4. SameThreads(s, t)
  BY <1>2, <1>3 DEF SameThreads
<1>5. QueueKnown(t, c)
  BY <1>2, <1>3, <1>4, SameLists DEF QueueKnown, Overload, SameThreads
<1>6. ASSUME NEW d \in CPU \ {c}
      PROVE  QueueTrue(t, d)
  BY <1>2, <1>3, <1>4, SameLists DEF QueueTrue, QueueKnown, Overload, SameThreads
<1> QED BY <1>2, <1>3, <1>4, <1>5, <1>6

WithPushable(s, c, P) == [s EXCEPT !.pushable[c] = P]

\* A pushable list changes nothing else.
LEMMA PushableIs ==
    ASSUME NEW s \in Machine, NEW c \in CPU, NEW P \in SUBSET Thread, NEW t, t = WithPushable(s, c, P),
           QueueKnown(s, c), \A d \in CPU \ {c} : QueueTrue(s, d)
    PROVE  /\ t \in Machine /\ SameThreads(s, t) /\ t.pushable[c] = P
           /\ QueueKnown(t, c) /\ \A d \in CPU \ {c} : QueueTrue(t, d)
<1>1. t \in Machine
  BY SetPushable DEF WithPushable
<1>2. /\ SameThreads(s, t) /\ t.pushable = [s.pushable EXCEPT ![c] = P] /\ s.pushable \in [CPU -> SUBSET Thread]
      /\ t.migratory = s.migratory /\ t.overloaded = s.overloaded /\ t.rto = s.rto /\ t.cpupri = s.cpupri
  BY DEF Machine, SameThreads, WithPushable
<1>5. \A d \in CPU : /\ Active(t, d) = Active(s, d) /\ Pushable(t, d) = Pushable(s, d) /\ Movable(t, d) = Movable(s, d)
                     /\ highest_curr(t, d) = highest_curr(s, d)
  BY <1>2, SameLists
<1>3. QueueKnown(t, c)
  BY <1>2, <1>5 DEF QueueKnown, Overload, SameThreads
<1>4. ASSUME NEW d \in CPU \ {c}
      PROVE  QueueTrue(t, d)
  BY <1>2, <1>5 DEF QueueTrue, QueueKnown, Overload, SameThreads
<1> QED BY <1>1, <1>2, <1>3, <1>4

-----------------------------------------------------------------------------
(* The operations keep OK. *)

Enqueued(s, t, c, p) ==
    /\ t.prio = s.prio /\ t.allowed = s.allowed /\ t.curr = s.curr /\ t.online = s.online
    /\ t.cpu = [s.cpu EXCEPT ![p] = c] /\ t.on_rq = s.on_rq \union {p}

Dequeued(s, t, p) ==
    /\ t.prio = s.prio /\ t.allowed = s.allowed /\ t.curr = s.curr /\ t.online = s.online
    /\ t.cpu = s.cpu /\ t.on_rq = s.on_rq \ {p}

\* enqueue_task_rt.
LEMMA EnqueueOK ==
    ASSUME NEW s, OK(s), NEW c \in CPU, NEW p \in Thread \ s.on_rq, rt_task(s, p),
           \A d \in CPU : s.curr[d] = p => d = c,
           NEW t, t = enqueue_task_rt(s, c, p)
    PROVE  OK(t) /\ Enqueued(s, t, c, p)
<1>0. s \in Machine
  BY DEF OK
<1> DEFINE n == IF Many(s, p) THEN s.migratory[c] + 1 ELSE s.migratory[c]
<1>1. PICK u : u = [s EXCEPT !.on_rq = s.on_rq \union {p}, !.cpu[p] = c, !.migratory[c] = n]
  OBVIOUS
<1>2. u = [s EXCEPT !.on_rq = @ \union {p}, !.cpu[p] = c, !.migratory[c] = IF Many(s, p) THEN @ + 1 ELSE @]
  BY <1>0, <1>1 DEF Machine
<1>3. n \in Int /\ s.on_rq \union {p} \in SUBSET Thread
  BY <1>0 DEF Machine
<1> HIDE DEF n
<1>4. u \in Machine
  BY <1>0, <1>1, <1>3, SetQueued
<1>5. /\ u.prio = s.prio /\ u.allowed = s.allowed /\ u.curr = s.curr /\ u.online = s.online
      /\ u.on_rq = s.on_rq \union {p} /\ u.cpu = [s.cpu EXCEPT ![p] = c] /\ s.cpu \in [Thread -> CPU]
      /\ u.pushable = s.pushable /\ u.overloaded = s.overloaded /\ u.rto = s.rto /\ u.cpupri = s.cpupri
      /\ u.migratory = [s.migratory EXCEPT ![c] = n] /\ s.migratory \in [CPU -> Int]
  BY <1>0, <1>1 DEF Machine
<1>6. \A d \in CPU : Active(u, d) = IF d = c THEN Active(s, d) \union {p} ELSE Active(s, d)
  BY <1>5, <1>0 DEF Active, rt_task, Machine
<1>7. p \notin Active(s, c)
  BY DEF Active
<1>8. \A d \in CPU \ {c} : QueueTrue(u, d)
  <2> SUFFICES ASSUME NEW d \in CPU \ {c}
               PROVE  QueueTrue(u, d)
    OBVIOUS
  <2>1. u.migratory[d] = s.migratory[d] /\ QueueTrue(s, d)
    BY <1>5 DEF OK
  <2> QED BY <2>1, <1>0, <1>4, <1>5, <1>6, SameQueue
<1>9. u.migratory[c] = Cardinality(Movable(u, c))
  <2>1. Movable(u, c) = IF Many(s, p) THEN Movable(s, c) \union {p} ELSE Movable(s, c)
    BY <1>5, <1>6 DEF Movable, Many
  <2>2. s.migratory[c] = Cardinality(Movable(s, c))
    BY DEF OK, QueueTrue, QueueKnown
  <2>3. Movable(s, c) \in SUBSET Thread /\ p \notin Movable(s, c)
    BY <1>0, <1>7, ActiveType DEF Movable
  <2>4. Cardinality(Movable(s, c) \union {p}) = Cardinality(Movable(s, c)) + 1
    BY <1>0, <2>3, ActiveType
  <2>5. u.migratory[c] = n
    BY <1>5
  <2> QED BY <2>1, <2>2, <2>4, <2>5 DEF n
<1>10. PICK v : v = cpupri_set(update_rt_migration(u, c), c)
  OBVIOUS
<1>11. /\ v \in Machine /\ SameThreads(u, v) /\ v.pushable = u.pushable
       /\ QueueKnown(v, c) /\ \A d \in CPU \ {c} : QueueTrue(v, d)
  <2>1. QueueKnown(s, c)
    BY DEF OK, QueueTrue
  <2>2. (c \in u.rto <=> c \in u.online /\ c \in u.overloaded) /\ (c \notin u.online => u.cpupri[c] = 0)
    BY <1>5, <2>1 DEF QueueKnown
  <2> QED BY <1>4, <1>8, <1>9, <1>10, <2>2, Refreshed
<1>12. Pushable(v, c) = IF s.curr[c] # p /\ Many(s, p) THEN v.pushable[c] \union {p} ELSE v.pushable[c]
  <2>1. v.pushable[c] = Pushable(s, c)
    BY <1>5, <1>11 DEF OK, QueueTrue
  <2>2. Pushable(v, c) = Pushable(u, c)
    BY <1>11, SameLists
  <2> QED BY <1>5, <1>6, <2>1, <2>2 DEF Pushable, Many
<1>13. t = IF s.curr[c] # p /\ Many(s, p) THEN WithPushable(v, c, v.pushable[c] \union {p}) ELSE v
  <2>1. t = IF s.curr[c] # p /\ Many(s, p) THEN enqueue_pushable_task(v, c, p) ELSE v
    BY <1>2, <1>10 DEF enqueue_task_rt
  <2>2. enqueue_pushable_task(v, c, p) = WithPushable(v, c, v.pushable[c] \union {p})
    BY <1>11 DEF enqueue_pushable_task, Machine, WithPushable
  <2> QED BY <2>1, <2>2
<1>14. t \in Machine /\ SameThreads(v, t) /\ \A d \in CPU : QueueTrue(t, d)
  <2>1. CASE s.curr[c] # p /\ Many(s, p)
    <3>0. v.pushable[c] \subseteq Thread
      BY <1>11 DEF Machine
    <3>1. PICK P \in SUBSET Thread : P = v.pushable[c] \union {p}
      BY <3>0
    <3>2. t = WithPushable(v, c, P)
      BY <1>13, <2>1, <3>1
    <3>3. /\ t \in Machine /\ SameThreads(v, t) /\ t.pushable[c] = P
          /\ QueueKnown(t, c) /\ \A d \in CPU \ {c} : QueueTrue(t, d)
      BY <1>11, <3>1, <3>2, PushableIs
    <3>4. Pushable(t, c) = Pushable(v, c)
      BY <3>3, SameLists
    <3> QED BY <1>12, <2>1, <3>1, <3>3, <3>4 DEF QueueTrue
  <2>2. CASE ~(s.curr[c] # p /\ Many(s, p))
    <3>1. t = v /\ QueueTrue(v, c)
      BY <1>11, <1>12, <1>13, <2>2 DEF QueueTrue
    <3> QED BY <3>1, <1>11 DEF SameThreads
  <2> QED BY <2>1, <2>2
<1>15. SameThreads(u, t)
  BY <1>11, <1>14 DEF SameThreads
<1>16. CurrHere(t)
  BY <1>0, <1>5, <1>15 DEF OK, CurrHere, SameThreads, Machine
<1> QED BY <1>5, <1>14, <1>15, <1>16 DEF OK, SameThreads, Enqueued

\* dequeue_task_rt.
LEMMA DequeueOK ==
    ASSUME NEW s, OK(s), NEW p \in s.on_rq, rt_task(s, p), NEW c, c = s.cpu[p],
           NEW t, t = dequeue_task_rt(s, c, p)
    PROVE  OK(t) /\ Dequeued(s, t, p)
<1>0. s \in Machine /\ p \in Thread /\ c \in CPU
  BY DEF OK, Machine
<1> DEFINE n == IF Many(s, p) THEN s.migratory[c] - 1 ELSE s.migratory[c]
<1>1. PICK u : u = [s EXCEPT !.on_rq = s.on_rq \ {p}, !.migratory[c] = n]
  OBVIOUS
<1>2. u = [s EXCEPT !.on_rq = @ \ {p}, !.migratory[c] = IF Many(s, p) THEN @ - 1 ELSE @]
  BY <1>0, <1>1 DEF Machine
<1>3. n \in Int /\ s.on_rq \ {p} \in SUBSET Thread
  BY <1>0 DEF Machine
<1> HIDE DEF n
<1>4. u \in Machine
  BY <1>0, <1>1, <1>3, SetDequeued
<1>5. /\ u.prio = s.prio /\ u.allowed = s.allowed /\ u.curr = s.curr /\ u.online = s.online
      /\ u.on_rq = s.on_rq \ {p} /\ u.cpu = s.cpu
      /\ u.pushable = s.pushable /\ u.overloaded = s.overloaded /\ u.rto = s.rto /\ u.cpupri = s.cpupri
      /\ u.migratory = [s.migratory EXCEPT ![c] = n] /\ s.migratory \in [CPU -> Int]
  BY <1>0, <1>1 DEF Machine
<1>6. \A d \in CPU : Active(u, d) = IF d = c THEN Active(s, d) \ {p} ELSE Active(s, d)
  BY <1>5, <1>0 DEF Active, rt_task, Machine
<1>7. p \in Active(s, c)
  BY DEF Active
<1>8. \A d \in CPU \ {c} : QueueTrue(u, d)
  <2> SUFFICES ASSUME NEW d \in CPU \ {c}
               PROVE  QueueTrue(u, d)
    OBVIOUS
  <2>1. u.migratory[d] = s.migratory[d] /\ QueueTrue(s, d)
    BY <1>5 DEF OK
  <2> QED BY <2>1, <1>0, <1>4, <1>5, <1>6, SameQueue
<1>9. u.migratory[c] = Cardinality(Movable(u, c))
  <2>1. Movable(u, c) = IF Many(s, p) THEN Movable(s, c) \ {p} ELSE Movable(s, c)
    BY <1>0, <1>5, <1>6 DEF Movable, Many
  <2>2. s.migratory[c] = Cardinality(Movable(s, c))
    BY <1>0 DEF OK, QueueTrue, QueueKnown
  <2>3. Movable(s, c) \in SUBSET Thread /\ (Many(s, p) => p \in Movable(s, c))
    BY <1>0, <1>7, ActiveType DEF Movable
  <2>4. Many(s, p) => Cardinality(Movable(s, c) \ {p}) = Cardinality(Movable(s, c)) - 1
    BY <1>0, <2>3, ActiveType
  <2>5. u.migratory[c] = n
    BY <1>0, <1>5
  <2> QED BY <2>1, <2>2, <2>4, <2>5 DEF n
<1>10. PICK v : v = cpupri_set(update_rt_migration(u, c), c)
  OBVIOUS
<1>11. /\ v \in Machine /\ SameThreads(u, v) /\ v.pushable = u.pushable
       /\ QueueKnown(v, c) /\ \A d \in CPU \ {c} : QueueTrue(v, d)
  <2>1. QueueKnown(s, c)
    BY <1>0 DEF OK, QueueTrue
  <2>2. (c \in u.rto <=> c \in u.online /\ c \in u.overloaded) /\ (c \notin u.online => u.cpupri[c] = 0)
    BY <1>5, <2>1 DEF QueueKnown
  <2> QED BY <1>0, <1>4, <1>8, <1>9, <1>10, <2>2, Refreshed
<1>12. PICK P \in SUBSET Thread : P = v.pushable[c] \ {p}
  BY <1>0, <1>11 DEF Machine
<1>13. P = Pushable(v, c)
  <2>1. v.pushable[c] = Pushable(s, c)
    BY <1>0, <1>5, <1>11 DEF OK, QueueTrue
  <2>2. Pushable(v, c) = Pushable(u, c)
    BY <1>11, SameLists
  <2> QED BY <1>0, <1>5, <1>6, <1>12, <2>1, <2>2 DEF Pushable, Many
<1>14. t = WithPushable(v, c, P)
  BY <1>0, <1>2, <1>10, <1>11, <1>12 DEF dequeue_task_rt, dequeue_pushable_task, Machine, WithPushable
<1>15. /\ t \in Machine /\ SameThreads(v, t) /\ t.pushable[c] = P
       /\ QueueKnown(t, c) /\ \A d \in CPU \ {c} : QueueTrue(t, d)
  BY <1>0, <1>11, <1>14, PushableIs
<1>16. Pushable(t, c) = Pushable(v, c)
  BY <1>15, SameLists
<1>17. \A d \in CPU : QueueTrue(t, d)
  BY <1>13, <1>15, <1>16 DEF QueueTrue
<1>18. SameThreads(u, t)
  BY <1>11, <1>15 DEF SameThreads
<1>19. CurrHere(t)
  BY <1>0, <1>5, <1>18 DEF OK, CurrHere, SameThreads, Machine
<1> QED BY <1>5, <1>15, <1>17, <1>18, <1>19 DEF OK, SameThreads, Dequeued

\* activate_task, of both classes.
LEMMA ActivateOK ==
    ASSUME NEW s, OK(s), NEW c \in CPU, NEW p \in Thread \ s.on_rq,
           \A d \in CPU : s.curr[d] = p => d = c,
           NEW t, t = activate_task(s, c, p)
    PROVE  OK(t) /\ Enqueued(s, t, c, p)
<1>1. CASE rt_task(s, p)
  BY <1>1, EnqueueOK DEF activate_task
<1>2. CASE ~rt_task(s, p)
  <2>0. s \in Machine
    BY DEF OK
  <2>1. t = [s EXCEPT !.on_rq = s.on_rq \union {p}, !.cpu[p] = c]
    BY <1>2, <2>0 DEF activate_task, Machine
  <2>2. s.on_rq \union {p} \in SUBSET Thread
    BY <2>0 DEF Machine
  <2>3. t \in Machine
    <3>1. [s EXCEPT !.on_rq = s.on_rq \union {p}, !.cpu[p] = c] \in Machine
      BY <2>0, <2>2, SetOnRq, Zenon
    <3> QED BY <2>1, <3>1, Zenon
  <2>4. /\ t.prio = s.prio /\ t.allowed = s.allowed /\ t.curr = s.curr /\ t.online = s.online
        /\ t.on_rq = s.on_rq \union {p} /\ t.cpu = [s.cpu EXCEPT ![p] = c] /\ s.cpu \in [Thread -> CPU]
        /\ t.pushable = s.pushable /\ t.overloaded = s.overloaded /\ t.rto = s.rto /\ t.cpupri = s.cpupri
        /\ t.migratory = s.migratory
    BY <2>0, <2>1 DEF Machine
  <2>5. \A d \in CPU : Active(t, d) = Active(s, d)
    BY <1>2, <2>4, <2>0 DEF Active, rt_task, Machine
  <2>6. ASSUME NEW d \in CPU
        PROVE  QueueTrue(t, d)
    <3>1. QueueTrue(s, d)
      BY DEF OK
    <3> QED BY <3>1, <2>0, <2>3, <2>4, <2>5, SameQueue
  <2>7. CurrHere(t)
    BY <2>0, <2>4 DEF OK, CurrHere, Machine
  <2> QED BY <2>3, <2>4, <2>6, <2>7 DEF OK, Enqueued
<1> QED BY <1>1, <1>2

\* deactivate_task, of both classes.
LEMMA DeactivateOK ==
    ASSUME NEW s, OK(s), NEW p \in s.on_rq, NEW t, t = deactivate_task(s, p)
    PROVE  OK(t) /\ Dequeued(s, t, p)
<1>1. CASE rt_task(s, p)
  <2>1. PICK c : c = s.cpu[p]
    OBVIOUS
  <2>2. t = dequeue_task_rt(s, c, p)
    BY <1>1, <2>1 DEF deactivate_task
  <2> QED BY <1>1, <2>1, <2>2, DequeueOK
<1>2. CASE ~rt_task(s, p)
  <2>0. s \in Machine
    BY DEF OK
  <2>1. t = [s EXCEPT !.on_rq = s.on_rq \ {p}]
    BY <1>2, <2>0 DEF deactivate_task, Machine
  <2>2. s.on_rq \ {p} \in SUBSET Thread
    BY <2>0 DEF Machine
  <2>3. t \in Machine
    BY <2>0, <2>1, <2>2, SetOffRq
  <2>4. /\ t.prio = s.prio /\ t.allowed = s.allowed /\ t.curr = s.curr /\ t.online = s.online
        /\ t.on_rq = s.on_rq \ {p} /\ t.cpu = s.cpu
        /\ t.pushable = s.pushable /\ t.overloaded = s.overloaded /\ t.rto = s.rto /\ t.cpupri = s.cpupri
        /\ t.migratory = s.migratory
    BY <2>0, <2>1 DEF Machine
  <2>5. \A d \in CPU : Active(t, d) = Active(s, d)
    BY <1>2, <2>4, <2>0 DEF Active, rt_task, Machine
  <2>6. ASSUME NEW d \in CPU
        PROVE  QueueTrue(t, d)
    <3>1. QueueTrue(s, d)
      BY DEF OK
    <3> QED BY <3>1, <2>0, <2>3, <2>4, <2>5, SameQueue
  <2>7. CurrHere(t)
    BY <2>0, <2>4 DEF OK, CurrHere, Machine
  <2> QED BY <2>3, <2>4, <2>6, <2>7 DEF OK, Dequeued
<1> QED BY <1>1, <1>2

\* A machine that differs in what no queue is about.
LEMMA SameMachine ==
    ASSUME NEW s, OK(s), NEW t \in Machine, SameThreads(s, t), t.pushable = s.pushable,
           t.migratory = s.migratory, t.overloaded = s.overloaded, t.rto = s.rto, t.cpupri = s.cpupri
    PROVE  OK(t)
<1>1. s \in Machine /\ \A c \in CPU : QueueTrue(s, c)
  BY DEF OK
<1>2. \A c \in CPU : QueueTrue(t, c)
  BY <1>1, SameLists DEF QueueTrue, QueueKnown, Overload, SameThreads
<1>3. CurrHere(t)
  BY DEF OK, CurrHere, SameThreads
<1> QED BY <1>2, <1>3 DEF OK

\* resched_task.
LEMMA ReschedOK ==
    ASSUME NEW s, OK(s), NEW c \in CPU, NEW t, t = resched_task(s, c)
    PROVE  OK(t) /\ SameThreads(s, t)
<1>1. s \in Machine
  BY DEF OK
<1>2. t = [s EXCEPT !.resched = s.resched \union {c}] /\ s.resched \union {c} \in SUBSET CPU
  BY <1>1 DEF resched_task, Machine
<1>3. t \in Machine
  BY <1>1, <1>2, SetResched
<1>4. /\ SameThreads(s, t) /\ t.pushable = s.pushable
      /\ t.migratory = s.migratory /\ t.overloaded = s.overloaded /\ t.rto = s.rto /\ t.cpupri = s.cpupri
  BY <1>1, <1>2 DEF Machine, SameThreads
<1> QED BY <1>3, <1>4, SameMachine

\* check_preempt_curr.
LEMMA CheckPreemptOK ==
    ASSUME NEW s, OK(s), NEW c \in CPU, NEW p, NEW t, t = check_preempt_curr(s, c, p)
    PROVE  OK(t) /\ SameThreads(s, t)
<1>1. t = s \/ t = resched_task(s, c)
  BY DEF check_preempt_curr, check_preempt_equal_prio
<1>2. SameThreads(s, s)
  BY DEF SameThreads
<1> QED BY <1>1, <1>2, ReschedOK

\* The priority of a thread that is on no run queue.
LEMMA PriorityOK ==
    ASSUME NEW s, OK(s), NEW p \in Thread \ s.on_rq, NEW n \in 1 .. MAX_RT_PRIO,
           NEW t, t = [s EXCEPT !.prio[p] = n]
    PROVE  OK(t) /\ t.curr = s.curr /\ t.on_rq = s.on_rq /\ t.cpu = s.cpu
<1>1. s \in Machine
  BY DEF OK
<1>2. t \in Machine
  BY <1>1, SetPriority
<1>3. /\ t.prio = [s.prio EXCEPT ![p] = n] /\ t.allowed = s.allowed /\ t.cpu = s.cpu /\ t.on_rq = s.on_rq
      /\ t.curr = s.curr /\ t.online = s.online /\ t.pushable = s.pushable
      /\ t.migratory = s.migratory /\ t.overloaded = s.overloaded /\ t.rto = s.rto /\ t.cpupri = s.cpupri
      /\ s.prio \in [Thread -> 1 .. MAX_RT_PRIO] /\ s.on_rq \in SUBSET Thread
  BY <1>1 DEF Machine
<1>4. \A q \in s.on_rq : t.prio[q] = s.prio[q]
  BY <1>3
<1>5. \A d \in CPU : Active(t, d) = Active(s, d)
  BY <1>3, <1>4 DEF Active, rt_task
<1>6. ASSUME NEW d \in CPU
      PROVE  QueueTrue(t, d)
  <2>1. QueueTrue(s, d) /\ Active(s, d) \subseteq s.on_rq
    BY DEF OK, Active
  <2>2. /\ t.pushable[d] = s.pushable[d] /\ t.migratory[d] = s.migratory[d] /\ t.cpupri[d] = s.cpupri[d]
        /\ t.curr[d] = s.curr[d] /\ t.online = s.online /\ t.overloaded = s.overloaded /\ t.rto = s.rto
    BY <1>3
  <2>3. \A q \in Active(s, d) : t.prio[q] = s.prio[q] /\ t.allowed[q] = s.allowed[q]
    BY <1>3, <1>4, <2>1
  <2>4. Active(t, d) = Active(s, d)
    BY <1>5
  <2> QED BY <1>1, <1>2, <2>1, <2>2, <2>3, <2>4, SameQueue
<1>7. CurrHere(t)
  BY <1>3 DEF OK, CurrHere
<1> QED BY <1>2, <1>3, <1>6, <1>7 DEF OK

\* The mask of a thread that is on no run queue.
LEMMA MaskOK ==
    ASSUME NEW s, OK(s), NEW p \in Thread \ s.on_rq, NEW A \in SUBSET CPU,
           NEW t, t = [s EXCEPT !.allowed[p] = A]
    PROVE  OK(t) /\ t.curr = s.curr /\ t.on_rq = s.on_rq /\ t.cpu = s.cpu
<1>1. s \in Machine
  BY DEF OK
<1>2. t \in Machine
  BY <1>1, SetAllowed
<1>3. /\ t.allowed = [s.allowed EXCEPT ![p] = A] /\ t.prio = s.prio /\ t.cpu = s.cpu /\ t.on_rq = s.on_rq
      /\ t.curr = s.curr /\ t.online = s.online /\ t.pushable = s.pushable
      /\ t.migratory = s.migratory /\ t.overloaded = s.overloaded /\ t.rto = s.rto /\ t.cpupri = s.cpupri
      /\ s.allowed \in [Thread -> SUBSET CPU] /\ s.on_rq \in SUBSET Thread
  BY <1>1 DEF Machine
<1>4. \A q \in s.on_rq : t.allowed[q] = s.allowed[q]
  BY <1>3
<1>5. \A d \in CPU : Active(t, d) = Active(s, d)
  BY <1>3 DEF Active, rt_task
<1>6. ASSUME NEW d \in CPU
      PROVE  QueueTrue(t, d)
  <2>1. QueueTrue(s, d) /\ Active(s, d) \subseteq s.on_rq
    BY DEF OK, Active
  <2>2. /\ t.pushable[d] = s.pushable[d] /\ t.migratory[d] = s.migratory[d] /\ t.cpupri[d] = s.cpupri[d]
        /\ t.curr[d] = s.curr[d] /\ t.online = s.online /\ t.overloaded = s.overloaded /\ t.rto = s.rto
    BY <1>3
  <2>3. \A q \in Active(s, d) : t.prio[q] = s.prio[q] /\ t.allowed[q] = s.allowed[q]
    BY <1>3, <1>4, <2>1
  <2>4. Active(t, d) = Active(s, d)
    BY <1>5
  <2> QED BY <1>1, <1>2, <2>1, <2>2, <2>3, <2>4, SameQueue
<1>7. CurrHere(t)
  BY <1>3 DEF OK, CurrHere
<1> QED BY <1>2, <1>3, <1>6, <1>7 DEF OK

\* A thread that runs nowhere is moved to another queue.
LEMMA MoveOK ==
    ASSUME NEW s, OK(s), NEW p \in s.on_rq, \A d \in CPU : s.curr[d] # p, NEW c \in CPU,
           NEW t, t = activate_task(deactivate_task(s, p), c, p)
    PROVE  OK(t) /\ t.on_rq = s.on_rq /\ t.curr = s.curr
<1>1. PICK u : u = deactivate_task(s, p)
  OBVIOUS
<1>2. OK(u) /\ Dequeued(s, u, p) /\ p \in Thread
  BY <1>1, DeactivateOK DEF OK, Machine
<1>3. p \in Thread \ u.on_rq /\ \A d \in CPU : u.curr[d] = p => d = c
  BY <1>2 DEF Dequeued
<1>4. OK(t) /\ Enqueued(u, t, c, p)
  BY <1>1, <1>2, <1>3, ActivateOK
<1> QED BY <1>2, <1>4 DEF Dequeued, Enqueued

-----------------------------------------------------------------------------
(* The context switch, push and pull. *)

\* put_prev_task lists whom set_curr_task took off the list.
LEMMA PutPrev ==
    ASSUME NEW s, OK(s), NEW c \in CPU, NEW t, t = put_prev_task(s, c)
    PROVE  /\ t \in Machine /\ SameThreads(s, t) /\ t.pushable[c] = Movable(s, c)
           /\ QueueKnown(t, c) /\ \A d \in CPU \ {c} : QueueTrue(t, d)
<1>1. s \in Machine /\ QueueTrue(s, c) /\ \A d \in CPU \ {c} : QueueTrue(s, d)
  BY DEF OK
<1>2. PICK prev : prev = s.curr[c]
  OBVIOUS
<1>3. prev # Idle => prev \in Thread /\ s.cpu[prev] = c
  BY <1>1, <1>2 DEF OK, CurrHere, Machine
<1>4. CASE rt_task(s, prev) /\ prev \in s.on_rq /\ Many(s, prev)
  <2>1. PICK P \in SUBSET Thread : P = s.pushable[c] \union {prev}
    BY <1>1, <1>3, <1>4 DEF Machine, rt_task
  <2>2. t = WithPushable(s, c, P)
    BY <1>1, <1>2, <1>4, <2>1 DEF put_prev_task, enqueue_pushable_task, WithPushable, Machine
  <2>3. QueueKnown(s, c)
    BY <1>1 DEF QueueTrue
  <2>4. P = Movable(s, c)
    BY <1>1, <1>2, <1>3, <1>4, <2>1 DEF QueueTrue, Pushable, Movable, Active, rt_task
  <2> QED BY <1>1, <2>2, <2>3, <2>4, PushableIs
<1>5. CASE ~(rt_task(s, prev) /\ prev \in s.on_rq /\ Many(s, prev))
  <2>1. t = s
    BY <1>2, <1>5 DEF put_prev_task
  <2>2. s.pushable[c] = Movable(s, c)
    BY <1>1, <1>2, <1>5 DEF QueueTrue, Pushable, Movable, Active
  <2> QED BY <1>1, <2>1, <2>2 DEF SameThreads, QueueTrue
<1> QED BY <1>4, <1>5

\* The switch itself.
LEMMA SwitchIs ==
    ASSUME NEW s \in Machine, NEW c \in CPU, NEW p \in Thread \union {Idle}, NEW t, t = Switch(s, c, p),
           QueueKnown(s, c), \A d \in CPU \ {c} : QueueTrue(s, d)
    PROVE  /\ t \in Machine /\ t.prio = s.prio /\ t.allowed = s.allowed /\ t.cpu = s.cpu /\ t.on_rq = s.on_rq
           /\ t.curr = [s.curr EXCEPT ![c] = p] /\ t.online = s.online /\ t.pushable = s.pushable
           /\ QueueKnown(t, c) /\ \A d \in CPU \ {c} : QueueTrue(t, d)
<1>1. t = [s EXCEPT !.curr[c] = p, !.resched = s.resched \ {c}] /\ s.resched \ {c} \in SUBSET CPU
  BY DEF Switch, Machine
<1>2. t \in Machine
  <2>1. [s EXCEPT !.curr[c] = p, !.resched = s.resched \ {c}] \in Machine
    BY <1>1, SetCurr, Zenon
  <2> QED BY <1>1, <2>1, Zenon
<1>3. /\ t.prio = s.prio /\ t.allowed = s.allowed /\ t.cpu = s.cpu /\ t.on_rq = s.on_rq
      /\ t.curr = [s.curr EXCEPT ![c] = p] /\ t.online = s.online /\ t.pushable = s.pushable
      /\ t.migratory = s.migratory /\ t.overloaded = s.overloaded /\ t.rto = s.rto /\ t.cpupri = s.cpupri
      /\ s.curr \in [CPU -> Thread \union {Idle}]
  BY <1>1 DEF Machine
<1>4. \A d \in CPU : /\ Active(t, d) = Active(s, d) /\ Movable(t, d) = Movable(s, d)
                     /\ highest_curr(t, d) = highest_curr(s, d)
  BY <1>3 DEF Active, Movable, Many, rt_task, highest_curr
<1>5. QueueKnown(t, c)
  BY <1>3, <1>4 DEF QueueKnown, Overload
<1>6. ASSUME NEW d \in CPU \ {c}
      PROVE  QueueTrue(t, d)
  <2>1. t.curr[d] = s.curr[d] /\ QueueTrue(s, d)
    BY <1>3
  <2> QED BY <1>3, <1>4, <2>1 DEF QueueTrue, QueueKnown, Overload, Pushable, Many
<1> QED BY <1>2, <1>3, <1>5, <1>6

\* A CPU that turns to a thread of its own that runs nowhere, or to its idle
\* thread, keeps OK if its pushable list is that of the others.
LEMMA TurnOK ==
    ASSUME NEW s, OK(s), NEW c \in CPU, NEW p, p = Idle \/ (p \in s.on_rq /\ s.cpu[p] = c),
           NEW P \in SUBSET Thread, P = Movable(s, c) \ {p},
           NEW t, \/ t = WithPushable(Switch(put_prev_task(s, c), c, p), c, P)
                  \/ (t = Switch(put_prev_task(s, c), c, p) /\ Movable(s, c) = {})
    PROVE  OK(t) /\ Follows(s, t) /\ Ready(t, c)
<1>1. PICK u, v : u = put_prev_task(s, c) /\ v = Switch(u, c, p)
  OBVIOUS
<1>2. /\ u \in Machine /\ SameThreads(s, u) /\ u.pushable[c] = Movable(s, c)
      /\ QueueKnown(u, c) /\ \A d \in CPU \ {c} : QueueTrue(u, d)
  BY <1>1, PutPrev
<1>3. p \in Thread \union {Idle}
  BY DEF OK, Machine
<1>4. /\ v \in Machine /\ v.prio = u.prio /\ v.allowed = u.allowed /\ v.cpu = u.cpu /\ v.on_rq = u.on_rq
      /\ v.curr = [u.curr EXCEPT ![c] = p] /\ v.online = u.online /\ v.pushable = u.pushable
      /\ QueueKnown(v, c) /\ \A d \in CPU \ {c} : QueueTrue(v, d)
  BY <1>1, <1>2, <1>3, SwitchIs
<1>5. Pushable(v, c) = Movable(s, c) \ {p} /\ c \in DOMAIN u.curr
  BY <1>2, <1>4 DEF Pushable, Movable, Active, Many, rt_task, SameThreads, Machine
<1>6. t \in Machine /\ SameThreads(v, t) /\ \A d \in CPU : QueueTrue(t, d)
  <2>1. CASE t = WithPushable(v, c, P)
    <3>1. /\ t \in Machine /\ SameThreads(v, t) /\ t.pushable[c] = P
          /\ QueueKnown(t, c) /\ \A d \in CPU \ {c} : QueueTrue(t, d)
      BY <1>4, <2>1, PushableIs
    <3>2. Pushable(t, c) = P
      BY <1>5, <3>1, SameLists
    <3> QED BY <3>1, <3>2 DEF QueueTrue
  <2>2. CASE t = v /\ Movable(s, c) = {}
    BY <1>2, <1>4, <1>5, <2>2 DEF QueueTrue, SameThreads
  <2> QED BY <1>1, <2>1, <2>2
<1>7. /\ t.cpu = s.cpu /\ t.on_rq = s.on_rq /\ t.curr = [s.curr EXCEPT ![c] = p]
      /\ s.curr \in [CPU -> Thread \union {Idle}]
  BY <1>2, <1>4, <1>6 DEF SameThreads, OK, Machine
<1>8. CurrHere(t)
  BY <1>7 DEF OK, CurrHere
<1>9. Follows(s, t)
  BY <1>7, PushPullAssumption DEF Rest, Follows, Ready
<1>10. Ready(t, c)
  BY <1>7 DEF Ready
<1> QED BY <1>6, <1>8, <1>9, <1>10 DEF OK

\* pick_next_task.
LEMMA PickFine ==
    ASSUME NEW s, OK(s), NEW c \in CPU
    PROVE  Fine(s, Pick(s, c)) /\ \A r \in Pick(s, c) : Ready(r[1], c)
<1> DEFINE put == put_prev_task(s, c)
<1>1. /\ put \in Machine /\ put.pushable[c] = Movable(s, c) /\ Movable(s, c) \in SUBSET Thread
  BY PutPrev, ActiveType DEF OK, Movable
<1>2. ASSUME NEW r \in Pick(s, c)
      PROVE  OK(r[1]) /\ Follows(s, r[1]) /\ Ready(r[1], c) /\ r[2] \in Goes
  <2>1. CASE Active(s, c) # {}
    <3>1. PICK p \in Eligible(s, c) :
             /\ r[1] = dequeue_pushable_task(Switch(put, c, p), c, p)
             /\ r[2] \in {Run, [in |-> "post"]}
      BY <1>2, <2>1 DEF Pick
    <3>2. p \in s.on_rq /\ s.cpu[p] = c
      BY <2>1 DEF Eligible, Best, Active
    <3>3. PICK P \in SUBSET Thread : P = Movable(s, c) \ {p}
      BY <1>1
    <3>4. r[1] = WithPushable(Switch(put, c, p), c, P)
      BY <1>1, <3>1, <3>3 DEF dequeue_pushable_task, WithPushable, Switch, Machine
    <3>5. OK(r[1]) /\ Follows(s, r[1]) /\ Ready(r[1], c)
      BY <3>2, <3>3, <3>4, TurnOK
    <3> QED BY <3>1, <3>5 DEF Goes
  <2>2. CASE Active(s, c) = {}
    <3>1. PICK p : /\ p = Idle \/ p \in Eligible(s, c)
                   /\ r[1] = Switch(put, c, p) /\ r[2] = Run
      BY <1>2, <2>2 DEF Pick
    <3>2. p = Idle \/ (p \in s.on_rq /\ s.cpu[p] = c)
      BY <2>2, <3>1 DEF Eligible
    <3>3. Movable(s, c) = {}
      BY <2>2 DEF Movable
    <3>4. PICK P \in SUBSET Thread : P = Movable(s, c) \ {p}
      BY <1>1
    <3>5. OK(r[1]) /\ Follows(s, r[1]) /\ Ready(r[1], c)
      BY <3>1, <3>2, <3>3, <3>4, TurnOK
    <3> QED BY <3>1, <3>5 DEF Goes
  <2> QED BY <2>1, <2>2
<1> QED BY <1>2 DEF Fine

\* Doing nothing, or rescheduling, and being done.
LEMMA RunFine ==
    ASSUME NEW s, OK(s), NEW t, t = s \/ (OK(t) /\ SameThreads(s, t))
    PROVE  Fine(s, {<<t, Run>>})
<1>1. OK(t) /\ Follows(s, t)
  BY DEF SameThreads, Rest, Follows, Ready
<1> QED BY <1>1 DEF Fine, Goes

\* What is fine from a machine with as many threads at rest.
LEMMA FineFrom ==
    ASSUME NEW s, NEW t, Follows(s, t), NEW R, Fine(t, R)
    PROVE  Fine(s, R)
BY DEF Fine, Follows

\* The end of switched_to_rt marks the CPU at most.
LEMMA CheckReschedFine ==
    ASSUME NEW s, OK(s), NEW rq \in CPU, NEW p
    PROVE  /\ OK(check_resched(s, rq, p)) /\ SameThreads(s, check_resched(s, rq, p))
<1>1. OK(resched_task(s, rq)) /\ SameThreads(s, resched_task(s, rq))
  BY ReschedOK
<1>2. check_resched(s, rq, p) \in {s, resched_task(s, rq)}
  BY DEF check_resched
<1> HIDE DEF resched_task, check_resched
<1>3. CASE check_resched(s, rq, p) = s
  BY <1>3 DEF SameThreads
<1>4. CASE check_resched(s, rq, p) = resched_task(s, rq)
  BY <1>1, <1>4, Zenon
<1> QED BY <1>2, <1>3, <1>4

\* push_rt_task fails, from a machine that marked a CPU at most.
LEMMA NotPushedFine ==
    ASSUME NEW s, OK(s), NEW t, t = s \/ (OK(t) /\ SameThreads(s, t)), NEW rq \in CPU, NEW for
    PROVE  Fine(s, NotPushed(t, rq, for))
<1>1. PICK v : v = check_resched(t, rq, for)
  OBVIOUS
<1>2. OK(t) /\ Follows(s, t)
  BY DEF SameThreads, Rest, Follows, Ready
<1>3. OK(v) /\ SameThreads(t, v)
  BY <1>1, <1>2, CheckReschedFine, Zenon
<1>4. Fine(t, {<<t, Run>>}) /\ Fine(t, {<<v, Run>>})
  BY <1>2, <1>3, RunFine
<1>5. NotPushed(t, rq, for) \in {{<<t, Run>>}, {<<v, Run>>}}
  BY <1>1 DEF NotPushed
<1> QED BY <1>2, <1>4, <1>5, FineFrom

\* One try of push_rt_task, up to the lock of the other run queue.
LEMMA TryPushFine ==
    ASSUME NEW s, OK(s), NEW rq \in CPU, NEW p \in Thread, NEW for \in Thread \union {Idle}
    PROVE  Fine(s, TryPush(s, rq, p, for))
<1>1. CASE PrioOf(s, p) < PrioOf(s, s.curr[rq])
  <2>1. PICK t : t = resched_task(s, rq)
    OBVIOUS
  <2>2. TryPush(s, rq, p, for) = NotPushed(t, rq, for)
    BY <1>1, <2>1 DEF TryPush
  <2> QED BY <2>1, <2>2, ReschedOK, NotPushedFine
<1>2. CASE ~(PrioOf(s, p) < PrioOf(s, s.curr[rq]))
  <2> DEFINE to == find_lowest_rq(s, p) \ {rq}
             Push(c) == Pushing(rq, p, c, for, 1)
  <2>1. to \subseteq CPU
    BY DEF find_lowest_rq, cpupri_find, OK, Machine
  <2>2. \A c \in CPU : Push(c) \in Goes
    BY DEF Goes, RT_MAX_TRIES, Pushing
  <2>3. TryPush(s, rq, p, for) = IF to = {} THEN NotPushed(s, rq, for) ELSE {<<s, Push(c)>> : c \in to}
    BY <1>2 DEF TryPush
  <2> HIDE DEF to, Push
  <2>4. CASE to = {}
    BY <2>3, <2>4, NotPushedFine
  <2>5. CASE to # {}
    BY <2>1, <2>2, <2>3, <2>5 DEF Fine, Follows
  <2> QED BY <2>4, <2>5
<1> QED BY <1>1, <1>2

\* Those that wait to be pushed are threads that run nowhere.
LEMMA PushableType ==
    ASSUME NEW s, OK(s), NEW c \in CPU
    PROVE  pick_next_pushable_task(s, c) \subseteq Thread
BY DEF pick_next_pushable_task, Best, OK, Machine

\* push_rt_task.
LEMMA PushFine ==
    ASSUME NEW s, OK(s), NEW rq \in CPU, NEW for \in Thread \union {Idle}
    PROVE  Fine(s, push_rt_task(s, rq, for))
<1>1. CASE rq \notin s.overloaded \/ s.pushable[rq] = {}
  BY <1>1, NotPushedFine DEF push_rt_task
<1>2. CASE ~(rq \notin s.overloaded \/ s.pushable[rq] = {})
  <2>1. push_rt_task(s, rq, for) = UNION {TryPush(s, rq, p, for) : p \in pick_next_pushable_task(s, rq)}
    BY <1>2 DEF push_rt_task
  <2> DEFINE Try(p) == TryPush(s, rq, p, for)
  <2>2. \A p \in pick_next_pushable_task(s, rq) : Fine(s, Try(p))
    BY TryPushFine, PushableType
  <2> HIDE DEF Try
  <2>3. Fine(s, UNION {Try(p) : p \in pick_next_pushable_task(s, rq)})
    BY <2>2 DEF Fine
  <2> QED BY <2>1, <2>3 DEF Try
<1> QED BY <1>1, <1>2

\* A candidate that has not gone is moved.
LEMMA PushedFine ==
    ASSUME NEW s, OK(s), NEW w, ~Gone(s, w),
           w.rq \in CPU, w.task \in Thread, w.to \in CPU, w.for \in Thread \union {Idle}
    PROVE  Fine(s, Pushed(s, w))
<1>1. PICK u, t, v : /\ u = activate_task(deactivate_task(s, w.task), w.to, w.task)
                     /\ t = resched_task(u, w.to) /\ v = check_resched(t, w.rq, w.for)
  OBVIOUS
<1>2. w.task \in s.on_rq /\ \A d \in CPU : s.curr[d] # w.task
  BY PushPullAssumption DEF Gone, OK, CurrHere
<1>3. OK(u) /\ u.on_rq = s.on_rq /\ u.curr = s.curr
  BY <1>1, <1>2, MoveOK
<1>4. OK(t) /\ SameThreads(u, t)
  BY <1>1, <1>3, ReschedOK
<1>5. OK(v) /\ SameThreads(t, v)
  BY <1>1, <1>4, CheckReschedFine, Zenon
<1>6. Follows(s, t)
  BY <1>3, <1>4 DEF Rest, SameThreads, Follows, Ready
<1>7. Pushed(s, w) \in {push_rt_task(t, w.rq, Idle), {<<t, Run>>}, {<<v, Run>>}}
  BY <1>1 DEF Pushed
<1>8. Fine(t, push_rt_task(t, w.rq, Idle)) /\ Fine(t, {<<t, Run>>}) /\ Fine(t, {<<v, Run>>})
  BY <1>4, <1>5, PushFine, RunFine
<1> QED BY <1>6, <1>7, <1>8, FineFrom

\* The rest of push_rt_task, with both locks.
LEMMA PushLockedFine ==
    ASSUME NEW s, OK(s), NEW w \in Goes, w.in = "push"
    PROVE  Fine(s, PushLocked(s, w))
<1>1. /\ w \in [in : {"push"}, rq : CPU, task : Thread, to : CPU, for : Thread \union {Idle}, tries : 1 .. RT_MAX_TRIES]
      /\ w.rq \in CPU /\ w.task \in Thread /\ w.for \in Thread \union {Idle} /\ w.to \in CPU
      /\ w.tries \in 1 .. RT_MAX_TRIES
  BY DEF Goes, Run
<1> DEFINE fits == highest_curr(s, w.to) > s.prio[w.task]
           to   == IF w.tries < RT_MAX_TRIES THEN find_lowest_rq(s, w.task) \ {w.rq} ELSE {}
           Again(c) == Pushing(w.rq, w.task, c, w.for, w.tries + 1)
           Next1(p) == IF p = w.task THEN NotPushed(s, w.rq, w.for) ELSE TryPush(s, w.rq, p, w.for)
           Rest1 == IF s.pushable[w.rq] = {} THEN NotPushed(s, w.rq, w.for)
                    ELSE UNION {Next1(p) : p \in pick_next_pushable_task(s, w.rq)}
<1>2. PushLocked(s, w) = IF ~Gone(s, w) /\ fits THEN Pushed(s, w)
                         ELSE IF ~Gone(s, w) /\ to # {} THEN {<<s, Again(c)>> : c \in to}
                         ELSE Rest1
  BY DEF PushLocked
<1>3. to \subseteq CPU
  <2>1. find_lowest_rq(s, w.task) \subseteq CPU
    BY <1>1 DEF find_lowest_rq, cpupri_find, OK, Machine
  <2> QED BY <2>1, Zenon
<1>4. to # {} => \A c \in CPU : Again(c) \in Goes
  <2>1. ASSUME w.tries < RT_MAX_TRIES, NEW c \in CPU
        PROVE  Again(c) \in [in : {"push"}, rq : CPU, task : Thread, to : CPU, for : Thread \union {Idle}, tries : 1 .. RT_MAX_TRIES]
    <3>1. w.tries + 1 \in 1 .. RT_MAX_TRIES
      BY <1>1, <2>1 DEF RT_MAX_TRIES
    <3> QED BY <1>1, <3>1 DEF Pushing
  <2>2. to # {} => w.tries < RT_MAX_TRIES
    OBVIOUS
  <2> HIDE DEF to, Again
  <2> QED BY <2>1, <2>2 DEF Goes
<1>5. Fine(s, NotPushed(s, w.rq, w.for))
  BY <1>1, NotPushedFine
<1>6. \A p \in pick_next_pushable_task(s, w.rq) : Fine(s, Next1(p))
  BY <1>1, <1>5, TryPushFine, PushableType
<1> HIDE DEF fits, to, Again, Next1
<1>7. Fine(s, UNION {Next1(p) : p \in pick_next_pushable_task(s, w.rq)})
  BY <1>6 DEF Fine
<1>8. CASE ~Gone(s, w) /\ fits
  BY <1>1, <1>2, <1>8, PushedFine
<1>9. CASE ~(~Gone(s, w) /\ fits) /\ ~Gone(s, w) /\ to # {}
  BY <1>2, <1>3, <1>4, <1>9 DEF Fine, Follows
<1>10. CASE ~(~Gone(s, w) /\ fits) /\ ~(~Gone(s, w) /\ to # {})
  BY <1>2, <1>5, <1>7, <1>10
<1> QED BY <1>8, <1>9, <1>10

\* A round of pull_rt_task.
LEMMA PullOK ==
    ASSUME NEW s, OK(s), NEW rq \in CPU, NEW src \in CPU, NEW t \in Pull(s, rq, src)
    PROVE  OK(t) /\ Follows(s, t)
<1>1. CASE t = s
  BY <1>1 DEF Follows
<1>2. CASE t # s
  <2>1. PICK p \in pick_next_highest_task_rt(s, src, rq) : t = activate_task(deactivate_task(s, p), rq, p)
    BY <1>2 DEF Pull
  <2>2. p \in s.on_rq /\ s.cpu[p] = src /\ p # Idle /\ s.curr[src] # p
    BY DEF pick_next_highest_task_rt, Best, Active, rt_task
  <2>3. \A d \in CPU : s.curr[d] # p
    BY <2>2 DEF OK, CurrHere
  <2>4. OK(t) /\ t.on_rq = s.on_rq /\ t.curr = s.curr
    BY <2>1, <2>2, <2>3, MoveOK
  <2> QED BY <2>4 DEF Rest, Follows, Ready
<1> QED BY <1>1, <1>2

\* The end of prio_changed_rt and switched_to_fair.
LEMMA ChangedFine ==
    ASSUME NEW s, OK(s), NEW c \in CPU, NEW p
    PROVE  Fine(s, PrioChanged(s, c, p)) /\ Fine(s, SwitchedToFair(s, c, p))
<1>1. PICK t, u : t = resched_task(s, c) /\ u = check_preempt_curr(s, c, p)
  OBVIOUS
<1>2. Fine(s, {<<s, Run>>}) /\ Fine(s, {<<t, Run>>}) /\ Fine(s, {<<u, Run>>})
  BY <1>1, RunFine, ReschedOK, CheckPreemptOK
<1>3. PrioChanged(s, c, p) \in {{<<s, Run>>}, {<<t, Run>>}}
  BY <1>1 DEF PrioChanged
<1>4. SwitchedToFair(s, c, p) \in {{<<s, Run>>}, {<<t, Run>>}, {<<u, Run>>}}
  BY <1>1 DEF SwitchedToFair
<1> QED BY <1>2, <1>3, <1>4

\* pull_rt_task from a CPU on.
LEMMA PullingFine ==
    ASSUME NEW s, OK(s), NEW w, w.rq \in CPU, w.then \in {"pick", "prio", "fair"}, w.task \in Thread, NEW from
    PROVE  Fine(s, Pulling(s, w, from))
<1> DEFINE left == {d \in s.rto : d >= from /\ d # w.rq /\ highest_next(s, d) < highest_curr(s, w.rq)}
           Next1 == [in |-> "pull", rq |-> w.rq, src |-> Min(left), then |-> w.then, task |-> w.task]
<1>1. left \subseteq CPU
  BY DEF OK, Machine
<1>2. Pulling(s, w, from) = CASE left # {} -> {<<s, Next1>>}
                              [] left = {} /\ w.then = "pick" -> Pick(s, w.rq)
                              [] left = {} /\ w.then = "prio" -> PrioChanged(s, w.rq, w.task)
                              [] OTHER -> SwitchedToFair(s, w.rq, w.task)
  BY DEF Pulling
<1>3. ASSUME left # {}
      PROVE  Next1 \in Goes
  <2>1. Min(left) \in CPU
    BY <1>1, <1>3, LeastPrio, PushPullAssumption
  <2> HIDE DEF left
  <2> QED BY <2>1 DEF Goes
<1> HIDE DEF left, Next1
<1>4. CASE left # {}
  BY <1>2, <1>3, <1>4 DEF Fine, Follows
<1>5. CASE left = {}
  BY <1>2, <1>5, PickFine, ChangedFine
<1> QED BY <1>4, <1>5

\* pull_rt_task from the start.
LEMMA PullFine ==
    ASSUME NEW s, OK(s), NEW rq \in CPU, NEW then \in {"pick", "prio", "fair"}, NEW p \in Thread
    PROVE  Fine(s, pull_rt_task(s, rq, then, p))
<1>1. PICK w : w = [rq |-> rq, then |-> then, task |-> p]
  OBVIOUS
<1>2. w.rq \in CPU /\ w.then \in {"pick", "prio", "fair"} /\ w.task \in Thread
  BY <1>1
<1> QED BY <1>1, <1>2, PullingFine DEF pull_rt_task
\* What a CPU that pulls before it switches ends with: it pulls on, or has
\* switched to a thread of its run queue.
Picks(c, R) ==
    \A r \in R : Ready(r[1], c) \/ (r[2].in = "pull" /\ r[2].then = "pick" /\ r[2].rq = c)

\* pull_rt_task for a CPU that is about to switch.
LEMMA PullingPicks ==
    ASSUME NEW s, OK(s), NEW w, w.rq \in CPU, w.then = "pick", NEW from
    PROVE  Picks(w.rq, Pulling(s, w, from))
<1> DEFINE left == {d \in s.rto : d >= from /\ d # w.rq /\ highest_next(s, d) < highest_curr(s, w.rq)}
<1>1. Pulling(s, w, from) =
         IF left # {} THEN {<<s, [in |-> "pull", rq |-> w.rq, src |-> Min(left), then |-> w.then, task |-> w.task]>>}
         ELSE Pick(s, w.rq)
  BY DEF Pulling
<1> HIDE DEF left
<1>2. CASE left # {}
  BY <1>1, <1>2 DEF Picks
<1>3. CASE left = {}
  BY <1>1, <1>3, PickFine DEF Picks
<1> QED BY <1>2, <1>3

\* The hooks of a change of priority.
LEMMA ClassChangedFine ==
    ASSUME NEW s, OK(s), NEW c \in CPU, NEW p \in Thread, NEW oldprio
    PROVE  Fine(s, check_class_changed(s, c, p, oldprio))
<1>1. PICK t : t = resched_task(s, c)
  OBVIOUS
<1>2. /\ Fine(s, {<<s, Run>>}) /\ Fine(s, {<<t, Run>>}) /\ Fine(s, pull_rt_task(s, c, "prio", p))
      /\ Fine(s, PrioChanged(s, c, p)) /\ Fine(s, pull_rt_task(s, c, "fair", p))
      /\ Fine(s, SwitchedToFair(s, c, p)) /\ Fine(s, push_rt_task(s, c, p))
  BY <1>1, RunFine, ReschedOK, PullFine, ChangedFine, PushFine
<1>3. check_class_changed(s, c, p, oldprio) \in
         {{<<s, Run>>}, {<<t, Run>>}, pull_rt_task(s, c, "prio", p), PrioChanged(s, c, p),
          pull_rt_task(s, c, "fair", p), SwitchedToFair(s, c, p), push_rt_task(s, c, p)}
  BY <1>1 DEF check_class_changed
<1> QED BY <1>2, <1>3

-----------------------------------------------------------------------------
(* The inductive invariant, and its steps. *)

Wakes == [in : {"wake"}, task : Thread, cpu : CPU]

\* A CPU that pulls for a thread that leaves it.
Leaving(c) == pc[c].in = "pull" /\ pc[c].then = "pick" /\ pc[c].rq = c

\* Wake-ups under way are of threads that are nowhere, each of its own; a CPU
\* that is unplugged runs nothing; and any other runs a thread of its queue, but
\* where it pulls on behalf of one that sleeps.
IInv ==
    /\ OK(m)
    /\ pc \in [CPU -> Goes \union Wakes \union {[in |-> "dying"]}]
    /\ \A e \in CPU : pc[e].in = "wake" => pc[e].task \in Rest(m)
    /\ \A e, d \in CPU : pc[e].in = "wake" /\ pc[d].in = "wake" /\ e # d => pc[e].task # pc[d].task
    /\ \A e \in CPU : pc[e].in = "dying" => m.curr[e] = Idle
    /\ \A e \in CPU : Ready(m, e) \/ Leaving(e)

\* What a CPU goes on with is neither a wake-up nor its end.
LEMMA GoesIn == \A g \in Goes : g.in \notin {"wake", "dying"}
BY DEF Goes, Run

\* A CPU goes on as what it may go on with from s says.
LEMMA DoKeeps ==
    ASSUME IInv, ~Stopped, NEW e \in CPU, NEW s, NEW R, Fine(s, R), Do(e, R),
           \A d \in CPU \ {e} : Ready(m, d) => Ready(s, d),
           Ready(s, e) \/ Picks(e, R),
           \A d \in CPU \ {e} : pc[d].in = "wake" => pc[d].task \in Rest(s)
    PROVE  IInv'
<1>1. PICK r \in R : m' = r[1] /\ pc' = [pc EXCEPT ![e] = r[2]]
  BY DEF Do
<1>2. OK(m') /\ Follows(s, m') /\ r[2] \in Goes
  BY <1>1 DEF Fine
<1>3. pc'[e] = r[2] /\ \A d \in CPU \ {e} : pc'[d] = pc[d]
  BY <1>1 DEF IInv
<1>4. pc' \in [CPU -> Goes \union Wakes \union {[in |-> "dying"]}]
  BY <1>1, <1>2 DEF IInv
<1>5. \A d \in CPU : pc'[d].in = "wake" => d # e /\ pc'[d] = pc[d] /\ pc'[d].task \in Rest(m')
  BY <1>2, <1>3, GoesIn DEF Follows
<1>6. \A d \in CPU : pc'[d].in # "dying"
  BY <1>2, <1>3, GoesIn DEF Stopped
<1>7. ASSUME NEW d \in CPU
      PROVE  Ready(m', d) \/ Leaving(d)'
  <2>1. CASE d # e
    BY <1>2, <1>3, <2>1 DEF IInv, Follows, Leaving
  <2>2. CASE d = e
    <3>1. Ready(m', e) \/ (r[2].in = "pull" /\ r[2].then = "pick" /\ r[2].rq = e)
      BY <1>1, <1>2 DEF Follows, Picks
    <3> QED BY <1>3, <2>2, <3>1 DEF Leaving
  <2> QED BY <2>1, <2>2
<1>8. OK(m)'
  BY <1>2
<1>9. \A d \in CPU : pc'[d].in = "wake" => pc'[d].task \in Rest(m)'
  BY <1>5
<1>10. \A d \in CPU : Ready(m, d)' \/ Leaving(d)'
  BY <1>7
<1>11. \A d, f \in CPU : pc'[d].in = "wake" /\ pc'[f].in = "wake" /\ d # f => pc'[d].task # pc'[f].task
  BY <1>5 DEF IInv
<1> QED BY <1>4, <1>6, <1>8, <1>9, <1>10, <1>11 DEF IInv

\* A CPU that goes on from the machine as it is.
LEMMA GoOn ==
    ASSUME IInv, ~Stopped, NEW e \in CPU, NEW R, Fine(m, R), Do(e, R), Leaving(e) => Picks(e, R)
    PROVE  IInv'
<1>1. Ready(m, e) \/ Picks(e, R)
  BY DEF IInv
<1>2. \A d \in CPU \ {e} : pc[d].in = "wake" => pc[d].task \in Rest(m)
  BY DEF IInv
<1> QED BY <1>1, <1>2, DoKeeps

\* Steps that leave pc alone.
LEMMA StayKeeps ==
    ASSUME IInv, NEW s, OK(s), Follows(m, s), \A c \in CPU : m.curr[c] = Idle => s.curr[c] = Idle,
           m' = s, UNCHANGED pc
    PROVE  IInv'
<1>1. OK(m')
  OBVIOUS
<1>2. \A e \in CPU : pc[e].in = "wake" => pc[e].task \in Rest(m')
  BY DEF IInv, Follows
<1>3. \A e \in CPU : Ready(m', e) \/ Leaving(e)
  BY DEF IInv, Follows
<1>4. \A e \in CPU : pc[e].in = "dying" => m'.curr[e] = Idle
  BY DEF IInv
<1>5. \A e \in CPU : Ready(m, e)' \/ Leaving(e)'
  BY <1>3 DEF Leaving
<1>6. OK(m)' /\ \A e \in CPU : pc'[e].in = "wake" => pc'[e].task \in Rest(m)'
  BY <1>1, <1>2
<1> QED BY <1>4, <1>5, <1>6 DEF IInv

\* What a CPU does.
LEMMA DoingIn ==
    ASSUME IInv, NEW e \in CPU
    PROVE  /\ pc[e].in = "push" => pc[e] \in Goes
           /\ pc[e].in = "pull" => /\ pc[e].rq \in CPU /\ pc[e].src \in CPU /\ pc[e].task \in Thread
                                   /\ pc[e].then \in {"pick", "prio", "fair"}
           /\ pc[e].in = "wake" => pc[e].task \in Thread /\ pc[e].cpu \in CPU
<1>1. pc[e] \in Goes \union Wakes \union {[in |-> "dying"]}
  BY DEF IInv
<1>2. CASE pc[e] \in Goes
  BY <1>2 DEF Goes, Run
<1>3. CASE pc[e] \in Wakes
  BY <1>3 DEF Wakes
<1>4. CASE pc[e] = [in |-> "dying"]
  BY <1>4
<1> QED BY <1>1, <1>2, <1>3, <1>4

\* The step of a CPU that gets the locks it waited for.
LEMMA ContinueKeeps ==
    ASSUME IInv, ~Stopped, NEW e \in CPU, Continue(e)
    PROVE  IInv'
<1>1. CASE pc[e].in = "push" /\ Do(e, PushLocked(m, pc[e]))
  <2>1. Fine(m, PushLocked(m, pc[e]))
    BY <1>1, DoingIn, PushLockedFine DEF IInv
  <2>2. ~Leaving(e)
    BY <1>1 DEF Leaving
  <2> QED BY <1>1, <2>1, <2>2, GoOn
<1>2. CASE /\ pc[e].in = "pull"
           /\ Do(e, UNION {Pulling(s, pc[e], pc[e].src + 1) : s \in Pull(m, pc[e].rq, pc[e].src)})
  <2> DEFINE Then(s) == Pulling(s, pc[e], pc[e].src + 1)
             All == UNION {Then(s) : s \in Pull(m, pc[e].rq, pc[e].src)}
  <2>1. ASSUME NEW s \in Pull(m, pc[e].rq, pc[e].src)
        PROVE  Fine(m, Then(s)) /\ (Leaving(e) => Picks(e, Then(s)))
    <3>1. OK(s) /\ Follows(m, s)
      BY <1>2, DoingIn, PullOK DEF IInv
    <3>2. Fine(s, Then(s))
      BY <1>2, <3>1, DoingIn, PullingFine
    <3>3. Leaving(e) => Picks(e, Then(s))
      BY <1>2, <3>1, PullingPicks DEF Leaving
    <3> QED BY <3>1, <3>2, <3>3, FineFrom
  <2>2. Do(e, All)
    BY <1>2
  <2> HIDE DEF Then
  <2>3. \A r \in All : \E s \in Pull(m, pc[e].rq, pc[e].src) : r \in Then(s)
    OBVIOUS
  <2> HIDE DEF All
  <2>4. Fine(m, All) /\ (Leaving(e) => Picks(e, All))
    BY <2>1, <2>3 DEF Fine, Picks
  <2> QED BY <2>2, <2>4, GoOn
<1> QED BY <1>1, <1>2 DEF Continue

\* A CPU that runs is not leaving.
LEMMA RunStays ==
    ASSUME NEW e \in CPU, pc[e] = Run \/ pc[e].in \in {"post", "wake"}
    PROVE  ~Leaving(e)
BY DEF Leaving, Run

\* __schedule.
LEMMA ScheduleKeeps ==
    ASSUME IInv, ~Stopped, NEW c \in CPU, NEW sleeps \in BOOLEAN, Schedule(c, sleeps)
    PROVE  IInv'
<1>1. PICK prev, s : /\ prev = m.curr[c]
                     /\ s = IF sleeps THEN deactivate_task(m, prev) ELSE m
  OBVIOUS
<1>2. /\ pc[c] = Run /\ (sleeps => prev # Idle)
      /\ Do(c, IF rt_task(s, prev) /\ highest_curr(s, c) > s.prio[prev]
               THEN pull_rt_task(s, c, "pick", prev) ELSE Pick(s, c))
  BY <1>1 DEF Schedule
<1>3. /\ m \in Machine /\ CurrHere(m) /\ OK(m) /\ m.curr \in [CPU -> Thread \union {Idle}]
  BY DEF IInv, OK, Machine
<1>4. Ready(m, c)
  BY <1>2, RunStays DEF IInv
<1>5. /\ OK(s) /\ Rest(m) \subseteq Rest(s)
      /\ \A d \in CPU \ {c} : Ready(m, d) => Ready(s, d)
  <2>1. CASE sleeps
    <3>1. prev \in m.on_rq /\ s = deactivate_task(m, prev)
      BY <1>1, <1>2, <1>4, <2>1 DEF Ready
    <3>2. OK(s) /\ Dequeued(m, s, prev)
      BY <1>3, <3>1, DeactivateOK
    <3>3. \A d \in CPU \ {c} : m.curr[d] # prev
      BY <1>1, <1>2, <1>3, <2>1 DEF CurrHere
    <3> QED BY <3>2, <3>3 DEF Dequeued, Rest, Ready
  <2>2. CASE ~sleeps
    BY <1>1, <1>3, <2>2
  <2> QED BY <2>1, <2>2
<1>6. \A d \in CPU \ {c} : pc[d].in = "wake" => pc[d].task \in Rest(s)
  BY <1>5 DEF IInv
<1>7. CASE rt_task(s, prev) /\ highest_curr(s, c) > s.prio[prev]
  <2>1. PICK w : w = [rq |-> c, then |-> "pick", task |-> prev]
    OBVIOUS
  <2>2. w.rq = c /\ w.then = "pick" /\ w.task \in Thread
    BY <1>1, <1>3, <1>7, <2>1 DEF rt_task
  <2>3. Do(c, Pulling(s, w, 0))
    BY <1>2, <1>7, <2>1 DEF pull_rt_task
  <2>4. Fine(s, Pulling(s, w, 0)) /\ Picks(c, Pulling(s, w, 0))
    BY <1>5, <2>2, PullingFine, PullingPicks
  <2> QED BY <1>5, <1>6, <2>3, <2>4, DoKeeps
<1>8. CASE ~(rt_task(s, prev) /\ highest_curr(s, c) > s.prio[prev])
  <2>1. Do(c, Pick(s, c))
    BY <1>2, <1>8
  <2>2. Fine(s, Pick(s, c)) /\ Picks(c, Pick(s, c))
    BY <1>5, PickFine DEF Picks
  <2> QED BY <1>5, <1>6, <2>1, <2>2, DoKeeps
<1> QED BY <1>7, <1>8

\* post_schedule.
LEMMA PostScheduleKeeps ==
    ASSUME IInv, ~Stopped, NEW c \in CPU, PostSchedule(c)
    PROVE  IInv'
<1> DEFINE R == IF rt_task(m, m.curr[c]) THEN push_rt_task(m, c, Idle) ELSE {<<m, Run>>}
<1>1. Do(c, R) /\ ~Leaving(c)
  BY RunStays DEF PostSchedule
<1>2. Fine(m, push_rt_task(m, c, Idle)) /\ Fine(m, {<<m, Run>>})
  BY PushFine, RunFine DEF IInv
<1>3. Fine(m, R)
  BY <1>2
<1> HIDE DEF R
<1> QED BY <1>1, <1>3, GoOn

\* The tick and sched_yield.
LEMMA RotateKeeps ==
    ASSUME IInv, NEW c \in CPU, Rotate(c)
    PROVE  IInv'
<1>1. PICK s : s = resched_task(m, c)
  OBVIOUS
<1>2. OK(s) /\ SameThreads(m, s)
  BY <1>1, ReschedOK DEF IInv
<1>3. Follows(m, s) /\ s.curr = m.curr
  BY <1>2 DEF SameThreads, Follows, Rest, Ready
<1> QED BY <1>1, <1>2, <1>3, StayKeeps DEF Rotate

\* select_fallback_rq gives a CPU, and may widen the mask of the thread.
LEMMA FallbackIs ==
    ASSUME OK(m), NEW p \in Thread, NEW r \in select_fallback_rq(m, p)
    PROVE  r[2] \in CPU /\ (r[1] = m \/ r[1] = [m EXCEPT !.allowed[p] = CPU])
<1>1. m.online \subseteq CPU
  BY DEF OK, Machine
<1>2. CASE m.allowed[p] \cap m.online # {}
  BY <1>1, <1>2 DEF select_fallback_rq
<1>3. CASE m.allowed[p] \cap m.online = {}
  <2>1. r \in {[m EXCEPT !.allowed[p] = CPU]} \X m.online
    BY <1>3 DEF select_fallback_rq
  <2> QED BY <1>1, <2>1
<1> QED BY <1>2, <1>3

\* So does select_task_rq.
LEMMA SelectIs ==
    ASSUME OK(m), NEW p \in Thread, NEW r \in select_task_rq(m, p)
    PROVE  r[2] \in CPU /\ (r[1] = m \/ r[1] = [m EXCEPT !.allowed[p] = CPU])
<1>1. PICK c : r \in IF c \in m.allowed[p] \cap m.online THEN {<<m, c>>} ELSE select_fallback_rq(m, p)
  BY DEF select_task_rq
<1>2. m.online \subseteq CPU
  BY DEF OK, Machine
<1>3. CASE c \in m.allowed[p] \cap m.online
  BY <1>1, <1>2, <1>3
<1>4. CASE c \notin m.allowed[p] \cap m.online
  BY <1>1, <1>4, FallbackIs
<1> QED BY <1>3, <1>4

\* try_to_wake_up chooses a CPU.
LEMMA WakeKeeps ==
    ASSUME IInv, ~Stopped, NEW e \in CPU, NEW p \in Thread, Wake(e, p)
    PROVE  IInv'
<1>1. pc[e] = Run /\ e \in m.online /\ p \notin m.on_rq /\ ~Locked(p) /\ \A c \in CPU : m.curr[c] # p
  BY DEF Wake
<1>2. PICK r \in select_task_rq(m, p) :
         m' = r[1] /\ pc' = [pc EXCEPT ![e] = [in |-> "wake", task |-> p, cpu |-> r[2]]]
  BY DEF Wake
<1>3. r[2] \in CPU /\ (r[1] = m \/ r[1] = [m EXCEPT !.allowed[p] = CPU])
  BY <1>2, SelectIs DEF IInv
<1>4. OK(m') /\ m'.curr = m.curr /\ m'.on_rq = m.on_rq
  <2>1. p \in Thread \ m.on_rq /\ OK(m)
    BY <1>1 DEF IInv
  <2>2. CASE r[1] = m
    BY <1>2, <2>1, <2>2
  <2>3. CASE r[1] = [m EXCEPT !.allowed[p] = CPU]
    <3>1. PICK t : t = [m EXCEPT !.allowed[p] = CPU]
      OBVIOUS
    <3>2. OK(t) /\ t.curr = m.curr /\ t.on_rq = m.on_rq
      BY <2>1, <3>1, MaskOK
    <3> QED BY <1>2, <2>3, <3>1, <3>2
  <2> QED BY <1>3, <2>2, <2>3
<1>5. PICK w : w = [in |-> "wake", task |-> p, cpu |-> r[2]]
  OBVIOUS
<1>6. /\ w \in Wakes /\ w.in = "wake" /\ w.task = p
      /\ pc' = [pc EXCEPT ![e] = w]
  BY <1>2, <1>3, <1>5 DEF Wakes
<1>7. pc'[e] = w /\ \A d \in CPU \ {e} : pc'[d] = pc[d]
  BY <1>6 DEF IInv
<1>8. pc' \in [CPU -> Goes \union Wakes \union {[in |-> "dying"]}]
  BY <1>6 DEF IInv
<1>9. p \in Rest(m) /\ \A d \in CPU : pc[d].in = "wake" => pc[d].task # p
  BY <1>1 DEF Rest, Locked
<1>10. \A d \in CPU : pc'[d].in = "wake" => pc'[d].task \in Rest(m)
  BY <1>6, <1>7, <1>9 DEF IInv
<1>11. \A d, f \in CPU : pc'[d].in = "wake" /\ pc'[f].in = "wake" /\ d # f => pc'[d].task # pc'[f].task
  BY <1>6, <1>7, <1>9 DEF IInv
<1>12. \A d \in CPU : pc'[d].in # "dying"
  BY <1>6, <1>7 DEF Stopped
<1>13. ~Leaving(e)
  BY <1>1, RunStays
<1>14. \A d \in CPU : Ready(m, d) \/ Leaving(d)'
  BY <1>7, <1>13 DEF IInv, Leaving
<1>15. \A d \in CPU : Ready(m, d)' \/ Leaving(d)'
  BY <1>4, <1>14 DEF Ready
<1>16. OK(m)' /\ \A d \in CPU : pc'[d].in = "wake" => pc'[d].task \in Rest(m)'
  BY <1>4, <1>10 DEF Rest
<1> QED BY <1>8, <1>11, <1>12, <1>15, <1>16 DEF IInv

\* ttwu_do_activate, and the push of a thread that woke up.
LEMMA WakeLockedKeeps ==
    ASSUME IInv, ~Stopped, NEW e \in CPU, WakeLocked(e)
    PROVE  IInv'
<1>1. PICK p, c, t, s : /\ p = pc[e].task /\ c = pc[e].cpu
                        /\ t = activate_task(m, c, p) /\ s = check_preempt_curr(t, c, p)
  OBVIOUS
<1>2. pc[e].in = "wake" /\ p \in Rest(m) /\ c \in CPU
  BY <1>1, DoingIn DEF WakeLocked, IInv
<1>3. p \in Thread \ m.on_rq /\ \A d \in CPU : m.curr[d] # p
  BY <1>2 DEF Rest
<1>4. OK(t) /\ Enqueued(m, t, c, p)
  BY <1>1, <1>2, <1>3, ActivateOK DEF IInv
<1>5. OK(s) /\ SameThreads(t, s)
  BY <1>1, <1>2, <1>4, CheckPreemptOK
<1>6. Rest(m) \ {p} \subseteq Rest(s) /\ \A d \in CPU : Ready(m, d) => Ready(s, d)
  BY <1>4, <1>5 DEF Enqueued, SameThreads, Rest, Ready
<1>7. \A d \in CPU \ {e} : pc[d].in = "wake" => pc[d].task \in Rest(s)
  BY <1>1, <1>2, <1>6 DEF IInv
<1>8. PICK R : R = IF /\ rt_task(s, p) /\ s.curr[c] # p /\ c \notin s.resched /\ s.pushable[c] # {}
                      /\ Many(s, p) /\ rt_task(s, s.curr[c])
                      /\ ~Many(s, s.curr[c]) \/ PrioOf(s, s.curr[c]) <= s.prio[p]
                   THEN push_rt_task(s, c, Idle) ELSE {<<s, Run>>}
  OBVIOUS
<1>9. Do(e, R)
  BY <1>1, <1>8 DEF WakeLocked
<1>10. Fine(s, R)
  BY <1>2, <1>5, <1>8, PushFine, RunFine
<1>11. Ready(s, e)
  BY <1>2, <1>6, RunStays DEF IInv
<1> QED BY <1>6, <1>7, <1>9, <1>10, <1>11, DoKeeps

\* rq_online_rt.
LEMMA CpuUpKeeps ==
    ASSUME IInv, NEW c \in CPU, CpuUp(c)
    PROVE  IInv'
<1>1. PICK u : u = [m EXCEPT !.online = m.online \union {c},
                             !.rto = IF c \in m.overloaded THEN m.rto \union {c} ELSE m.rto]
  OBVIOUS
<1>2. m \in Machine /\ OK(m)
  BY DEF IInv, OK
<1>3. c \notin m.online /\ m' = cpupri_set(u, c) /\ UNCHANGED pc
  BY <1>1, <1>2 DEF CpuUp, Machine
<1>4. u \in Machine
  BY <1>1, <1>2 DEF Machine
<1>5. /\ u.prio = m.prio /\ u.allowed = m.allowed /\ u.cpu = m.cpu /\ u.on_rq = m.on_rq /\ u.curr = m.curr
      /\ u.online = m.online \union {c} /\ u.rto = IF c \in m.overloaded THEN m.rto \union {c} ELSE m.rto
      /\ u.pushable = m.pushable /\ u.migratory = m.migratory /\ u.overloaded = m.overloaded
      /\ u.cpupri = m.cpupri
  BY <1>1, <1>2 DEF Machine
<1>6. /\ m' \in Machine /\ SameThreads(u, m') /\ m'.pushable = u.pushable
      /\ m'.migratory = u.migratory /\ m'.overloaded = u.overloaded /\ m'.rto = u.rto
      /\ \A d \in CPU \ {c} : m'.cpupri[d] = u.cpupri[d]
      /\ m'.cpupri[c] = IF c \in u.online THEN highest_curr(u, c) ELSE u.cpupri[c]
  BY <1>3, <1>4, CpupriIs
<1>7. PICK t : t = m'
  OBVIOUS
<1>8. /\ t.prio = m.prio /\ t.allowed = m.allowed /\ t.cpu = m.cpu /\ t.on_rq = m.on_rq /\ t.curr = m.curr
      /\ t.online = m.online \union {c} /\ t.rto = u.rto
      /\ t.pushable = m.pushable /\ t.migratory = m.migratory /\ t.overloaded = m.overloaded
      /\ \A d \in CPU \ {c} : t.cpupri[d] = m.cpupri[d]
      /\ t.cpupri[c] = highest_curr(u, c)
  BY <1>5, <1>6, <1>7 DEF SameThreads
<1>9. \A d \in CPU : /\ Active(t, d) = Active(m, d) /\ Pushable(t, d) = Pushable(m, d)
                     /\ Movable(t, d) = Movable(m, d) /\ highest_curr(t, d) = highest_curr(m, d)
                     /\ highest_curr(u, d) = highest_curr(m, d)
  BY <1>5, <1>8 DEF Active, Pushable, Movable, Many, rt_task, highest_curr
<1>10. ASSUME NEW d \in CPU
       PROVE  QueueTrue(t, d)
  <2>1. QueueTrue(m, d)
    BY <1>2 DEF OK
  <2>2. CASE d # c
    BY <1>5, <1>8, <1>9, <2>1, <2>2 DEF QueueTrue, QueueKnown, Overload
  <2>3. CASE d = c
    BY <1>3, <1>5, <1>8, <1>9, <2>1, <2>3 DEF QueueTrue, QueueKnown, Overload
  <2> QED BY <2>2, <2>3
<1>11. OK(t)
  BY <1>2, <1>6, <1>7, <1>8, <1>10 DEF OK, CurrHere
<1>12. Follows(m, t)
  BY <1>8 DEF Follows, Rest, Ready
<1> QED BY <1>3, <1>7, <1>8, <1>11, <1>12, StayKeeps

\* CPU_DYING, and rq_offline_rt.
LEMMA CpuDyingKeeps ==
    ASSUME IInv, NEW c \in CPU, CpuDying(c)
    PROVE  IInv'
<1>1. PICK u : u = put_prev_task(m, c)
  OBVIOUS
<1>2. PICK t : t = [u EXCEPT !.online = u.online \ {c}, !.rto = u.rto \ {c}, !.cpupri[c] = 0,
                             !.curr[c] = Idle, !.resched = u.resched \ {c}]
  OBVIOUS
<1>3. OK(m)
  BY DEF IInv
<1>4. /\ u \in Machine /\ SameThreads(m, u) /\ u.pushable[c] = Movable(m, c)
      /\ QueueKnown(u, c) /\ \A d \in CPU \ {c} : QueueTrue(u, d)
  BY <1>1, <1>3, PutPrev
<1>5. m' = t /\ (\A e \in CPU : pc[e] = Run) /\ pc' = [pc EXCEPT ![c] = [in |-> "dying"]]
  BY <1>1, <1>2, <1>4 DEF CpuDying, Machine
<1>6. t \in Machine
  <2>1. /\ u.online \ {c} \in SUBSET CPU /\ u.rto \ {c} \in SUBSET CPU /\ u.resched \ {c} \in SUBSET CPU
        /\ 0 \in 0 .. MAX_RT_PRIO /\ Idle \in Thread \union {Idle}
    BY <1>4, PushPullAssumption DEF Machine
  <2>2. [u EXCEPT !.online = u.online \ {c}, !.rto = u.rto \ {c}, !.cpupri[c] = 0,
                  !.curr[c] = Idle, !.resched = u.resched \ {c}] \in Machine
    BY <1>4, <2>1, SetDown, Zenon
  <2> QED BY <1>2, <2>2, Zenon
<1>7. /\ t.prio = u.prio /\ t.allowed = u.allowed /\ t.cpu = u.cpu /\ t.on_rq = u.on_rq
      /\ t.curr = [u.curr EXCEPT ![c] = Idle] /\ t.online = u.online \ {c} /\ t.rto = u.rto \ {c}
      /\ t.pushable = u.pushable /\ t.migratory = u.migratory /\ t.overloaded = u.overloaded
      /\ t.cpupri = [u.cpupri EXCEPT ![c] = 0]
      /\ u.curr \in [CPU -> Thread \union {Idle}] /\ u.cpupri \in [CPU -> 0 .. MAX_RT_PRIO]
  BY <1>2, <1>4 DEF Machine
<1>8. \A d \in CPU : /\ Active(t, d) = Active(u, d) /\ Movable(t, d) = Movable(u, d)
                     /\ highest_curr(t, d) = highest_curr(u, d)
  BY <1>7 DEF Active, Movable, Many, rt_task, highest_curr
<1>9. ASSUME NEW d \in CPU
      PROVE  QueueTrue(t, d)
  <2>1. CASE d # c
    <3>1. QueueTrue(u, d) /\ t.curr[d] = u.curr[d] /\ t.cpupri[d] = u.cpupri[d]
      BY <1>4, <1>7, <2>1
    <3>2. Pushable(t, d) = Pushable(u, d)
      BY <1>7, <1>8, <3>1 DEF Pushable, Many
    <3> QED BY <1>7, <1>8, <2>1, <3>1, <3>2 DEF QueueTrue, QueueKnown, Overload
  <2>2. CASE d = c
    <3>1. Pushable(t, c) = Movable(u, c)
      BY <1>7, <1>8, PushPullAssumption DEF Pushable, Movable, Active, Many, rt_task
    <3>2. Movable(u, c) = Movable(m, c)
      BY <1>4, SameLists
    <3> QED BY <1>4, <1>7, <1>8, <2>2, <3>1, <3>2 DEF QueueTrue, QueueKnown, Overload
  <2> QED BY <2>1, <2>2
<1>10. /\ t.on_rq = m.on_rq /\ t.cpu = m.cpu /\ t.curr = [m.curr EXCEPT ![c] = Idle]
       /\ m.curr \in [CPU -> Thread \union {Idle}]
  BY <1>3, <1>4, <1>7 DEF SameThreads, OK, Machine
<1>11. OK(t)
  BY <1>3, <1>6, <1>9, <1>10 DEF OK, CurrHere
<1>12. \A d \in CPU : Ready(t, d)
  <2>1. \A d \in CPU : Ready(m, d)
    BY <1>5, RunStays DEF IInv
  <2> QED BY <1>10, <2>1 DEF Ready
<1>13. \A d \in CPU : pc'[d] = IF d = c THEN [in |-> "dying"] ELSE Run
  BY <1>5 DEF IInv
<1>14. pc' \in [CPU -> Goes \union Wakes \union {[in |-> "dying"]}]
  BY <1>5 DEF IInv
<1>15. \A d \in CPU : pc'[d].in # "wake" /\ (pc'[d].in = "dying" => t.curr[d] = Idle)
  BY <1>10, <1>13 DEF Run
<1>16. OK(m)' /\ (\A d \in CPU : Ready(m, d)') /\ m'.curr = t.curr
  BY <1>5, <1>11, <1>12
<1> QED BY <1>14, <1>15, <1>16 DEF IInv

\* migrate_tasks, one thread after the other.
LEMMA MigrateKeeps ==
    ASSUME IInv, NEW c \in CPU, migrate_tasks(c)
    PROVE  IInv'
<1>0. OK(m) /\ m \in Machine /\ pc[c].in = "dying" /\ m.curr[c] = Idle
  BY DEF IInv, OK, migrate_tasks
<1>1. CASE pc' = [pc EXCEPT ![c] = Run] /\ UNCHANGED m
  <2>1. \A d \in CPU : pc'[d] = IF d = c THEN Run ELSE pc[d]
    BY <1>1 DEF IInv
  <2>2. pc' \in [CPU -> Goes \union Wakes \union {[in |-> "dying"]}]
    BY <1>1 DEF IInv, Goes
  <2>3. \A d \in CPU : (pc'[d].in = "wake" => d # c) /\ (pc'[d].in = "dying" => d # c)
    BY <2>1 DEF Run
  <2>4. ~Leaving(c)
    BY <1>0 DEF Leaving
  <2>5. \A d \in CPU : Ready(m, d)' \/ Leaving(d)'
    BY <1>1, <2>1, <2>4 DEF IInv, Leaving
  <2> QED BY <1>1, <2>1, <2>2, <2>3, <2>5 DEF IInv
<1>2. ASSUME NEW p \in Eligible(m, c), NEW r \in select_fallback_rq(m, p), NEW mask, mask = r[1].allowed[p],
             NEW to, to = r[2],
             m' = check_preempt_curr(activate_task([deactivate_task(m, p) EXCEPT !.allowed[p] = mask], to, p), to, p),
             UNCHANGED pc
      PROVE  IInv'
  <2>1. p \in m.on_rq /\ m.cpu[p] = c /\ p \in Thread
    BY <1>0 DEF Eligible, Best, Active, Machine
  <2>2. \A d \in CPU : m.curr[d] # p
    BY <1>0, <2>1, PushPullAssumption DEF OK, CurrHere
  <2>3. mask \in SUBSET CPU /\ to \in CPU
    <3>1. to \in CPU /\ (r[1] = m \/ r[1] = [m EXCEPT !.allowed[p] = CPU])
      BY <1>0, <1>2, <2>1, FallbackIs
    <3>2. r[1].allowed[p] = m.allowed[p] \/ r[1].allowed[p] = CPU
      BY <1>0, <2>1, <3>1 DEF Machine
    <3> QED BY <1>0, <1>2, <2>1, <3>1, <3>2 DEF Machine
  <2>4. PICK t, u, v, w : /\ t = deactivate_task(m, p) /\ u = [t EXCEPT !.allowed[p] = mask]
                          /\ v = activate_task(u, to, p) /\ w = check_preempt_curr(v, to, p)
    OBVIOUS
  <2>5. OK(t) /\ Dequeued(m, t, p)
    BY <1>0, <2>1, <2>4, DeactivateOK
  <2>6. p \in Thread \ t.on_rq
    BY <2>1, <2>5 DEF Dequeued
  <2>7. OK(u) /\ u.curr = t.curr /\ u.on_rq = t.on_rq
    BY <2>3, <2>4, <2>5, <2>6, MaskOK
  <2>8. p \in Thread \ u.on_rq /\ \A d \in CPU : u.curr[d] # p
    BY <2>2, <2>5, <2>6, <2>7 DEF Dequeued
  <2>9. OK(v) /\ Enqueued(u, v, to, p)
    BY <2>3, <2>4, <2>7, <2>8, ActivateOK
  <2>10. OK(w) /\ SameThreads(v, w)
    BY <2>3, <2>4, <2>9, CheckPreemptOK
  <2>11. w.on_rq = m.on_rq /\ w.curr = m.curr
    BY <2>1, <2>5, <2>7, <2>9, <2>10 DEF Dequeued, Enqueued, SameThreads
  <2>12. Follows(m, w) /\ m' = w
    BY <1>2, <2>4, <2>11 DEF Follows, Rest, Ready
  <2> QED BY <1>2, <2>10, <2>11, <2>12, StayKeeps
<1> QED BY <1>1, <1>2 DEF migrate_tasks

\* __sched_setscheduler and rt_mutex_setprio.
LEMMA SetPrioKeeps ==
    ASSUME IInv, ~Stopped, NEW e \in CPU, NEW p \in Thread, NEW prio \in 1 .. MAX_RT_PRIO, SetPrio(e, p, prio)
    PROVE  IInv'
<1>1. PICK c, s0, s1, s :
         /\ c = m.cpu[p]
         /\ s0 = IF p \in m.on_rq THEN deactivate_task(m, p) ELSE m
         /\ s1 = [s0 EXCEPT !.prio[p] = prio]
         /\ s = IF p \in m.on_rq THEN activate_task(s1, c, p) ELSE s1
  OBVIOUS
<1>2. OK(m) /\ m \in Machine /\ c \in CPU /\ pc[e] = Run
  BY <1>1 DEF IInv, OK, Machine, SetPrio
<1>3. OK(s) /\ s.on_rq = m.on_rq /\ s.curr = m.curr
  <2>1. CASE p \in m.on_rq
    <3>1. OK(s0) /\ Dequeued(m, s0, p)
      BY <1>1, <1>2, <2>1, DeactivateOK
    <3>2. p \in Thread \ s0.on_rq
      BY <3>1 DEF Dequeued
    <3>3. OK(s1) /\ s1.curr = s0.curr /\ s1.on_rq = s0.on_rq
      BY <1>1, <3>1, <3>2, PriorityOK
    <3>4. \A d \in CPU : s1.curr[d] = p => d = c
      BY <1>1, <1>2, <3>1, <3>3, PushPullAssumption DEF Dequeued, OK, CurrHere
    <3>5. p \in Thread \ s1.on_rq /\ s = activate_task(s1, c, p)
      BY <1>1, <2>1, <3>2, <3>3
    <3>6. OK(s) /\ Enqueued(s1, s, c, p)
      BY <1>2, <3>3, <3>4, <3>5, ActivateOK
    <3> QED BY <2>1, <3>1, <3>3, <3>6 DEF Dequeued, Enqueued
  <2>2. CASE p \notin m.on_rq
    <3>1. s0 = m /\ s = s1 /\ p \in Thread \ m.on_rq
      BY <1>1, <2>2
    <3> QED BY <1>1, <1>2, <3>1, PriorityOK
  <2> QED BY <2>1, <2>2
<1>4. Follows(m, s)
  BY <1>3 DEF Follows, Rest, Ready
<1>5. Do(e, check_class_changed(s, c, p, m.prio[p]))
  BY <1>1 DEF SetPrio
<1>6. PICK S : Do(e, S) /\ Fine(s, S)
  BY <1>2, <1>3, <1>5, ClassChangedFine
<1>7. Fine(m, S)
  BY <1>4, <1>6, FineFrom
<1> QED BY <1>2, <1>6, <1>7, RunStays, GoOn

\* do_set_cpus_allowed, and set_cpus_allowed_rt for a thread that waits or runs.
LEMMA AllowedKeeps ==
    ASSUME IInv, NEW p \in Thread, NEW mask \in Masks, set_cpus_allowed_rt(p, mask)
    PROVE  IInv'
<1> DEFINE new == Cardinality(mask) > 1
<1>1. PICK c, s, P, n :
         /\ c = m.cpu[p] /\ s = [m EXCEPT !.allowed[p] = mask]
         /\ P = IF m.curr[c] = p THEN m.pushable[c]
                ELSE IF new THEN m.pushable[c] \union {p} ELSE m.pushable[c] \ {p}
         /\ n = m.migratory[c] + (IF new THEN 1 ELSE 0) - (IF Many(m, p) THEN 1 ELSE 0)
  OBVIOUS
<1>2. PICK t : t = [s EXCEPT !.pushable[c] = P, !.migratory[c] = n]
  OBVIOUS
<1>3. OK(m) /\ m \in Machine /\ c \in CPU /\ mask \in SUBSET CPU
  BY <1>1, PushPullAssumption DEF IInv, OK, Machine
<1>4. /\ s \in Machine /\ s.allowed = [m.allowed EXCEPT ![p] = mask] /\ s.prio = m.prio /\ s.cpu = m.cpu
      /\ s.on_rq = m.on_rq /\ s.curr = m.curr /\ s.online = m.online /\ s.pushable = m.pushable
      /\ s.migratory = m.migratory /\ s.overloaded = m.overloaded /\ s.rto = m.rto /\ s.cpupri = m.cpupri
      /\ m.allowed \in [Thread -> SUBSET CPU]
  <2>1. s \in Machine
    BY <1>1, <1>3, SetAllowed
  <2> QED BY <1>1, <1>3, <2>1 DEF Machine
<1>5. UNCHANGED pc /\ m' = IF /\ rt_task(m, p) /\ p \in m.on_rq
                              /\ Cardinality(mask) # Cardinality(m.allowed[p])
                           THEN update_rt_migration(t, c) ELSE s
  BY <1>1, <1>2, <1>4 DEF set_cpus_allowed_rt, Machine
<1>6. \A d \in CPU : Active(s, d) = Active(m, d) /\ Active(s, d) \subseteq Thread
  BY <1>3, <1>4 DEF Active, rt_task, Machine
<1>7. CASE ~(rt_task(m, p) /\ p \in m.on_rq /\ Cardinality(mask) # Cardinality(m.allowed[p]))
  <2>1. \A d \in CPU : \A q \in Active(s, d) : Many(s, q) <=> Many(m, q)
    BY <1>4, <1>6, <1>7 DEF Many, Active
  <2>2. \A d \in CPU : Pushable(s, d) = Pushable(m, d) /\ Movable(s, d) = Movable(m, d)
    BY <1>4, <1>6, <2>1 DEF Pushable, Movable
  <2>3. \A d \in CPU : highest_curr(s, d) = highest_curr(m, d)
    BY <1>4, <1>6, SameHighest
  <2>4. \A d \in CPU : QueueTrue(m, d)
    BY <1>3 DEF OK
  <2>5. \A d \in CPU : QueueTrue(s, d)
    BY <1>4, <1>6, <2>2, <2>3, <2>4 DEF QueueTrue, QueueKnown, Overload
  <2>6. OK(s)
    BY <1>3, <1>4, <2>5 DEF OK, CurrHere
  <2>7. Follows(m, s)
    BY <1>4 DEF Follows, Rest, Ready
  <2> QED BY <1>4, <1>5, <1>7, <2>6, <2>7, StayKeeps
<1>8. CASE rt_task(m, p) /\ p \in m.on_rq /\ Cardinality(mask) # Cardinality(m.allowed[p])
  <2>1. P \in SUBSET Thread /\ n \in Int
    BY <1>1, <1>3 DEF Machine
  <2>2. /\ t \in Machine /\ t.prio = s.prio /\ t.allowed = s.allowed /\ t.cpu = s.cpu /\ t.on_rq = s.on_rq
        /\ t.curr = s.curr /\ t.online = s.online /\ t.pushable = [s.pushable EXCEPT ![c] = P]
        /\ t.migratory = [s.migratory EXCEPT ![c] = n]
        /\ t.overloaded = s.overloaded /\ t.rto = s.rto /\ t.cpupri = s.cpupri
        /\ s.pushable \in [CPU -> SUBSET Thread] /\ s.migratory \in [CPU -> Int]
    <3>1. t \in Machine
      BY <1>2, <1>3, <1>4, <2>1, SetListed
    <3> QED BY <1>2, <1>4, <3>1 DEF Machine
  <2>3. \A d \in CPU : Active(t, d) = Active(m, d)
    BY <1>6, <1>4, <2>2 DEF Active, rt_task
  <2>4. p \in Active(m, c) /\ \A d \in CPU \ {c} : p \notin Active(m, d)
    BY <1>1, <1>8 DEF Active
  <2>5. \A d \in CPU : \A q \in Active(m, d) : q \in Thread /\ t.prio[q] = m.prio[q]
                                              /\ (q # p => t.allowed[q] = m.allowed[q])
    BY <1>4, <1>6, <2>2
  <2>6. ASSUME NEW d \in CPU \ {c}
        PROVE  QueueTrue(t, d)
    <3>1. QueueTrue(m, d) /\ t.pushable[d] = m.pushable[d] /\ t.migratory[d] = m.migratory[d]
      BY <1>3, <1>4, <2>2 DEF OK
    <3> QED BY <1>3, <1>4, <2>2, <2>3, <2>4, <2>5, <3>1, SameQueue
  <2>7. QueueTrue(m, c)
    BY <1>3 DEF OK
  <2>8. /\ Movable(t, c) = IF new THEN Movable(m, c) \union {p} ELSE Movable(m, c) \ {p}
        /\ p \in Movable(m, c) <=> Many(m, p)
    <3>1. Many(t, p) <=> new
      BY <1>4, <2>2 DEF Many
    <3>2. \A q \in Active(m, c) : q # p => (Many(t, q) <=> Many(m, q))
      BY <1>3, <2>5 DEF Many
    <3> HIDE DEF new
    <3> QED BY <1>3, <2>3, <2>4, <3>1, <3>2 DEF Movable
  <2>9. t.migratory[c] = Cardinality(Movable(t, c))
    <3>1. Movable(m, c) \in SUBSET Thread /\ m.migratory[c] = Cardinality(Movable(m, c))
      BY <1>3, <2>7, ActiveType DEF Movable, QueueTrue, QueueKnown
    <3>2. Cardinality(Movable(m, c)) \in Nat
      BY <1>3, <3>1, ActiveType
    <3>3. ~Many(m, p) => Cardinality(Movable(m, c) \union {p}) = Cardinality(Movable(m, c)) + 1
      BY <1>3, <2>8, <3>1, ActiveType
    <3>4. Many(m, p) => Cardinality(Movable(m, c) \ {p}) = Cardinality(Movable(m, c)) - 1
      BY <1>3, <2>8, <3>1, ActiveType
    <3>5. /\ Many(m, p) => Movable(m, c) \union {p} = Movable(m, c)
          /\ ~Many(m, p) => Movable(m, c) \ {p} = Movable(m, c)
      BY <2>8
    <3>6. t.migratory[c] = n
      BY <1>3, <2>2
    <3>7. n = m.migratory[c] + (IF new THEN 1 ELSE 0) - (IF Many(m, p) THEN 1 ELSE 0)
      BY <1>1
    <3> HIDE DEF new
    <3>8. CASE new /\ Many(m, p)
      <4>1. n = m.migratory[c]
        BY <2>7, <3>1, <3>2, <3>7, <3>8
      <4>2. Movable(t, c) = Movable(m, c)
        BY <2>8, <3>5, <3>8
      <4> QED BY <3>1, <3>6, <4>1, <4>2
    <3>9. CASE new /\ ~Many(m, p)
      <4>1. n = m.migratory[c] + 1 - 0
        BY <3>7, <3>9
      <4>2. Cardinality(Movable(t, c)) = Cardinality(Movable(m, c)) + 1 - 0
        BY <2>8, <3>2, <3>3, <3>4, <3>5, <3>9
      <4> QED BY <3>1, <3>6, <4>1, <4>2
    <3>10. CASE ~new /\ Many(m, p)
      <4>1. n = m.migratory[c] + 0 - 1
        BY <3>7, <3>10
      <4>2. Cardinality(Movable(t, c)) = Cardinality(Movable(m, c)) + 0 - 1
        BY <2>8, <3>2, <3>3, <3>4, <3>5, <3>10
      <4> QED BY <3>1, <3>6, <4>1, <4>2
    <3>11. CASE ~new /\ ~Many(m, p)
      <4>1. n = m.migratory[c]
        BY <2>7, <3>1, <3>2, <3>7, <3>11
      <4>2. Movable(t, c) = Movable(m, c)
        BY <2>8, <3>5, <3>11
      <4> QED BY <3>1, <3>6, <4>1, <4>2
    <3> QED BY <3>8, <3>9, <3>10, <3>11
  <2>10. t.pushable[c] = Pushable(t, c)
    <3>1. m.pushable[c] = Pushable(m, c) /\ t.pushable[c] = P
      BY <1>3, <2>2, <2>7 DEF QueueTrue
    <3>2. Pushable(t, c) = Movable(t, c) \ {m.curr[c]} /\ Pushable(m, c) = Movable(m, c) \ {m.curr[c]}
      BY <1>4, <2>2 DEF Pushable, Movable
    <3>3. P = IF m.curr[c] = p THEN m.pushable[c]
              ELSE IF new THEN m.pushable[c] \union {p} ELSE m.pushable[c] \ {p}
      BY <1>1
    <3> HIDE DEF new
    <3>4. CASE new
      BY <2>8, <3>1, <3>2, <3>3, <3>4
    <3>5. CASE ~new
      BY <2>8, <3>1, <3>2, <3>3, <3>5
    <3> QED BY <3>4, <3>5
  <2>11. highest_curr(t, c) = highest_curr(m, c)
    BY <1>3, <1>4, <2>2, <2>3, SameHighest
  <2>12. PICK v : v = update_rt_migration(t, c)
    OBVIOUS
  <2>20. t \in Machine
    BY <2>2
  <2>13. /\ v \in Machine /\ SameThreads(t, v) /\ v.pushable = t.pushable
         /\ v.migratory = t.migratory /\ v.cpupri = t.cpupri
         /\ \A d \in CPU \ {c} : (d \in v.overloaded <=> d \in t.overloaded) /\ (d \in v.rto <=> d \in t.rto)
         /\ c \in v.overloaded <=> Overload(t, c)
         /\ (c \in t.rto <=> c \in t.online /\ c \in t.overloaded) =>
               (c \in v.rto <=> c \in v.online /\ c \in v.overloaded)
    BY <1>3, <2>12, <2>20, MigrationIs
  <2>14. \A d \in CPU : /\ Active(v, d) = Active(t, d) /\ Pushable(v, d) = Pushable(t, d)
                        /\ Movable(v, d) = Movable(t, d) /\ highest_curr(v, d) = highest_curr(t, d)
    BY <2>13, SameLists
  <2>15. \A d \in CPU \ {c} : QueueTrue(v, d)
    BY <2>6, <2>13, <2>14 DEF QueueTrue, QueueKnown, Overload, SameThreads
  <2>16. QueueTrue(v, c)
    BY <1>3, <1>4, <2>2, <2>7, <2>9, <2>10, <2>11, <2>13, <2>14 DEF QueueTrue, QueueKnown, Overload, SameThreads
  <2>17. v.cpu = m.cpu /\ v.on_rq = m.on_rq /\ v.curr = m.curr
    BY <1>4, <2>2, <2>13 DEF SameThreads
  <2>18. OK(v)
    BY <1>3, <2>13, <2>15, <2>16, <2>17 DEF OK, CurrHere
  <2>19. Follows(m, v) /\ m' = v
    BY <1>5, <1>8, <2>12, <2>17 DEF Follows, Rest, Ready
  <2> QED BY <1>5, <2>17, <2>18, <2>19, StayKeeps
<1> QED BY <1>7, <1>8

\* Every step of the machine.
LEMMA NextKeeps == IInv /\ [Next]_vars => IInv'
<1> SUFFICES ASSUME IInv, [Next]_vars
             PROVE  IInv'
  OBVIOUS
<1>1. ASSUME ~Stopped, NEW c \in CPU,
             \/ Schedule(c, TRUE) \/ Schedule(c, FALSE) \/ PostSchedule(c)
             \/ Continue(c) \/ WakeLocked(c) \/ Rotate(c)
      PROVE  IInv'
  <2>1. \A sleeps \in BOOLEAN : Schedule(c, sleeps) => IInv'
    BY <1>1, ScheduleKeeps
  <2> QED BY <1>1, <2>1, PostScheduleKeeps, ContinueKeeps, WakeLockedKeeps, RotateKeeps
<1>2. ASSUME ~Stopped, NEW e \in CPU, NEW p \in Thread, Wake(e, p)
      PROVE  IInv'
  BY <1>2, WakeKeeps
<1>3. ASSUME ~Stopped, NEW e \in CPU, NEW p \in Thread, NEW prio \in 1 .. MAX_RT_PRIO, SetPrio(e, p, prio)
      PROVE  IInv'
  BY <1>3, SetPrioKeeps
<1>4. ASSUME NEW p \in Thread, NEW mask \in Masks, set_cpus_allowed_rt(p, mask)
      PROVE  IInv'
  BY <1>4, AllowedKeeps
<1>5. ASSUME NEW c \in CPU, CpuDying(c) \/ CpuUp(c) \/ migrate_tasks(c)
      PROVE  IInv'
  BY <1>5, CpuDyingKeeps, CpuUpKeeps, MigrateKeeps
<1>6. CASE UNCHANGED vars
  BY <1>6 DEF vars, IInv, Leaving
<1> QED BY <1>1, <1>2, <1>3, <1>4, <1>5, <1>6 DEF Next

\* Nothing is queued at the start.
LEMMA InitKeeps == Init => IInv
<1> SUFFICES ASSUME Init
             PROVE  IInv
  OBVIOUS
<1>1. PICK f \in [Thread -> 1 .. MAX_RT_PRIO], a \in [Thread -> Masks], c \in [Thread -> CPU] :
         m = [prio |-> f, allowed |-> a, cpu |-> c, on_rq |-> {},
              curr |-> [d \in CPU |-> Idle], resched |-> {}, online |-> CPU,
              pushable |-> [d \in CPU |-> {}], migratory |-> [d \in CPU |-> 0],
              overloaded |-> {}, rto |-> {}, cpupri |-> [d \in CPU |-> MAX_RT_PRIO]]
  BY DEF Init
<1>2. pc = [e \in CPU |-> Run]
  BY DEF Init
<1>3. /\ m.on_rq = {} /\ m.curr = [d \in CPU |-> Idle] /\ m.online = CPU /\ m.pushable = [d \in CPU |-> {}]
      /\ m.migratory = [d \in CPU |-> 0] /\ m.overloaded = {} /\ m.rto = {}
      /\ m.cpupri = [d \in CPU |-> MAX_RT_PRIO]
  BY <1>1
<1>4. m \in Machine
  <2>1. \A p \in Thread : a[p] \in SUBSET CPU
    BY PushPullAssumption
  <2>2. a \in [Thread -> SUBSET CPU]
    BY <2>1
  <2>3. MAX_RT_PRIO \in 0 .. MAX_RT_PRIO
    BY PushPullAssumption
  <2> QED BY <1>1, <2>2, <2>3 DEF Machine
<1>5. \A d \in CPU : Active(m, d) = {} /\ Movable(m, d) = {} /\ Pushable(m, d) = {}
  BY <1>3 DEF Active, Movable, Pushable
<1>6. \A d \in CPU : highest_curr(m, d) = MAX_RT_PRIO
  <2> SUFFICES ASSUME NEW d \in CPU
               PROVE  highest_curr(m, d) = MAX_RT_PRIO
    OBVIOUS
  <2>1. highest_curr(m, d) = Min({MAX_RT_PRIO})
    <3>1. {m.prio[p] : p \in Active(m, d)} \union {MAX_RT_PRIO} = {MAX_RT_PRIO}
      BY <1>5
    <3> QED BY <3>1 DEF highest_curr
  <2>2. Min({MAX_RT_PRIO}) \in {MAX_RT_PRIO}
    BY LeastPrio, PushPullAssumption
  <2> QED BY <2>1, <2>2
<1>7. \A d \in CPU : QueueTrue(m, d)
  <2> SUFFICES ASSUME NEW d \in CPU
               PROVE  QueueTrue(m, d)
    OBVIOUS
  <2>1. /\ m.pushable[d] = {} /\ m.migratory[d] = 0 /\ d \notin m.overloaded /\ d \notin m.rto /\ d \in m.online
        /\ m.cpupri[d] = MAX_RT_PRIO
    BY <1>3
  <2>2. Cardinality(Movable(m, d)) = 0
    BY <1>5, FS_EmptySet
  <2> QED BY <1>5, <1>6, <2>1, <2>2 DEF QueueTrue, QueueKnown, Overload
<1>8. OK(m)
  BY <1>3, <1>4, <1>7 DEF OK, CurrHere
<1>9. \A d \in CPU : Ready(m, d) /\ pc[d] = Run
  BY <1>2, <1>3 DEF Ready
<1>10. pc \in [CPU -> Goes \union Wakes \union {[in |-> "dying"]}]
  BY <1>2 DEF Goes
<1> QED BY <1>8, <1>9, <1>10 DEF IInv, Run

-----------------------------------------------------------------------------
\* The invariant holds of every reachable machine.
LEMMA Inductive == Spec => []IInv
<1>1. Init => IInv
  BY InitKeeps
<1>2. IInv /\ [Next]_vars => IInv'
  BY NextKeeps
<1> QED BY <1>1, <1>2, PTL DEF Spec

\* The assertions of pick_next_pushable_task and push_rt_task hold, whatever
\* happened while double_lock_balance had dropped the lock: who is on a pushable
\* list waits on that CPU, is of the real-time class and may go elsewhere, and
\* no such thread is missing.
THEOREM PushSafe == Spec => []NoPushBug
<1>1. IInv => NoPushBug
  BY DEF IInv, OK, QueueTrue, Pushable, NoPushBug
<1> QED BY <1>1, Inductive, PTL

\* What the root domain says of a CPU, its bit in rto_mask, its migratory threads
\* and its priority in cpupri, is true of its run queue between any two steps,
\* across hotplug and changes of masks and priorities.
THEOREM DomainTrue == Spec => []RootDomainTrue
<1>1. IInv => RootDomainTrue
  BY DEF IInv, OK, QueueTrue, QueueKnown, Overload, Movable, RootDomainTrue
<1> QED BY <1>1, Inductive, PTL
=============================================================================
