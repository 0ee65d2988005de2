------------------------------ MODULE SchedProofs ------------------------------
(* The scheduler core on one CPU: what holds of every number of threads and  *)
(* priorities, of both builds and every set of operations.                   *)
(*                                                                           *)
(* Part 1 has the operations on the run list and the run queue, part 2 the   *)
(* run queue's agreement with the threads, part 3 what a thread's policy,    *)
(* class, priority and slice say of each other, and the order in which       *)
(* threads get the CPU.                                                      *)
EXTENDS SchedRequests, DataProofs

-----------------------------------------------------------------------------
(* Part 1: the run list and the run queue.                                   *)
(*                                                                           *)
(* The operations on the run list keep ArrayOK, and those of SchedCore on    *)
(* the run queue keep it consistent with the threads: enqueue_task,          *)
(* dequeue_task, the change in between that core.c makes of them, and the    *)
(* hooks of the weighted round-robin class of either build.                  *)

-----------------------------------------------------------------------------
(* The run list: one list without repetitions for each level. *)

At(W, idx, i) == {p \in W : idx[p] = i}

\* The tasks of a level are tasks.
LEMMA AtType ==
    ASSUME NEW W \in SUBSET Task, NEW idx, NEW i
    PROVE  At(W, idx, i) \subseteq Task
BY DEF At

\* ArrayOK, queue by queue.
LEMMA ArrayAsLists ==
    ASSUME NEW a, NEW W \in SUBSET Task, NEW idx \in [Task -> Prio]
    PROVE  ArrayOK(a, W, idx) <=>
             /\ a \in wrr_rq
             /\ \A i \in Prio : Lists(a.queue[i], At(W, idx, i))
             /\ BitmapExact(a)
             /\ a.wrr_nr_running = Cardinality(W)
<1>1. ASSUME ArrayOK(a, W, idx), NEW i \in Prio
      PROVE  Lists(a.queue[i], At(W, idx, i))
  <2>1. a.queue[i] \in Seq(Task)
    BY <1>1 DEF ArrayOK, wrr_rq
  <2>2. \A k \in 1 .. Len(a.queue[i]) : a.queue[i][k] \in At(W, idx, i)
    BY <1>1 DEF ArrayOK, QueuesHold, At
  <2>3. \A j, k \in 1 .. Len(a.queue[i]) : a.queue[i][j] = a.queue[i][k] => j = k
    BY <1>1 DEF ArrayOK, NoDuplicates
  <2>4. \A x \in At(W, idx, i) : \E k \in 1 .. Len(a.queue[i]) : a.queue[i][k] = x
    BY <1>1 DEF ArrayOK, QueuesHold, At
  <2> QED BY <2>1, <2>2, <2>3, <2>4, ListsElements
<1>2. ASSUME a \in wrr_rq, \A i \in Prio : Lists(a.queue[i], At(W, idx, i))
      PROVE  QueuesHold(a, W, idx) /\ NoDuplicates(a)
  <2>1. ASSUME NEW i \in Prio, NEW k \in 1 .. Len(a.queue[i])
        PROVE  a.queue[i][k] \in W /\ idx[a.queue[i][k]] = i
    <3>1. a.queue[i][k] \in At(W, idx, i)
      <4>1. a.queue[i] \in Seq(At(W, idx, i))
        BY <1>2 DEF Lists
      <4> QED BY <4>1, ElementOfSeq
    <3> QED BY <3>1 DEF At
  <2>2. ASSUME NEW p \in W
        PROVE  \E k \in 1 .. Len(a.queue[idx[p]]) : a.queue[idx[p]][k] = p
    <3>1. idx[p] \in Prio /\ p \in At(W, idx, idx[p])
      BY DEF At
    <3> QED BY <1>2, <3>1 DEF Lists
  <2>3. NoDuplicates(a)
    BY <1>2 DEF Lists, NoDuplicates
  <2> QED BY <2>1, <2>2, <2>3 DEF QueuesHold
<1> QED BY <1>1, <1>2 DEF ArrayOK

\* Only the indices of the tasks in the array matter.
LEMMA SameIndices ==
    ASSUME NEW a, NEW W \in SUBSET Task,
           NEW idx \in [Task -> Prio], NEW idx2 \in [Task -> Prio],
           ArrayOK(a, W, idx), \A q \in W : idx2[q] = idx[q]
    PROVE  ArrayOK(a, W, idx2)
BY DEF ArrayOK, QueuesHold

\* Counting sets of tasks (wrr_nr_running, nr_running).
LEMMA SubsetsCount ==
    ASSUME NEW W \in SUBSET Task
    PROVE  /\ IsFiniteSet(W) /\ Cardinality(W) \in Nat
           /\ W = {} <=> Cardinality(W) = 0
           /\ \A p \in Task \ W : Cardinality(W \union {p}) = Cardinality(W) + 1
           /\ \A p \in W : Cardinality(W \ {p}) = Cardinality(W) - 1
<1>1. IsFiniteSet(W)
  BY TaskAssumption, FS_Subset
<1>2. /\ Cardinality(W) \in Nat
      /\ W = {} <=> Cardinality(W) = 0
  BY <1>1, FS_CardinalityType, FS_EmptySet
<1>3. \A p \in Task \ W : Cardinality(W \union {p}) = Cardinality(W) + 1
  BY <1>1, FS_AddElement
<1>4. \A p \in W : Cardinality(W \ {p}) = Cardinality(W) - 1
  BY <1>1, FS_RemoveElement
<1> QED BY <1>1, <1>2, <1>3, <1>4

\* init_wrr_rq makes an empty array.
LEMMA InitOK ==
    ASSUME NEW idx \in [Task -> Prio]
    PROVE  ArrayOK(init_wrr_rq, {}, idx)
<1>1. init_wrr_rq \in wrr_rq
  BY NPrioAssumption DEF init_wrr_rq, wrr_rq, Prio
<1>2. Cardinality({}) = 0
  BY FS_EmptySet
<1> QED BY <1>1, <1>2 DEF ArrayOK, init_wrr_rq, QueuesHold, NoDuplicates, BitmapExact

\* enqueue_wrr_entity puts p at the level it is given.
LEMMA EnqueueOK ==
    ASSUME NEW a, NEW W \in SUBSET Task, NEW p \in Task \ W,
           NEW idx \in [Task -> Prio], NEW idx2 \in [Task -> Prio],
           ArrayOK(a, W, idx), \A q \in W : idx2[q] = idx[q], NEW head
    PROVE  ArrayOK(enqueue_wrr_entity(a, p, idx2[p], head), W \union {p}, idx2)
<1> DEFINE i == idx2[p]
           b == enqueue_wrr_entity(a, p, i, head)
           V == W \union {p}
<1>1. /\ a \in wrr_rq /\ BitmapExact(a) /\ a.wrr_nr_running = Cardinality(W)
      /\ \A j \in Prio : Lists(a.queue[j], At(W, idx, j))
  BY ArrayAsLists
<1>2. i \in Prio /\ i \in 0 .. NPrio
  BY NPrioAssumption DEF Prio
<1>3. /\ b.queue = [a.queue EXCEPT ![i] = list_insert(a.queue[i], p, head)]
      /\ b.bitmap = a.bitmap \union {i}
      /\ b.wrr_nr_running = a.wrr_nr_running + 1
  BY DEF enqueue_wrr_entity
<1>4. \A j \in Prio : b.queue[j] = IF j = i THEN list_insert(a.queue[i], p, head)
                                           ELSE a.queue[j]
  BY <1>1, <1>3 DEF wrr_rq
<1>5. At(V, idx2, i) = At(W, idx, i) \union {p}
  BY DEF At
<1>6. ASSUME NEW j \in Prio PROVE Lists(b.queue[j], At(V, idx2, j))
  <2>1. CASE j = i
    <3>1. Lists(a.queue[i], At(W, idx, i)) /\ p \notin At(W, idx, i)
      BY <1>1, <1>2 DEF At
    <3>2. Lists(list_insert(a.queue[i], p, head), At(W, idx, i) \union {p})
      BY <3>1, InsertLists
    <3> QED BY <1>4, <1>5, <2>1, <3>2
  <2>2. CASE j # i
    <3>1. At(V, idx2, j) = At(W, idx, j)
      BY <2>2 DEF At
    <3> QED BY <1>1, <1>4, <2>2, <3>1
  <2> QED BY <2>1, <2>2
<1>7. b \in wrr_rq
  <2>1. b.queue \in [Prio -> Seq(Task)]
    <3>1. \A j \in Prio : b.queue[j] \in Seq(Task)
      BY <1>6, AtType, ListsWithin
    <3> QED BY <1>1, <1>3, <3>1 DEF wrr_rq
  <2>2. b.bitmap \in SUBSET (0 .. NPrio) /\ b.wrr_nr_running \in Nat
    BY <1>1, <1>2, <1>3 DEF wrr_rq
  <2> QED BY <2>1, <2>2 DEF enqueue_wrr_entity, wrr_rq
<1>8. BitmapExact(b)
  <2>1. b.queue[i] # <<>>
    BY <1>2, <1>5, <1>6, EmptyLists
  <2> QED BY <1>1, <1>2, <1>3, <1>4, <2>1 DEF BitmapExact
<1>9. b.wrr_nr_running = Cardinality(V)
  BY <1>1, <1>3, SubsetsCount
<1> HIDE DEF b, V
<1>10. ArrayOK(b, V, idx2)
  BY <1>6, <1>7, <1>8, <1>9, ArrayAsLists DEF V
<1> QED BY <1>10 DEF b, V

\* dequeue_wrr_entity takes p out where it is.
LEMMA DequeueOK ==
    ASSUME NEW a, NEW W \in SUBSET Task, NEW p \in W, NEW idx \in [Task -> Prio],
           ArrayOK(a, W, idx)
    PROVE  ArrayOK(dequeue_wrr_entity(a, p, idx[p]), W \ {p}, idx)
<1> DEFINE i == idx[p]
           q == list_del_init(a.queue[i], p)
           b == dequeue_wrr_entity(a, p, i)
           V == W \ {p}
<1>1. /\ a \in wrr_rq /\ BitmapExact(a) /\ a.wrr_nr_running = Cardinality(W)
      /\ \A j \in Prio : Lists(a.queue[j], At(W, idx, j))
  BY ArrayAsLists
<1>2. i \in Prio /\ i \in 0 .. NPrio /\ i # NPrio
  BY NPrioAssumption DEF Prio
<1>3. /\ b.queue = [a.queue EXCEPT ![i] = q]
      /\ b.bitmap = IF q = <<>> THEN a.bitmap \ {i} ELSE a.bitmap
      /\ b.wrr_nr_running = a.wrr_nr_running - 1
  BY DEF dequeue_wrr_entity
<1>4. \A j \in Prio : b.queue[j] = IF j = i THEN q ELSE a.queue[j]
  BY <1>1, <1>3 DEF wrr_rq
<1>5. ASSUME NEW j \in Prio PROVE Lists(b.queue[j], At(V, idx, j))
  <2>1. CASE j = i
    <3>1. Lists(a.queue[i], At(W, idx, i)) /\ p \in At(W, idx, i)
      BY <1>1, <1>2 DEF At
    <3>2. Lists(q, At(W, idx, i) \ {p})
      BY <3>1, DeleteLists
    <3>3. At(V, idx, i) = At(W, idx, i) \ {p}
      BY DEF At
    <3> QED BY <1>4, <2>1, <3>2, <3>3
  <2>2. CASE j # i
    <3>1. At(V, idx, j) = At(W, idx, j)
      BY <2>2 DEF At
    <3> QED BY <1>1, <1>4, <2>2, <3>1
  <2> QED BY <2>1, <2>2
<1>6. Cardinality(W) \in Nat \ {0} /\ Cardinality(V) = Cardinality(W) - 1
  BY SubsetsCount
<1>7. b \in wrr_rq
  <2>1. b.queue \in [Prio -> Seq(Task)]
    <3>1. \A j \in Prio : b.queue[j] \in Seq(Task)
      BY <1>5, AtType, ListsWithin
    <3> QED BY <1>1, <1>3, <3>1 DEF wrr_rq
  <2>2. b.bitmap \in SUBSET (0 .. NPrio) /\ b.wrr_nr_running \in Nat
    BY <1>1, <1>3, <1>6 DEF wrr_rq
  <2> QED BY <2>1, <2>2 DEF dequeue_wrr_entity, wrr_rq
<1>8. BitmapExact(b)
  <2> HIDE DEF q
  <2>1. b.queue[i] = q
    BY <1>2, <1>4
  <2>2. CASE q = <<>>
    BY <1>1, <1>2, <1>3, <1>4, <2>1, <2>2 DEF BitmapExact
  <2>3. CASE q # <<>>
    <3>1. a.queue[i] # <<>>
      <4>1. Lists(a.queue[i], At(W, idx, i)) /\ p \in At(W, idx, i)
        BY <1>1, <1>2 DEF At
      <4> QED BY <4>1, EmptyLists
    <3> QED BY <1>1, <1>2, <1>3, <1>4, <2>1, <2>3, <3>1 DEF BitmapExact
  <2> QED BY <2>2, <2>3
<1>9. b.wrr_nr_running = Cardinality(V)
  BY <1>1, <1>3, <1>6
<1> HIDE DEF b, V
<1>10. ArrayOK(b, V, idx)
  BY <1>5, <1>7, <1>8, <1>9, ArrayAsLists DEF V
<1> QED BY <1>10 DEF b, V

\* A requeue within the level changes only the order.
LEMMA MoveInOK ==
    ASSUME NEW a, NEW W \in SUBSET Task, NEW p \in W, NEW idx \in [Task -> Prio],
           ArrayOK(a, W, idx), NEW head
    PROVE  ArrayOK(move_in_queue(a, p, idx[p], head), W, idx)
<1> DEFINE i == idx[p]
           q == list_move(a.queue[i], p, head)
           b == move_in_queue(a, p, i, head)
<1>1. /\ a \in wrr_rq /\ BitmapExact(a) /\ a.wrr_nr_running = Cardinality(W)
      /\ \A j \in Prio : Lists(a.queue[j], At(W, idx, j))
  BY ArrayAsLists
<1>2. i \in Prio
  OBVIOUS
<1>3. b = [a EXCEPT !.queue = [a.queue EXCEPT ![i] = q]]
  BY <1>1 DEF move_in_queue, wrr_rq
<1>4. \A j \in Prio : b.queue[j] = IF j = i THEN q ELSE a.queue[j]
  BY <1>1, <1>3 DEF wrr_rq
<1>5. Lists(q, At(W, idx, i)) /\ q # <<>> /\ a.queue[i] # <<>>
  <2>1. Lists(a.queue[i], At(W, idx, i)) /\ p \in At(W, idx, i)
    BY <1>1, <1>2 DEF At
  <2>2. Lists(list_del_init(a.queue[i], p), At(W, idx, i) \ {p})
    BY <2>1, DeleteLists
  <2>3. Lists(q, (At(W, idx, i) \ {p}) \union {p})
    BY <2>2, InsertLists DEF list_move
  <2>4. (At(W, idx, i) \ {p}) \union {p} = At(W, idx, i)
    BY <2>1
  <2> QED BY <2>1, <2>3, <2>4, EmptyLists
<1> HIDE DEF q, b
<1>6. \A j \in Prio : Lists(b.queue[j], At(W, idx, j))
  BY <1>1, <1>4, <1>5
<1>7. b \in wrr_rq
  <2>1. q \in Seq(Task)
    BY <1>5, AtType, ListsWithin
  <2> QED BY <1>1, <1>3, <2>1 DEF wrr_rq
<1>8. BitmapExact(b)
  BY <1>1, <1>2, <1>3, <1>4, <1>5 DEF BitmapExact, wrr_rq
<1>9. b.wrr_nr_running = Cardinality(W)
  BY <1>1, <1>3 DEF wrr_rq
<1> QED BY <1>6, <1>7, <1>8, <1>9, ArrayAsLists DEF b

\* A jump to another level takes the bits of both levels along.
LEMMA MoveToOK ==
    ASSUME NEW a, NEW W \in SUBSET Task, NEW p \in W, NEW idx \in [Task -> Prio],
           NEW idx2 \in [Task -> Prio], ArrayOK(a, W, idx),
           idx2[p] # idx[p], \A r \in W \ {p} : idx2[r] = idx[r], NEW head
    PROVE  ArrayOK(move_to_queue(a, p, idx[p], idx2[p], head), W, idx2)
<1> DEFINE i == idx[p]
           j == idx2[p]
           q == list_del_init(a.queue[i], p)
           s == list_insert(a.queue[j], p, head)
           b == move_to_queue(a, p, i, j, head)
<1>1. /\ a \in wrr_rq /\ BitmapExact(a) /\ a.wrr_nr_running = Cardinality(W)
      /\ \A k \in Prio : Lists(a.queue[k], At(W, idx, k))
  BY ArrayAsLists
<1>2. /\ i \in Prio /\ j \in Prio /\ i # j /\ i # NPrio
      /\ i \in 0 .. NPrio /\ j \in 0 .. NPrio
  BY NPrioAssumption DEF Prio
<1>3. /\ b.queue = [a.queue EXCEPT ![i] = q, ![j] = s]
      /\ b.bitmap = (IF q = <<>> THEN a.bitmap \ {i} ELSE a.bitmap) \union {j}
      /\ b.wrr_nr_running = a.wrr_nr_running
      /\ b = [queue |-> b.queue, bitmap |-> b.bitmap,
              wrr_nr_running |-> b.wrr_nr_running]
  BY <1>1 DEF move_to_queue, wrr_rq
<1>4. \A k \in Prio : b.queue[k] = IF k = i THEN q ELSE IF k = j THEN s ELSE a.queue[k]
  BY <1>1, <1>2, <1>3 DEF wrr_rq
<1>5. Lists(a.queue[i], At(W, idx, i)) /\ p \in At(W, idx, i)
  BY <1>1, <1>2 DEF At
<1>6. Lists(q, At(W, idx2, i))
  <2>1. At(W, idx2, i) = At(W, idx, i) \ {p}
    BY <1>2 DEF At
  <2> QED BY <1>5, <2>1, DeleteLists
<1>7. Lists(s, At(W, idx2, j))
  <2>1. Lists(a.queue[j], At(W, idx, j)) /\ p \notin At(W, idx, j)
    BY <1>1, <1>2 DEF At
  <2>2. At(W, idx2, j) = At(W, idx, j) \union {p}
    BY <1>2 DEF At
  <2> QED BY <2>1, <2>2, InsertLists
<1>8. \A k \in Prio \ {i, j} : At(W, idx2, k) = At(W, idx, k)
  BY DEF At
<1>9. s # <<>> /\ a.queue[i] # <<>>
  <2>1. p \in At(W, idx2, j)
    BY DEF At
  <2> QED BY <1>5, <1>7, <2>1, EmptyLists
<1> HIDE DEF b, q, s
<1>10. ASSUME NEW k \in Prio PROVE Lists(b.queue[k], At(W, idx2, k))
  BY <1>1, <1>4, <1>6, <1>7, <1>8
<1>11. b \in wrr_rq
  <2>1. q \in Seq(Task) /\ s \in Seq(Task)
    BY <1>6, <1>7, AtType, ListsWithin
  <2>2. b.queue \in [Prio -> Seq(Task)]
    <3>1. a.queue \in [Prio -> Seq(Task)]
      BY <1>1 DEF wrr_rq
    <3> QED BY <1>3, <2>1, <3>1
  <2>3. b.bitmap \in SUBSET (0 .. NPrio) /\ b.wrr_nr_running \in Nat
    BY <1>1, <1>2, <1>3 DEF wrr_rq
  <2> QED BY <1>3, <2>2, <2>3 DEF wrr_rq
<1>12. BitmapExact(b)
  <2>1. b.queue[i] = q /\ b.queue[j] = s
    BY <1>2, <1>4
  <2>2. \A k \in Prio \ {i, j} : b.queue[k] = a.queue[k]
    BY <1>4
  <2>3. CASE q = <<>>
    BY <1>1, <1>2, <1>3, <1>9, <2>1, <2>2, <2>3 DEF BitmapExact
  <2>4. CASE q # <<>>
    BY <1>1, <1>2, <1>3, <1>9, <2>1, <2>2, <2>4 DEF BitmapExact
  <2> QED BY <2>3, <2>4
<1>13. b.wrr_nr_running = Cardinality(W)
  BY <1>1, <1>3
<1> QED BY <1>10, <1>11, <1>12, <1>13, ArrayAsLists DEF b

\* The first bit that is set is of a level with tasks, and of the least.
LEMMA FirstQueue ==
    ASSUME NEW a, NEW W \in SUBSET Task, NEW idx \in [Task -> Prio],
           ArrayOK(a, W, idx), NEW p \in W
    PROVE  LET i == first_queue(a)
           IN  i \in Prio /\ i <= idx[p] /\ a.queue[i] # <<>>
<1>1. idx[p] \in Prio /\ a.queue[idx[p]] # <<>>
  <2>1. idx[p] \in Prio
    OBVIOUS
  <2>2. Lists(a.queue[idx[p]], At(W, idx, idx[p]))
    BY <2>1, ArrayAsLists
  <2>3. p \in At(W, idx, idx[p])
    BY DEF At
  <2> QED BY <2>1, <2>2, <2>3, EmptyLists
<1>2. a.bitmap \subseteq Nat /\ idx[p] \in a.bitmap
  BY <1>1 DEF ArrayOK, BitmapExact, wrr_rq
<1>3. \E i \in a.bitmap : \A j \in a.bitmap : i <= j
  <2>1. a.bitmap \subseteq 0 .. NPrio
    BY DEF ArrayOK, wrr_rq
  <2> QED BY <1>2, <2>1, LeastNat
<1>4. /\ first_queue(a) \in a.bitmap
      /\ first_queue(a) <= idx[p]
  BY <1>2, <1>3 DEF first_queue, sched_find_first_bit
<1>5. first_queue(a) \in Prio /\ first_queue(a) < NPrio
  BY <1>1, <1>2, <1>4, NPrioAssumption DEF Prio
<1>6. a.queue[first_queue(a)] # <<>>
  BY <1>4, <1>5, NPrioAssumption DEF ArrayOK, BitmapExact, Prio
<1> QED BY <1>4, <1>5, <1>6

\* Where the counter is not 0, pick_next_task_wrr finds a task of the array.
LEMMA PickOK ==
    ASSUME NEW a, NEW W \in SUBSET Task, NEW idx \in [Task -> Prio],
           ArrayOK(a, W, idx), a.wrr_nr_running # 0
    PROVE  /\ ~pick_is_bug(a)
           /\ pick_next_task_wrr(a) \in At(W, idx, first_queue(a))
<1>1. W # {}
  BY SubsetsCount DEF ArrayOK
<1>2. PICK p \in W : TRUE
  BY <1>1
<1>3. first_queue(a) \in Prio /\ a.queue[first_queue(a)] # <<>>
  BY <1>2, FirstQueue
<1>4. Head(a.queue[first_queue(a)]) \in At(W, idx, first_queue(a))
  <2>1. Lists(a.queue[first_queue(a)], At(W, idx, first_queue(a)))
    BY <1>3, ArrayAsLists
  <2>2. a.queue[first_queue(a)] \in Seq(At(W, idx, first_queue(a)))
    BY <2>1 DEF Lists
  <2> QED BY <1>3, <2>2
<1> QED BY <1>3, <1>4, NPrioAssumption DEF pick_is_bug, pick_next_task_wrr, Prio

-----------------------------------------------------------------------------
(* The run queue. *)

\* QueueInv of SchedProps, of any threads T and run queue q.
levels(T) == [p \in Task |-> wrr_se_prio(T[p].rt_priority)]

On(T) == {p \in Task : T[p].on_rq}

RunQueueOK(T, q) ==
    /\ q \in [nr_running : Nat, wrr : wrr_rq]
    /\ q.nr_running = Cardinality(On(T))
    /\ ArrayOK(q.wrr, Queued(T, "wrr"), levels(T))

Typed(T) == T \in [Threads -> task_struct]

\* wrr_se_prio of either build is a level of the array.
LEMMA LevelType ==
    ASSUME NEW r \in 0 .. NPrio - 1
    PROVE  wrr_se_prio(r) \in Prio
BY NPrioAssumption DEF wrr_se_prio, Basic!wrr_se_prio, RMLFQ!wrr_se_prio, Prio

\* ... and so the levels of all threads are.
LEMMA LevelsType ==
    ASSUME NEW T, Typed(T)
    PROVE  levels(T) \in [Task -> Prio]
<1>1. ASSUME NEW p \in Task PROVE wrr_se_prio(T[p].rt_priority) \in Prio
  <2>1. T[p] \in task_struct
    BY DEF Typed, Threads
  <2>2. T[p].rt_priority \in 0 .. NPrio - 1
    BY <2>1 DEF task_struct
  <2> QED BY <2>2, LevelType
<1> QED BY <1>1 DEF levels

\* A thread that is not runnable may change in any way but becoming so.
LEMMA OffQueueOK ==
    ASSUME NEW T, Typed(T), NEW q, RunQueueOK(T, q),
           NEW p \in Threads, NEW t \in task_struct,
           p \in Task => ~T[p].on_rq, ~t.on_rq
    PROVE  RunQueueOK([T EXCEPT ![p] = t], q)
<1> DEFINE U == [T EXCEPT ![p] = t]
<1>1. Typed(U) /\ DOMAIN T = Threads
  BY DEF Typed
<1>2. \A x \in Task : x # p => U[x] = T[x]
  BY <1>1 DEF Typed, Threads
<1>3. p \in Task => U[p] = t
  BY <1>1 DEF Threads
<1> HIDE DEF U
<1>4. On(U) = On(T) /\ Queued(U, "wrr") = Queued(T, "wrr")
  BY <1>2, <1>3 DEF On, Queued
<1>5. \A x \in Queued(T, "wrr") : levels(U)[x] = levels(T)[x]
  BY <1>2 DEF Queued, levels
<1>6. ArrayOK(q.wrr, Queued(T, "wrr"), levels(U))
  BY <1>1, <1>5, LevelsType, SameIndices DEF RunQueueOK, Queued
<1>7. RunQueueOK(U, q)
  BY <1>4, <1>6 DEF RunQueueOK
<1> QED BY <1>7 DEF U

\* So may the fields of a thread the run queue does not depend on.
LEMMA SameOnQueueOK ==
    ASSUME NEW T, Typed(T), NEW q, RunQueueOK(T, q),
           NEW p \in Threads, NEW t \in task_struct,
           t.on_rq = T[p].on_rq, t.class = T[p].class,
           t.rt_priority = T[p].rt_priority
    PROVE  RunQueueOK([T EXCEPT ![p] = t], q)
<1> DEFINE U == [T EXCEPT ![p] = t]
<1>1. Typed(U) /\ DOMAIN T = Threads
  BY DEF Typed
<1>2. \A x \in Task : /\ U[x].on_rq = T[x].on_rq /\ U[x].class = T[x].class
                      /\ U[x].rt_priority = T[x].rt_priority
  BY <1>1 DEF Threads
<1> HIDE DEF U
<1>3. On(U) = On(T) /\ Queued(U, "wrr") = Queued(T, "wrr") /\ levels(U) = levels(T)
  BY <1>2 DEF On, Queued, levels
<1>4. RunQueueOK(U, q)
  BY <1>3 DEF RunQueueOK
<1> QED BY <1>4 DEF U

\* enqueue_task of a thread that was not on the run queue.
LEMMA EnqueueTaskOK ==
    ASSUME NEW T, Typed(T), NEW q, RunQueueOK(T, q),
           NEW p \in Task, NEW t \in task_struct, ~T[p].on_rq, t.on_rq, NEW head
    PROVE  RunQueueOK([T EXCEPT ![p] = t], enqueue_task(q, p, t, head))
<1> DEFINE U == [T EXCEPT ![p] = t]
           r == enqueue_task(q, p, t, head)
<1>1. Typed(U) /\ DOMAIN T = Threads /\ p \in Threads
  BY DEF Typed, Threads
<1>2. (\A x \in Task : x # p => U[x] = T[x]) /\ U[p] = t
  BY <1>1 DEF Typed, Threads
<1>3. levels(U)[p] = wrr_se_prio(t.rt_priority)
  BY <1>2 DEF levels
<1> HIDE DEF U
<1>4. On(U) = On(T) \union {p} /\ p \notin On(T) /\ On(T) \in SUBSET Task
  BY <1>2 DEF On
<1>5. Cardinality(On(U)) = Cardinality(On(T)) + 1
  BY <1>4, SubsetsCount
<1>6. \A x \in Queued(T, "wrr") : x # p /\ levels(U)[x] = levels(T)[x]
  BY <1>2 DEF Queued, levels
<1>7. Queued(T, "wrr") \in SUBSET Task
  BY DEF Queued
<1>8. r.nr_running = q.nr_running + 1
  BY DEF enqueue_task
<1>9. ArrayOK(r.wrr, Queued(U, "wrr"), levels(U))
  <2>1. CASE t.class = "wrr"
    <3>1. Queued(U, "wrr") = Queued(T, "wrr") \union {p}
      BY <1>2, <2>1 DEF Queued
    <3>2. ArrayOK(enqueue_wrr_entity(q.wrr, p, levels(U)[p], head),
                  Queued(T, "wrr") \union {p}, levels(U))
      BY <1>1, <1>6, <1>7, LevelsType, EnqueueOK DEF RunQueueOK
    <3>3. r.wrr = enqueue_wrr_entity(q.wrr, p, levels(U)[p], head)
      BY <1>3, <2>1 DEF enqueue_task
    <3> QED BY <3>1, <3>2, <3>3
  <2>2. CASE t.class # "wrr"
    <3>1. Queued(U, "wrr") = Queued(T, "wrr")
      BY <1>2, <2>2 DEF Queued
    <3>2. r.wrr = q.wrr
      BY <2>2 DEF enqueue_task
    <3>3. ArrayOK(q.wrr, Queued(T, "wrr"), levels(U))
      BY <1>1, <1>6, <1>7, LevelsType, SameIndices DEF RunQueueOK
    <3> QED BY <3>1, <3>2, <3>3
  <2> QED BY <2>1, <2>2
<1>10. r \in [nr_running : Nat, wrr : wrr_rq]
  <2>1. r.nr_running \in Nat /\ r.wrr \in wrr_rq
    BY <1>8, <1>9 DEF RunQueueOK, ArrayOK
  <2> QED BY <2>1 DEF enqueue_task
<1>11. RunQueueOK(U, r)
  BY <1>5, <1>8, <1>9, <1>10 DEF RunQueueOK
<1> QED BY <1>11 DEF U

\* dequeue_task of a runnable thread, which o describes.
LEMMA DequeueTaskOK ==
    ASSUME NEW T, Typed(T), NEW q, RunQueueOK(T, q),
           NEW p \in Task, NEW t \in task_struct, T[p].on_rq, ~t.on_rq,
           NEW o, o.class = T[p].class, o.rt_priority = T[p].rt_priority
    PROVE  RunQueueOK([T EXCEPT ![p] = t], dequeue_task(q, p, o))
<1> DEFINE U == [T EXCEPT ![p] = t]
           r == dequeue_task(q, p, o)
<1>1. Typed(U) /\ DOMAIN T = Threads /\ p \in Threads
  BY DEF Typed, Threads
<1>2. (\A x \in Task : x # p => U[x] = T[x]) /\ U[p] = t
  BY <1>1 DEF Typed, Threads
<1>3. levels(T)[p] = wrr_se_prio(o.rt_priority)
  BY DEF levels
<1> HIDE DEF U
<1>4. On(U) = On(T) \ {p} /\ p \in On(T) /\ On(T) \in SUBSET Task
  BY <1>2 DEF On
<1>5. /\ Cardinality(On(U)) = Cardinality(On(T)) - 1
      /\ Cardinality(On(U)) \in Nat
  <2>1. On(U) \in SUBSET Task
    BY DEF On
  <2> QED BY <1>4, <2>1, SubsetsCount
<1>6. \A x \in Queued(T, "wrr") \ {p} : levels(U)[x] = levels(T)[x]
  BY <1>2 DEF Queued, levels
<1>7. Queued(T, "wrr") \in SUBSET Task /\ Queued(U, "wrr") \in SUBSET Task
  BY DEF Queued
<1>8. r.nr_running = q.nr_running - 1
  BY DEF dequeue_task
<1>9. ArrayOK(r.wrr, Queued(U, "wrr"), levels(U))
  <2>1. CASE o.class = "wrr"
    <3>1. Queued(U, "wrr") = Queued(T, "wrr") \ {p} /\ p \in Queued(T, "wrr")
      BY <1>2, <2>1 DEF Queued
    <3>2. ArrayOK(dequeue_wrr_entity(q.wrr, p, levels(T)[p]),
                  Queued(T, "wrr") \ {p}, levels(T))
      BY <1>7, <3>1, LevelsType, DequeueOK DEF RunQueueOK
    <3>3. r.wrr = dequeue_wrr_entity(q.wrr, p, levels(T)[p])
      BY <1>3, <2>1 DEF dequeue_task
    <3>4. ArrayOK(r.wrr, Queued(U, "wrr"), levels(T))
      BY <3>1, <3>2, <3>3
    <3> QED BY <1>1, <1>6, <1>7, <3>1, <3>4, LevelsType, SameIndices
  <2>2. CASE o.class # "wrr"
    <3>1. Queued(U, "wrr") = Queued(T, "wrr") /\ p \notin Queued(T, "wrr")
      BY <1>2, <2>2 DEF Queued
    <3>2. r.wrr = q.wrr
      BY <2>2 DEF dequeue_task
    <3>3. ArrayOK(q.wrr, Queued(T, "wrr"), levels(U))
      BY <1>1, <1>6, <1>7, <3>1, LevelsType, SameIndices DEF RunQueueOK
    <3> QED BY <3>1, <3>2, <3>3
  <2> QED BY <2>1, <2>2
<1>10. r \in [nr_running : Nat, wrr : wrr_rq]
  <2>1. r.nr_running \in Nat /\ r.wrr \in wrr_rq
    BY <1>5, <1>8, <1>9 DEF RunQueueOK, ArrayOK
  <2> QED BY <2>1 DEF dequeue_task
<1>11. RunQueueOK(U, r)
  BY <1>5, <1>8, <1>9, <1>10 DEF RunQueueOK
<1> QED BY <1>11 DEF U

\* The dequeue - change - enqueue of core.c: whatever changes about a runnable
\* thread in between, it is queued where it now belongs.
LEMMA ChangeTaskOK ==
    ASSUME NEW T, Typed(T), NEW q, RunQueueOK(T, q),
           NEW p \in Task, NEW t \in task_struct,
           NEW o, o.on_rq = T[p].on_rq, o.class = T[p].class,
           o.rt_priority = T[p].rt_priority, t.on_rq = T[p].on_rq, NEW head
    PROVE  RunQueueOK([T EXCEPT ![p] = t], change_task(q, p, o, t, head))
<1>1. p \in Threads /\ DOMAIN T = Threads /\ T[p] \in task_struct
  BY DEF Typed, Threads
<1>2. CASE T[p].on_rq
  <2> DEFINE s == [T[p] EXCEPT !.on_rq = FALSE]
             S == [T EXCEPT ![p] = s]
             r == dequeue_task(q, p, o)
  <2>1. s \in task_struct /\ ~s.on_rq
    BY <1>1 DEF task_struct
  <2>2. RunQueueOK(S, r)
    BY <1>2, <2>1, DequeueTaskOK
  <2>3. Typed(S) /\ S[p] = s /\ [S EXCEPT ![p] = t] = [T EXCEPT ![p] = t]
    BY <1>1, <2>1 DEF Typed
  <2>4. change_task(q, p, o, t, head) = enqueue_task(r, p, t, head)
    BY <1>2 DEF change_task
  <2>5. ~S[p].on_rq
    BY <2>1, <2>3
  <2> HIDE DEF S, r, s
  <2>6. RunQueueOK([S EXCEPT ![p] = t], enqueue_task(r, p, t, head))
    BY <1>2, <2>2, <2>3, <2>5, EnqueueTaskOK
  <2> QED BY <2>3, <2>4, <2>6
<1>3. CASE ~T[p].on_rq
  <2>1. change_task(q, p, o, t, head) = q
    BY <1>3 DEF change_task
  <2>2. RunQueueOK([T EXCEPT ![p] = t], q)
    BY <1>1, <1>3, OffQueueOK
  <2> QED BY <2>1, <2>2
<1> QED BY <1>2, <1>3

-----------------------------------------------------------------------------
(* The hooks of the class, of either build. *)

\* The list operations of the two builds are those of PrioArray.
LEMMA SameOperations ==
    ASSUME NEW a, NEW p, NEW i, NEW j, NEW head
    PROVE  /\ Basic!move_in_queue(a, p, i, head) = move_in_queue(a, p, i, head)
           /\ RMLFQ!move_in_queue(a, p, i, head) = move_in_queue(a, p, i, head)
           /\ RMLFQ!move_to_queue(a, p, i, j, head) = move_to_queue(a, p, i, j, head)
<1>1. ASSUME NEW s
      PROVE  /\ Basic!list_del_init(s, p) = list_del_init(s, p)
             /\ RMLFQ!list_del_init(s, p) = list_del_init(s, p)
             /\ Basic!list_insert(s, p, head) = list_insert(s, p, head)
             /\ RMLFQ!list_insert(s, p, head) = list_insert(s, p, head)
  BY Zenon DEF list_del_init, Basic!list_del_init, RMLFQ!list_del_init, RemoveAt,
               Basic!RemoveAt, RMLFQ!RemoveAt,
               list_insert, Basic!list_insert, RMLFQ!list_insert
<1> QED BY <1>1 DEF move_in_queue, Basic!move_in_queue, RMLFQ!move_in_queue,
                    move_to_queue, RMLFQ!move_to_queue,
                    list_move, Basic!list_move, RMLFQ!list_move

\* A requeue within the level.
LEMMA StayOK ==
    ASSUME NEW T, Typed(T), NEW q, RunQueueOK(T, q),
           NEW p \in Queued(T, "wrr"), NEW t \in task_struct,
           t.on_rq = T[p].on_rq, t.class = T[p].class,
           t.rt_priority = T[p].rt_priority, NEW head,
           NEW a, a = move_in_queue(q.wrr, p, wrr_se_prio(t.rt_priority), head)
    PROVE  RunQueueOK([T EXCEPT ![p] = t], [q EXCEPT !.wrr = a])
<1> DEFINE r == [q EXCEPT !.wrr = a]
<1>1. p \in Task /\ p \in Threads /\ Queued(T, "wrr") \in SUBSET Task
  BY DEF Queued, Threads
<1>2. levels(T)[p] = wrr_se_prio(t.rt_priority)
  BY <1>1 DEF levels
<1>3. ArrayOK(a, Queued(T, "wrr"), levels(T))
  BY <1>1, <1>2, LevelsType, MoveInOK DEF RunQueueOK
<1>4. a \in wrr_rq
  BY <1>3 DEF ArrayOK
<1>5. r.wrr = a /\ r.nr_running = q.nr_running /\ r \in [nr_running : Nat, wrr : wrr_rq]
  BY <1>4 DEF RunQueueOK
<1> HIDE DEF r
<1>6. RunQueueOK(T, r)
  BY <1>3, <1>5 DEF RunQueueOK
<1>7. RunQueueOK([T EXCEPT ![p] = t], r)
  BY <1>1, <1>6, SameOnQueueOK
<1> QED BY <1>7 DEF r

\* A jump to the level of the new rt_priority.
LEMMA JumpOK ==
    ASSUME NEW T, Typed(T), NEW q, RunQueueOK(T, q),
           NEW p \in Queued(T, "wrr"), NEW t \in task_struct,
           t.on_rq = T[p].on_rq, t.class = T[p].class,
           wrr_se_prio(t.rt_priority) # wrr_se_prio(T[p].rt_priority), NEW head,
           NEW a, a = move_to_queue(q.wrr, p, wrr_se_prio(T[p].rt_priority),
                                    wrr_se_prio(t.rt_priority), head)
    PROVE  RunQueueOK([T EXCEPT ![p] = t], [q EXCEPT !.wrr = a])
<1> DEFINE r == [q EXCEPT !.wrr = a]
           U == [T EXCEPT ![p] = t]
<1>1. p \in Task /\ p \in Threads /\ Queued(T, "wrr") \in SUBSET Task
  BY DEF Queued, Threads
<1>2. Typed(U) /\ U[p] = t /\ \A x \in Task \ {p} : U[x] = T[x]
  BY <1>1 DEF Typed, Threads
<1> HIDE DEF U
<1>3. /\ levels(T)[p] = wrr_se_prio(T[p].rt_priority)
      /\ levels(U)[p] = wrr_se_prio(t.rt_priority)
      /\ \A x \in Queued(T, "wrr") \ {p} : levels(U)[x] = levels(T)[x]
  BY <1>1, <1>2 DEF levels
<1>4. On(U) = On(T) /\ Queued(U, "wrr") = Queued(T, "wrr")
  BY <1>1, <1>2 DEF On, Queued
<1>5. ArrayOK(q.wrr, Queued(T, "wrr"), levels(T))
  BY DEF RunQueueOK
<1>6. ArrayOK(move_to_queue(q.wrr, p, levels(T)[p], levels(U)[p], head),
              Queued(T, "wrr"), levels(U))
  BY <1>1, <1>2, <1>3, <1>5, LevelsType, MoveToOK
<1>7. ArrayOK(a, Queued(U, "wrr"), levels(U))
  BY <1>3, <1>4, <1>6
<1>8. a \in wrr_rq
  BY <1>7 DEF ArrayOK
<1>9. r.wrr = a /\ r.nr_running = q.nr_running /\ r \in [nr_running : Nat, wrr : wrr_rq]
  BY <1>8 DEF RunQueueOK
<1> HIDE DEF r
<1>10. RunQueueOK(U, r)
  BY <1>4, <1>7, <1>9 DEF RunQueueOK
<1> QED BY <1>10 DEF U, r

\* What a hook may do to the thread it is given: its queue and the counters of
\* its class, nothing else.
Hooked(t, u) ==
    /\ u \in task_struct
    /\ u.on_rq = t.on_rq /\ u.class = t.class /\ u.state = t.state

\* requeue_task_wrr of either build, of a thread that may have a new slice.
requeue(a, p, t) == IF Build = "basic" THEN Basic!requeue_task_wrr(a, p, t, FALSE)
                                       ELSE RMLFQ!requeue_task_wrr(a, p, t, FALSE)

\* The cases of requeue_task_wrr of wrr_RMLFQ.c, from level prio of a.
jumps_low(r, a, p, t, prio) ==
    /\ prio > StageWidth - 1
    /\ r.wrr = move_to_queue(a, p, prio, prio - StageWidth, FALSE)
    /\ r.task = [[t EXCEPT !.times = 1] EXCEPT !.rt_priority = @ + StageWidth]

jumps_high(r, a, p, t, prio) ==
    /\ prio < NPrio - StageWidth
    /\ r.wrr = move_to_queue(a, p, prio, prio + StageWidth, FALSE)
    /\ r.task = [[t EXCEPT !.times = 1] EXCEPT !.rt_priority = @ - StageWidth]

stays(r, a, p, t, prio) ==
    /\ r.wrr = move_in_queue(a, p, prio, FALSE)
    /\ \/ r.task = [t EXCEPT !.times = RMLFQ!incremented(@)]
       \/ r.task = [t EXCEPT !.times = 1]

\* requeue_task_wrr does one of the three.
LEMMA RequeuedCases ==
    ASSUME NEW a, NEW p, NEW t, NEW x, NEW prio, prio = RMLFQ!wrr_se_prio(t.rt_priority),
           NEW r, r = RMLFQ!requeued(a, p, t, FALSE, x)
    PROVE  \/ jumps_low(r, a, p, t, prio)
           \/ jumps_high(r, a, p, t, prio)
           \/ stays(r, a, p, t, prio)
<1> DEFINE lvl   == RMLFQ!wrr_se_prio(t.rt_priority)
           reset == [t EXCEPT !.times = 1]
           here  == RMLFQ!move_in_queue(a, p, lvl, FALSE)
           low   == [reset EXCEPT !.rt_priority = @ + StageWidth]
           high  == [reset EXCEPT !.rt_priority = @ - StageWidth]
           more  == [t EXCEPT !.times = RMLFQ!incremented(@)]
           to(j) == RMLFQ!move_to_queue(a, p, lvl, j, FALSE)
<1>1. \/ lvl > StageWidth - 1 /\ r = RMLFQ!result(to(lvl - StageWidth), low, FALSE)
      \/ lvl < NPrio - StageWidth /\ r = RMLFQ!result(to(lvl + StageWidth), high, FALSE)
      \/ r = RMLFQ!result(here, more, FALSE)
      \/ r = RMLFQ!result(here, reset, FALSE)
  BY Zenon DEF RMLFQ!requeued, RMLFQ!goes_high
<1> HIDE DEF low, high, more, reset, lvl
<1>2. prio = lvl
  BY DEF lvl
<1>3. \A A, B : RMLFQ!result(A, B, FALSE).wrr = A /\ RMLFQ!result(A, B, FALSE).task = B
  BY DEF RMLFQ!result
<1>4. /\ here = move_in_queue(a, p, prio, FALSE)
      /\ \A j : to(j) = move_to_queue(a, p, prio, j, FALSE)
  BY <1>2, SameOperations
<1> HIDE DEF here, to
<1>5. CASE lvl > StageWidth - 1 /\ r = RMLFQ!result(to(lvl - StageWidth), low, FALSE)
  <2>1. r.wrr = to(lvl - StageWidth) /\ r.task = low
    BY <1>3, <1>5, Zenon
  <2> QED BY <1>2, <1>4, <1>5, <2>1, Zenon DEF jumps_low, low, reset
<1>6. CASE lvl < NPrio - StageWidth /\ r = RMLFQ!result(to(lvl + StageWidth), high, FALSE)
  <2>1. r.wrr = to(lvl + StageWidth) /\ r.task = high
    BY <1>3, <1>6, Zenon
  <2> QED BY <1>2, <1>4, <1>6, <2>1, Zenon DEF jumps_high, high, reset
<1>7. CASE r = RMLFQ!result(here, more, FALSE)
  <2>1. r.wrr = here /\ r.task = more
    BY <1>3, <1>7, Zenon
  <2> QED BY <1>2, <1>4, <1>7, <2>1, Zenon DEF stays, more
<1>8. CASE r = RMLFQ!result(here, reset, FALSE)
  <2>1. r.wrr = here /\ r.task = reset
    BY <1>3, <1>8, Zenon
  <2> QED BY <1>2, <1>4, <1>8, <2>1, Zenon DEF stays, reset
<1> QED BY <1>1, <1>5, <1>6, <1>7, <1>8

\* A requeue gives a result with all its fields, whatever the build.
LEMMA RequeueResult ==
    ASSUME NEW a, NEW p, NEW t, NEW r \in requeue(a, p, t)
    PROVE  r = [wrr |-> r.wrr, task |-> r.task, resched |-> FALSE]
<1>1. \E A, B : r = [wrr |-> A, task |-> B, resched |-> FALSE]
  <2>1. CASE Build = "basic"
    BY <2>1, Zenon DEF requeue, Basic!requeue_task_wrr, Basic!result
  <2>2. CASE Build # "basic"
    <3>1. PICK x \in 0 .. UMax : r = RMLFQ!requeued(a, p, t, FALSE, x)
      BY <2>2 DEF requeue, RMLFQ!requeue_task_wrr
    <3> QED BY <3>1, Zenon DEF RMLFQ!requeued, RMLFQ!result
  <2> QED BY <2>1, <2>2
<1> QED BY <1>1

\* ++ of an unsigned int is one.
LEMMA Incremented ==
    ASSUME NEW n \in 0 .. UMax
    PROVE  RMLFQ!incremented(n) \in 0 .. UMax
BY UMaxAssumption DEF RMLFQ!incremented

\* requeue_task_wrr of a runnable thread of the class keeps the run queue.
LEMMA RequeueOK ==
    ASSUME NEW T, Typed(T), NEW q, RunQueueOK(T, q),
           NEW p \in Queued(T, "wrr"), NEW t \in task_struct, Hooked(T[p], t),
           t.rt_priority = T[p].rt_priority, NEW r \in requeue(q.wrr, p, t)
    PROVE  /\ Hooked(T[p], r.task)
           /\ RunQueueOK([T EXCEPT ![p] = r.task], [q EXCEPT !.wrr = r.wrr])
<1> DEFINE prio == wrr_se_prio(t.rt_priority)
<1>1. CASE Build = "basic"
  <2>1. r.task = t /\ r.wrr = move_in_queue(q.wrr, p, prio, FALSE)
    <3>1. Basic!wrr_se_prio(t.rt_priority) = prio
      BY <1>1 DEF wrr_se_prio
    <3>2. r = Basic!result(Basic!move_in_queue(q.wrr, p, prio, FALSE), t, FALSE)
      BY <1>1, <3>1, Zenon DEF requeue, Basic!requeue_task_wrr
    <3> QED BY <3>2, SameOperations, Zenon DEF Basic!result
  <2>2. RunQueueOK([T EXCEPT ![p] = t], [q EXCEPT !.wrr = move_in_queue(q.wrr, p, prio, FALSE)])
    BY StayOK DEF Hooked
  <2> QED BY <2>1, <2>2
<1>2. CASE Build # "basic"
  <2>1. PICK x \in 0 .. UMax : r = RMLFQ!requeued(q.wrr, p, t, FALSE, x)
    BY <1>2 DEF requeue, RMLFQ!requeue_task_wrr
  <2>2. /\ t.rt_priority \in 0 .. NPrio - 1 /\ t.times \in 0 .. UMax
        /\ prio = NPrio - 1 - t.rt_priority
        /\ RMLFQ!wrr_se_prio(t.rt_priority) = prio
        /\ NPrio \in Nat \ {0} /\ StageWidth \in 1 .. NPrio /\ UMax \in Nat \ {0}
    BY <1>2, NPrioAssumption, StageAssumption, UMaxAssumption, SliceAssumption
       DEF wrr_se_prio, RMLFQ!wrr_se_prio, task_struct
  <2>3. wrr_se_prio(T[p].rt_priority) = prio
    OBVIOUS
  <2> HIDE DEF prio
  <2>4. \/ jumps_low(r, q.wrr, p, t, prio)
        \/ jumps_high(r, q.wrr, p, t, prio)
        \/ stays(r, q.wrr, p, t, prio)
    BY <2>1, <2>2, RequeuedCases
  <2> DEFINE reset == [t EXCEPT !.times = 1]
  <2>5. reset \in task_struct /\ Hooked(T[p], reset) /\ reset.rt_priority = t.rt_priority
    <3>1. 1 \in 0 .. UMax
      BY <2>2
    <3>2. reset \in task_struct
      BY <3>1 DEF task_struct
    <3>3. /\ reset.rt_priority = t.rt_priority /\ reset.state = t.state
          /\ reset.on_rq = t.on_rq /\ reset.class = t.class
      BY DEF task_struct
    <3> QED BY <3>2, <3>3 DEF Hooked
  <2>6. CASE jumps_low(r, q.wrr, p, t, prio)
    <3>1. /\ prio > StageWidth - 1
          /\ r.wrr = move_to_queue(q.wrr, p, prio, prio - StageWidth, FALSE)
          /\ r.task = [reset EXCEPT !.rt_priority = @ + StageWidth]
      BY <2>6 DEF jumps_low
    <3> HIDE DEF reset
    <3>2. Hooked(T[p], r.task) /\ r.task.rt_priority = t.rt_priority + StageWidth
      BY <2>2, <2>5, <3>1 DEF Hooked, task_struct
    <3>3. wrr_se_prio(r.task.rt_priority) = prio - StageWidth /\ prio - StageWidth # prio
      BY <1>2, <2>2, <3>2 DEF wrr_se_prio, RMLFQ!wrr_se_prio
    <3>4. r.task \in task_struct /\ r.task.on_rq = T[p].on_rq /\ r.task.class = T[p].class
      BY <3>2 DEF Hooked
    <3>5. wrr_se_prio(r.task.rt_priority) # wrr_se_prio(T[p].rt_priority)
      BY <2>3, <3>3
    <3>6. r.wrr = move_to_queue(q.wrr, p, wrr_se_prio(T[p].rt_priority),
                                wrr_se_prio(r.task.rt_priority), FALSE)
      BY <2>3, <3>1, <3>3
    <3>7. RunQueueOK([T EXCEPT ![p] = r.task], [q EXCEPT !.wrr = r.wrr])
      BY <3>4, <3>5, <3>6, JumpOK
    <3> QED BY <3>2, <3>7
  <2>7. CASE jumps_high(r, q.wrr, p, t, prio)
    <3>1. /\ prio < NPrio - StageWidth
          /\ r.wrr = move_to_queue(q.wrr, p, prio, prio + StageWidth, FALSE)
          /\ r.task = [reset EXCEPT !.rt_priority = @ - StageWidth]
      BY <2>7 DEF jumps_high
    <3> HIDE DEF reset
    <3>2. Hooked(T[p], r.task) /\ r.task.rt_priority = t.rt_priority - StageWidth
      BY <2>2, <2>5, <3>1 DEF Hooked, task_struct
    <3>3. wrr_se_prio(r.task.rt_priority) = prio + StageWidth /\ prio + StageWidth # prio
      BY <1>2, <2>2, <3>2 DEF wrr_se_prio, RMLFQ!wrr_se_prio
    <3>4. r.task \in task_struct /\ r.task.on_rq = T[p].on_rq /\ r.task.class = T[p].class
      BY <3>2 DEF Hooked
    <3>5. wrr_se_prio(r.task.rt_priority) # wrr_se_prio(T[p].rt_priority)
      BY <2>3, <3>3
    <3>6. r.wrr = move_to_queue(q.wrr, p, wrr_se_prio(T[p].rt_priority),
                                wrr_se_prio(r.task.rt_priority), FALSE)
      BY <2>3, <3>1, <3>3
    <3>7. RunQueueOK([T EXCEPT ![p] = r.task], [q EXCEPT !.wrr = r.wrr])
      BY <3>4, <3>5, <3>6, JumpOK
    <3> QED BY <3>2, <3>7
  <2>8. CASE stays(r, q.wrr, p, t, prio)
    <3>1. r.wrr = move_in_queue(q.wrr, p, prio, FALSE)
      BY <2>8 DEF stays
    <3>2. Hooked(T[p], r.task) /\ r.task.rt_priority = t.rt_priority
      <4>1. RMLFQ!incremented(t.times) \in 0 .. UMax
        BY <2>2, Incremented
      <4>2. CASE r.task = reset
        BY <2>5, <4>2
      <4>3. CASE r.task = [t EXCEPT !.times = RMLFQ!incremented(@)]
        BY <4>1, <4>3 DEF Hooked, task_struct
      <4> QED BY <2>8, <4>2, <4>3 DEF stays
    <3> QED BY <2>3, <3>1, <3>2, StayOK DEF Hooked
  <2> QED BY <2>4, <2>6, <2>7, <2>8
<1> QED BY <1>1, <1>2

\* Every slice is an unsigned int.
LEMMA SliceType ==
    ASSUME NEW t \in task_struct
    PROVE  /\ get_rr_interval_wrr(t) \in 0 .. UMax
           /\ Build = "basic" => Basic!get_rr_interval_wrr(t) = get_rr_interval_wrr(t)
           /\ Build # "basic" => RMLFQ!get_rr_interval_wrr(t) = get_rr_interval_wrr(t)
           /\ Build = "basic" => Basic!decremented(t.time_slice) \in 0 .. UMax
           /\ Build # "basic" => RMLFQ!decremented(t.time_slice) \in 0 .. UMax
<1>1. ForeSlice \in 0 .. UMax /\ BackSlice \in 0 .. UMax /\ UMax \in Nat
  BY UMaxAssumption
<1>2. t.rt_priority \in 0 .. NPrio - 1 /\ t.time_slice \in 0 .. UMax
  BY DEF task_struct
<1>3. CASE Build = "basic"
  BY <1>1, <1>2, <1>3 DEF get_rr_interval_wrr, Basic!get_rr_interval_wrr, Basic!decremented
<1>4. CASE Build # "basic"
  <2> DEFINE i == RMLFQ!wrr_se_prio(t.rt_priority)
  <2>1. i \in Prio
    BY <1>2, <1>4, LevelType DEF wrr_se_prio
  <2> HIDE DEF i
  <2>2. ForeSlice * (i \div StageWidth + 1) \in 0 .. UMax
    <3>1. i \in Nat /\ StageWidth \in Nat \ {0} /\ ForeSlice \in Nat
      BY <2>1, NPrioAssumption, StageAssumption, SliceAssumption DEF Prio
    <3>2. i \div StageWidth \in Nat
      BY <3>1
    <3> DEFINE k == i \div StageWidth + 1
    <3>3. k \in Nat
      BY <3>2
    <3>4. ForeSlice * k <= UMax
      BY <2>1, UMaxAssumption
    <3> HIDE DEF k
    <3>5. ForeSlice * k \in Nat
      BY <3>1, <3>3
    <3>6. ForeSlice * k \in 0 .. UMax
      BY <1>1, <3>4, <3>5
    <3> QED BY <3>6 DEF k
  <2>3. RMLFQ!get_rr_interval_wrr(t) \in 0 .. UMax
    BY <1>1, <2>2, Zenon DEF RMLFQ!get_rr_interval_wrr, i
  <2>4. RMLFQ!decremented(t.time_slice) \in 0 .. UMax
    BY <1>1, <1>2 DEF RMLFQ!decremented
  <2> QED BY <1>4, <2>3, <2>4 DEF get_rr_interval_wrr
<1> QED BY <1>3, <1>4

sliced(t, n) == [t EXCEPT !.time_slice = n]

\* The slices a tick may leave: one tick less, if that is not 0, or a new one.
next_slices(t) ==
    {get_rr_interval_wrr(t)} \union
    {n \in 1 .. UMax : n = IF t.time_slice = 0 THEN UMax ELSE t.time_slice - 1}

\* They are unsigned ints.
LEMMA NextSlicesType ==
    ASSUME NEW t \in task_struct
    PROVE  next_slices(t) \subseteq 0 .. UMax
BY SliceType, UMaxAssumption DEF next_slices

\* task_tick_wrr of either build: nothing, a tick less, or a new slice and,
\* unless the thread is alone at its level, a requeue.
LEMMA TickCases ==
    ASSUME NEW t \in task_struct, NEW a, NEW p, NEW r \in task_tick_wrr(a, p, t)
    PROVE  \/ t.policy # "WRR" /\ r.wrr = a /\ r.task = t
           \/ \E n \in next_slices(t) : r.wrr = a /\ r.task = sliced(t, n)
           \/ \E n \in next_slices(t) : \E s \in requeue(a, p, sliced(t, n)) :
                 r.wrr = s.wrr /\ r.task = s.task /\ r.resched
<1> DEFINE n == get_rr_interval_wrr(t)
           u == sliced(t, n)
<1>0. n \in next_slices(t)
  BY DEF next_slices
<1>1. ASSUME NEW s \in requeue(a, p, u), r = [s EXCEPT !.resched = TRUE]
      PROVE  r.wrr = s.wrr /\ r.task = s.task /\ r.resched
  <2> HIDE DEF u
  <2>1. s = [wrr |-> s.wrr, task |-> s.task, resched |-> FALSE]
    BY RequeueResult
  <2> QED BY <1>1, <2>1
<1>2. CASE Build = "basic"
  <2> DEFINE m == Basic!decremented(t.time_slice)
             v == sliced(t, m)
  <2>1. m \in 0 .. UMax /\ Basic!get_rr_interval_wrr(t) = n
    BY <1>2, SliceType
  <2>3. m # 0 => m \in next_slices(t)
    <3>1. m = IF t.time_slice = 0 THEN UMax ELSE t.time_slice - 1
      BY DEF Basic!decremented
    <3> HIDE DEF m
    <3>2. m # 0 => m \in 1 .. UMax
      BY <2>1, UMaxAssumption
    <3> QED BY <3>1, <3>2 DEF next_slices
  <2>2. \/ t.policy # "WRR" /\ r = Basic!result(a, t, FALSE)
        \/ m # 0 /\ r = Basic!result(a, v, FALSE)
        \/ r = Basic!result(a, u, FALSE)
        \/ \E s \in Basic!requeue_task_wrr(a, p, u, FALSE) : r = [s EXCEPT !.resched = TRUE]
    <3> DEFINE w == sliced(t, Basic!get_rr_interval_wrr(t))
    <3>1. r \in Basic!task_tick_wrr(a, p, t)
      BY <1>2 DEF task_tick_wrr
    <3>2. \/ t.policy # "WRR" /\ r = Basic!result(a, t, FALSE)
          \/ m # 0 /\ r = Basic!result(a, v, FALSE)
          \/ r = Basic!result(a, w, FALSE)
          \/ \E s \in Basic!requeue_task_wrr(a, p, w, FALSE) : r = [s EXCEPT !.resched = TRUE]
      BY <3>1, Zenon DEF Basic!task_tick_wrr, sliced
    <3>3. w = u
      BY <2>1
    <3> HIDE DEF n, u, v, w
    <3> QED BY <3>2, <3>3
  <2>4. requeue(a, p, u) = Basic!requeue_task_wrr(a, p, u, FALSE)
    BY <1>2 DEF requeue
  <2> HIDE DEF n, m, u
  <2>5. ASSUME NEW B, r = Basic!result(a, B, FALSE) PROVE r.wrr = a /\ r.task = B
    BY <2>5 DEF Basic!result
  <2>6. CASE t.policy # "WRR" /\ r = Basic!result(a, t, FALSE)
    BY <2>5, <2>6
  <2>7. CASE m # 0 /\ r = Basic!result(a, v, FALSE)
    BY <2>3, <2>5, <2>7, Zenon
  <2>8. CASE r = Basic!result(a, u, FALSE)
    BY <1>0, <2>5, <2>8, Zenon DEF u
  <2>9. ASSUME NEW s \in Basic!requeue_task_wrr(a, p, u, FALSE), r = [s EXCEPT !.resched = TRUE]
        PROVE  \E s2 \in requeue(a, p, sliced(t, n)) : r.wrr = s2.wrr /\ r.task = s2.task /\ r.resched
    BY <1>1, <2>4, <2>9, Zenon DEF u
  <2> QED BY <1>0, <2>2, <2>6, <2>7, <2>8, <2>9, Zenon
<1>3. CASE Build # "basic"
  <2> DEFINE m == RMLFQ!decremented(t.time_slice)
             v == sliced(t, m)
  <2>1. m \in 0 .. UMax /\ RMLFQ!get_rr_interval_wrr(t) = n
    BY <1>3, SliceType
  <2>3. m # 0 => m \in next_slices(t)
    <3>1. m = IF t.time_slice = 0 THEN UMax ELSE t.time_slice - 1
      BY DEF RMLFQ!decremented
    <3> HIDE DEF m
    <3>2. m # 0 => m \in 1 .. UMax
      BY <2>1, UMaxAssumption
    <3> QED BY <3>1, <3>2 DEF next_slices
  <2>2. \/ t.policy # "WRR" /\ r = RMLFQ!result(a, t, FALSE)
        \/ m # 0 /\ r = RMLFQ!result(a, v, FALSE)
        \/ \E s \in RMLFQ!requeue_task_wrr(a, p, u, FALSE) : r = [s EXCEPT !.resched = TRUE]
    <3> DEFINE w == sliced(t, RMLFQ!get_rr_interval_wrr(t))
    <3>1. r \in RMLFQ!task_tick_wrr(a, p, t)
      BY <1>3 DEF task_tick_wrr
    <3>2. \/ t.policy # "WRR" /\ r = RMLFQ!result(a, t, FALSE)
          \/ m # 0 /\ r = RMLFQ!result(a, v, FALSE)
          \/ \E s \in RMLFQ!requeue_task_wrr(a, p, w, FALSE) : r = [s EXCEPT !.resched = TRUE]
      BY <3>1, Zenon DEF RMLFQ!task_tick_wrr, sliced
    <3>3. w = u
      BY <2>1
    <3> HIDE DEF n, u, v, w
    <3> QED BY <3>2, <3>3
  <2>4. requeue(a, p, u) = RMLFQ!requeue_task_wrr(a, p, u, FALSE)
    BY <1>3 DEF requeue
  <2> HIDE DEF n, m, u
  <2>5. ASSUME NEW B, r = RMLFQ!result(a, B, FALSE) PROVE r.wrr = a /\ r.task = B
    BY <2>5 DEF RMLFQ!result
  <2>6. CASE t.policy # "WRR" /\ r = RMLFQ!result(a, t, FALSE)
    BY <2>5, <2>6
  <2>7. CASE m # 0 /\ r = RMLFQ!result(a, v, FALSE)
    BY <2>3, <2>5, <2>7, Zenon
  <2>9. ASSUME NEW s \in RMLFQ!requeue_task_wrr(a, p, u, FALSE), r = [s EXCEPT !.resched = TRUE]
        PROVE  \E s2 \in requeue(a, p, sliced(t, n)) : r.wrr = s2.wrr /\ r.task = s2.task /\ r.resched
    BY <1>1, <2>4, <2>9, Zenon DEF u
  <2> QED BY <1>0, <2>2, <2>6, <2>7, <2>9, Zenon
<1> QED BY <1>2, <1>3

\* What a tick leaves is consistent again.
LEMMA TickOK ==
    ASSUME NEW T, Typed(T), NEW q, RunQueueOK(T, q), NEW p \in Queued(T, "wrr"),
           NEW r \in task_tick_wrr(q.wrr, p, T[p])
    PROVE  /\ Hooked(T[p], r.task)
           /\ RunQueueOK([T EXCEPT ![p] = r.task], [q EXCEPT !.wrr = r.wrr])
<1>1. p \in Threads /\ T[p] \in task_struct
  BY DEF Queued, Threads, Typed
<1>2. [q EXCEPT !.wrr = q.wrr] = q
  BY DEF RunQueueOK
<1>3. ASSUME NEW n \in next_slices(T[p])
      PROVE  /\ sliced(T[p], n) \in task_struct
             /\ Hooked(T[p], sliced(T[p], n))
             /\ sliced(T[p], n).rt_priority = T[p].rt_priority
  BY <1>1, NextSlicesType DEF Hooked, task_struct, sliced
<1>4. CASE T[p].policy # "WRR" /\ r.wrr = q.wrr /\ r.task = T[p]
  BY <1>1, <1>2, <1>4, SameOnQueueOK DEF Hooked
<1>5. CASE \E n \in next_slices(T[p]) : r.wrr = q.wrr /\ r.task = sliced(T[p], n)
  BY <1>1, <1>2, <1>3, <1>5, SameOnQueueOK DEF Hooked
<1>6. ASSUME NEW n \in next_slices(T[p]),
             NEW s \in requeue(q.wrr, p, sliced(T[p], n)),
             r.wrr = s.wrr, r.task = s.task
      PROVE  /\ Hooked(T[p], r.task)
             /\ RunQueueOK([T EXCEPT ![p] = r.task], [q EXCEPT !.wrr = r.wrr])
  BY <1>3, <1>6, RequeueOK
<1>7. \/ T[p].policy # "WRR" /\ r.wrr = q.wrr /\ r.task = T[p]
      \/ \E n \in next_slices(T[p]) : r.wrr = q.wrr /\ r.task = sliced(T[p], n)
      \/ \E n \in next_slices(T[p]) : \E s \in requeue(q.wrr, p, sliced(T[p], n)) :
            r.wrr = s.wrr /\ r.task = s.task
  BY <1>1, TickCases
<1> QED BY <1>4, <1>5, <1>6, <1>7, Zenon

-----------------------------------------------------------------------------
(* Part 2: the run queue and the threads.                                    *)
(*                                                                           *)
(* TypeOK, QueueInv, NoPickBug and RunnableIsQueued hold of every number of  *)
(* threads and priorities, of both builds and every set of operations.       *)
(*                                                                           *)
(* The inductive invariant is Inv: the run queue agrees with the threads     *)
(* (RunQueueOK), and the threads are as the scheduler left them              *)
(* (ThreadsOK): a dequeue needs its thread on the run queue, so the state of *)
(* a thread has to say where it is.                                          *)

\* What TASK_RUNNING and on_rq say of each other; c is the CPU's thread, and
\* may be about to leave the run queue.
Leaving(T, c) ==
    /\ Typed(T) /\ c \in Threads /\ T[Idle] = idle_task
    /\ \A p \in Task : T[p].state = "RUNNING" => T[p].on_rq
    /\ \A p \in Task : T[p].on_rq => T[p].state \notin {"FREE", "NEW"}
    /\ \A p \in Task : T[p].state = "DEAD" => p = c

ThreadsOK(T, c) ==
    /\ Leaving(T, c)
    /\ c # Idle => T[c].on_rq

Inv ==
    /\ ThreadsOK(task, curr)
    /\ RunQueueOK(task, rq)
    /\ need_resched \in BOOLEAN

-----------------------------------------------------------------------------
(* Inv implies the properties. *)

\* The thread pick_next_task returns is runnable, and the BUG_ON does not fire.
LEMMA PickTaskOK ==
    ASSUME NEW T, Typed(T), NEW q, RunQueueOK(T, q)
    PROVE  /\ q.wrr.wrr_nr_running # 0 => ~pick_is_bug(q.wrr)
           /\ \A c \in pick_next_task(T, q) : c \in Threads /\ (c # Idle => T[c].on_rq)
<1>1. Queued(T, "wrr") \in SUBSET Task
  BY DEF Queued
<1>2. q.wrr.wrr_nr_running # 0 =>
        ~pick_is_bug(q.wrr) /\ pick_next_task_wrr(q.wrr) \in Queued(T, "wrr")
  BY <1>1, LevelsType, PickOK DEF RunQueueOK, At
<1>3. ASSUME NEW c \in pick_next_task(T, q)
      PROVE  c = Idle \/ c \in Queued(T, "fair") \/ c \in Queued(T, "rt")
               \/ (q.wrr.wrr_nr_running # 0 /\ c = pick_next_task_wrr(q.wrr))
  BY Zenon DEF pick_next_task
<1>4. ASSUME NEW c \in pick_next_task(T, q)
      PROVE  c \in Threads /\ (c # Idle => T[c].on_rq)
  BY <1>2, <1>3 DEF Queued, Threads
<1> QED BY <1>2, <1>4

\* Inv says all that the properties do.
LEMMA InvImplies ==
    ASSUME Inv
    PROVE  TypeOK /\ QueueInv /\ NoPickBug /\ RunnableIsQueued
<1>1. TypeOK
  BY DEF Inv, TypeOK, ThreadsOK, Leaving, Typed, RunQueueOK
<1>2. QueueInv
  <2>1. Runnable = On(task) /\ levels(task) = [p \in Task |-> level(p)]
    BY DEF Runnable, On, levels, level
  <2> QED BY <2>1 DEF Inv, QueueInv, RunQueueOK
<1>3. NoPickBug
  BY PickTaskOK DEF NoPickBug, Inv, ThreadsOK, Leaving
<1>4. RunnableIsQueued
  BY DEF RunnableIsQueued, Inv, ThreadsOK, Leaving
<1> QED BY <1>1, <1>2, <1>3, <1>4

-----------------------------------------------------------------------------
(* What a change of one thread does to ThreadsOK. *)

\* A thread changes state, on or off the run queue.
LEMMA UpdateOK ==
    ASSUME NEW T, NEW c, ThreadsOK(T, c), NEW p \in Task, NEW t \in task_struct,
           t.state = "RUNNING" => t.on_rq,
           t.on_rq => t.state \notin {"FREE", "NEW"},
           t.state = "DEAD" => p = c,
           p = c => t.on_rq
    PROVE  ThreadsOK([T EXCEPT ![p] = t], c)
<1> DEFINE U == [T EXCEPT ![p] = t]
<1>1. /\ T \in [Threads -> task_struct] /\ p \in Threads /\ p # Idle
      /\ T[Idle] = idle_task
  BY IdleAssumption DEF ThreadsOK, Leaving, Typed, Threads
<1>2. Typed(U) /\ U[Idle] = idle_task /\ U[p] = t /\ \A x \in Threads \ {p} : U[x] = T[x]
  BY <1>1 DEF Typed
<1> HIDE DEF U
<1>3. Task \subseteq Threads
  BY DEF Threads
<1>4. ThreadsOK(U, c)
  BY <1>2, <1>3 DEF ThreadsOK, Leaving
<1> QED BY <1>4 DEF U

\* A change that leaves the state and on_rq alone.
LEMMA SameStateOK ==
    ASSUME NEW T, NEW c, ThreadsOK(T, c), NEW p \in Task, NEW t \in task_struct,
           t.state = T[p].state, t.on_rq = T[p].on_rq
    PROVE  ThreadsOK([T EXCEPT ![p] = t], c)
<1>1. /\ T[p].state = "RUNNING" => T[p].on_rq
      /\ T[p].on_rq => T[p].state \notin {"FREE", "NEW"}
      /\ T[p].state = "DEAD" => p = c
      /\ p = c => T[p].on_rq
  BY IdleAssumption DEF ThreadsOK, Leaving
<1> QED BY <1>1, UpdateOK

\* The parts of Inv an action can use of a thread.
LEMMA ThreadFacts ==
    ASSUME Inv, NEW p \in Task
    PROVE  /\ Typed(task) /\ RunQueueOK(task, rq) /\ ThreadsOK(task, curr)
           /\ task[p] \in task_struct /\ p \in Threads /\ p # Idle
           /\ task[p].state \in State /\ task[p].on_rq \in BOOLEAN
           /\ task[p].on_rq => task[p].state \notin {"FREE", "NEW"}
           /\ task[p].state = "RUNNING" => task[p].on_rq
           /\ task[p].state = "DEAD" => p = curr
           /\ p = curr => task[p].on_rq
<1>1. Typed(task) /\ RunQueueOK(task, rq) /\ ThreadsOK(task, curr) /\ p \in Threads
  BY DEF Inv, ThreadsOK, Leaving, Threads
<1>2. task[p] \in task_struct /\ p # Idle
  BY <1>1, IdleAssumption DEF Typed
<1>3. task[p].state \in State /\ task[p].on_rq \in BOOLEAN
  BY <1>2 DEF task_struct
<1> QED BY <1>1, <1>2, <1>3 DEF ThreadsOK, Leaving

\* ... and of the thread that runs.
LEMMA CurrFacts ==
    ASSUME Inv
    PROVE  /\ curr \in Threads
           /\ curr = Idle => /\ task[curr].class = "idle" /\ task[curr].state = "RUNNING"
                             /\ ~task[curr].on_rq
           /\ curr # Idle => curr \in Task
<1>1. idle_task.class = "idle" /\ idle_task.state = "RUNNING" /\ ~idle_task.on_rq
  BY DEF idle_task, blank
<1> QED BY <1>1 DEF Inv, ThreadsOK, Leaving, Threads

\* __schedule picks from threads T and run queue q: curr has given up the run
\* queue if it has to, and nobody has changed class.
Switches(T, q) ==
    /\ Leaving(T, curr)
    /\ RunQueueOK(T, q)
    /\ T[curr].state = "DEAD" => ~T[curr].on_rq
    /\ \A x \in Threads : T[x].class = task[x].class
    /\ switch_from(T, q)

\* What it leaves is consistent again.
LEMMA SwitchOK ==
    ASSUME NEW T, NEW q, Switches(T, q)
    PROVE  Inv'
<1>0. /\ Leaving(T, curr) /\ RunQueueOK(T, q)
      /\ T[curr].state = "DEAD" => ~T[curr].on_rq
      /\ switch_from(T, q)
  BY DEF Switches
<1>1. /\ rq' = q /\ curr' \in pick_next_task(T, q) /\ need_resched' = FALSE
      /\ task' = IF T[curr].state = "DEAD" THEN [T EXCEPT ![curr] = blank] ELSE T
  BY <1>0 DEF switch_from
<1>2. Typed(T) /\ curr \in Threads /\ T[Idle] = idle_task
  BY <1>0 DEF Leaving
<1>3. curr' \in Threads /\ (curr' # Idle => T[curr'].on_rq)
  BY <1>0, <1>1, <1>2, PickTaskOK
<1>4. blank \in task_struct /\ ~blank.on_rq /\ blank.state = "FREE"
  <2>1. /\ NPrio \in Nat \ {0} /\ UMax \in Nat
    BY NPrioAssumption, UMaxAssumption
  <2> QED BY <2>1 DEF blank, task_struct, Policy, NicePrio, NiceDefault, NoWaiter, State, Threads
<1>5. idle_task.state = "RUNNING"
  BY DEF idle_task, blank
<1>6. CASE T[curr].state = "DEAD"
  <2>1. curr # Idle /\ curr \in Task /\ ~T[curr].on_rq
    BY <1>0, <1>2, <1>5, <1>6 DEF Threads
  <2>2. task' = [T EXCEPT ![curr] = blank]
    BY <1>1, <1>6
  <2>3. RunQueueOK(task', rq')
    BY <1>0, <1>1, <1>2, <1>4, <2>1, <2>2, OffQueueOK
  <2>4. /\ Typed(task') /\ task'[Idle] = idle_task /\ task'[curr] = blank
        /\ \A x \in Threads \ {curr} : task'[x] = T[x]
    BY <1>2, <1>4, <2>1, <2>2 DEF Typed
  <2>5. curr' # curr
    BY <1>3, <2>1
  <2>6. Leaving(task', curr')
    BY <1>0, <1>3, <1>4, <2>4, <2>5 DEF Leaving, Threads
  <2>7. ThreadsOK(task', curr')
    BY <1>3, <2>4, <2>5, <2>6 DEF ThreadsOK
  <2> QED BY <1>1, <2>3, <2>7 DEF Inv
<1>7. CASE T[curr].state # "DEAD"
  <2>1. task' = T
    BY <1>1, <1>7
  <2>2. Leaving(T, curr')
    BY <1>0, <1>3, <1>7 DEF Leaving
  <2> QED BY <1>0, <1>1, <1>3, <2>1, <2>2 DEF Inv, ThreadsOK
<1> QED BY <1>6, <1>7

-----------------------------------------------------------------------------
(* One lemma per action. *)

\* need_resched' is a flag again.
LEMMA ReschedType ==
    ASSUME NEW answers, resched(answers)
    PROVE  need_resched' \in BOOLEAN
BY DEF resched

\* scheduler_tick of a thread of the class.
LEMMA TickWrrStep ==
    ASSUME Inv, TickWrr
    PROVE  Inv'
<1>1. PICK r \in task_tick_wrr(rq.wrr, curr, task[curr]) :
         /\ task' = [task EXCEPT ![curr] = r.task]
         /\ rq'   = [rq EXCEPT !.wrr = r.wrr]
         /\ need_resched' = (need_resched \/ r.resched)
  BY DEF TickWrr
<1>2. curr' = curr /\ task[curr].class = "wrr"
  BY DEF TickWrr
<1>3. curr \in Task /\ curr \in Queued(task, "wrr")
  BY <1>2, CurrFacts, ThreadFacts DEF Queued
<1>4. Typed(task) /\ RunQueueOK(task, rq) /\ ThreadsOK(task, curr)
  BY <1>3, ThreadFacts
<1>5. Hooked(task[curr], r.task) /\ RunQueueOK(task', rq')
  BY <1>1, <1>3, <1>4, TickOK
<1>6. ThreadsOK(task', curr')
  BY <1>1, <1>2, <1>3, <1>4, <1>5, SameStateOK DEF Hooked
<1>7. need_resched' \in BOOLEAN
  BY <1>1
<1> QED BY <1>5, <1>6, <1>7 DEF Inv

\* schedule, whether curr blocks, exits or gives way.
LEMMA ScheduleSwitches ==
    ASSUME Inv, Schedule
    PROVE  \E T, q : Switches(T, q)
<1>1. /\ ThreadsOK(task, curr) /\ RunQueueOK(task, rq) /\ Typed(task) /\ curr \in Threads
      /\ Leaving(task, curr)
  BY DEF Inv, ThreadsOK, Leaving
<1>2. CASE task[curr].state = "RUNNING" /\ switch_from(task, rq)
  BY <1>1, <1>2 DEF Switches, ThreadsOK
<1>3. CASE /\ task[curr].state = "SLEEPING"
           /\ switch_from([task EXCEPT ![curr].state = "RUNNING"], rq)
  <2> DEFINE t == [task[curr] EXCEPT !.state = "RUNNING"]
             T == [task EXCEPT ![curr] = t]
  <2>1. curr \in Task /\ task[curr] \in task_struct /\ task[curr].on_rq
    BY <1>3, CurrFacts, ThreadFacts
  <2>2. /\ t \in task_struct /\ t.state = "RUNNING" /\ t.on_rq = task[curr].on_rq
        /\ t.class = task[curr].class /\ t.rt_priority = task[curr].rt_priority
    BY <2>1 DEF task_struct, State
  <2>3. switch_from(T, rq)
    BY <1>3
  <2> HIDE DEF t
  <2>4. T[curr] = t /\ \A x \in Threads \ {curr} : T[x] = task[x]
    BY <1>1 DEF Typed
  <2>5. RunQueueOK(T, rq)
    BY <1>1, <2>2, SameOnQueueOK
  <2>6. ThreadsOK(T, curr)
    BY <1>1, <2>1, <2>2, UpdateOK
  <2> HIDE DEF T
  <2> QED BY <2>2, <2>3, <2>4, <2>5, <2>6 DEF Switches, ThreadsOK
<1>4. CASE /\ task[curr].state \in {"SLEEPING", "DEAD"}
           /\ switch_from([task EXCEPT ![curr].on_rq = FALSE],
                          dequeue_task(rq, curr, task[curr]))
  <2> DEFINE t == [task[curr] EXCEPT !.on_rq = FALSE]
             T == [task EXCEPT ![curr] = t]
             q == dequeue_task(rq, curr, task[curr])
  <2>1. curr \in Task /\ task[curr] \in task_struct /\ task[curr].on_rq
    BY <1>4, CurrFacts, ThreadFacts
  <2>2. /\ t \in task_struct /\ t.state = task[curr].state /\ ~t.on_rq
        /\ t.class = task[curr].class
    BY <2>1 DEF task_struct
  <2>3. switch_from(T, q)
    BY <1>4
  <2> HIDE DEF t
  <2>4. T[curr] = t /\ Typed(T) /\ \A x \in Threads \ {curr} : T[x] = task[x]
    BY <1>1, <2>2 DEF Typed
  <2>5. RunQueueOK(T, q)
    BY <1>1, <2>1, <2>2, DequeueTaskOK
  <2> HIDE DEF T, q
  <2>6. Leaving(T, curr)
    <3>1. Idle # curr /\ Idle \in Threads /\ Task \subseteq Threads
      BY <2>1, IdleAssumption DEF Threads
    <3> QED BY <1>1, <1>4, <2>2, <2>4, <3>1 DEF Leaving
  <2> QED BY <2>2, <2>3, <2>4, <2>5, <2>6 DEF Switches
<1> QED BY <1>2, <1>3, <1>4 DEF Schedule

\* preempt_schedule keeps curr on the run queue.
LEMMA PreemptSwitches ==
    ASSUME Inv, PreemptSchedule
    PROVE  \E T, q : Switches(T, q)
<1>1. Switches(task, rq)
  BY DEF PreemptSchedule, Inv, ThreadsOK, Switches
<1> QED BY <1>1

\* set_current_state before a sleep.
LEMMA SetSleepingStep ==
    ASSUME Inv, SetSleeping
    PROVE  Inv'
<1> DEFINE t == [task[curr] EXCEPT !.state = "SLEEPING"]
<1>1. curr \in Task
  BY CurrFacts DEF SetSleeping
<1>2. /\ task' = [task EXCEPT ![curr] = t] /\ rq' = rq /\ curr' = curr
      /\ need_resched' = need_resched
  BY DEF SetSleeping
<1>3. /\ t \in task_struct /\ t.state = "SLEEPING" /\ t.on_rq = task[curr].on_rq
      /\ t.class = task[curr].class /\ t.rt_priority = task[curr].rt_priority
  BY <1>1, ThreadFacts DEF task_struct, State
<1> HIDE DEF t
<1>4. RunQueueOK(task', rq') /\ ThreadsOK(task', curr')
  BY <1>1, <1>2, <1>3, ThreadFacts, SameOnQueueOK, UpdateOK
<1> QED BY <1>2, <1>4 DEF Inv

\* ... and where the sleep is called off.
LEMMA SetRunningStep ==
    ASSUME Inv, SetRunning
    PROVE  Inv'
<1> DEFINE t == [task[curr] EXCEPT !.state = "RUNNING"]
<1>1. curr \in Task
  BY CurrFacts DEF SetRunning
<1>2. /\ task' = [task EXCEPT ![curr] = t] /\ rq' = rq /\ curr' = curr
      /\ need_resched' = need_resched
  BY DEF SetRunning
<1>3. /\ t \in task_struct /\ t.state = "RUNNING" /\ t.on_rq = task[curr].on_rq
      /\ t.class = task[curr].class /\ t.rt_priority = task[curr].rt_priority
  BY <1>1, ThreadFacts DEF task_struct, State
<1> HIDE DEF t
<1>4. RunQueueOK(task', rq') /\ ThreadsOK(task', curr')
  BY <1>1, <1>2, <1>3, ThreadFacts, SameOnQueueOK, UpdateOK
<1> QED BY <1>2, <1>4 DEF Inv

\* try_to_wake_up, on or off the run queue.
LEMMA WakeStep ==
    ASSUME Inv, NEW p \in Task, Wake(p)
    PROVE  Inv'
<1> DEFINE t == task[p]
           woken == [t EXCEPT !.on_rq = TRUE, !.state = "RUNNING"]
<1>1. /\ task' = [task EXCEPT ![p] = woken] /\ curr' = curr
      /\ rq' = IF t.on_rq THEN rq ELSE enqueue_task(rq, p, woken, FALSE)
      /\ need_resched' \in BOOLEAN
  BY ReschedType DEF Wake
<1>2. /\ woken \in task_struct /\ woken.state = "RUNNING" /\ woken.on_rq
      /\ woken.class = t.class /\ woken.rt_priority = t.rt_priority
  <2>1. t \in task_struct /\ "RUNNING" \in State
    BY ThreadFacts DEF State
  <2> HIDE DEF t
  <2> QED BY <2>1 DEF task_struct
<1>3. Typed(task) /\ RunQueueOK(task, rq) /\ ThreadsOK(task, curr) /\ p \in Threads
      /\ t.on_rq \in BOOLEAN
  BY ThreadFacts
<1> HIDE DEF woken
<1>4. RunQueueOK(task', rq')
  <2>1. CASE t.on_rq
    BY <1>1, <1>2, <1>3, <2>1, SameOnQueueOK
  <2>2. CASE ~t.on_rq
    BY <1>1, <1>2, <1>3, <2>2, EnqueueTaskOK
  <2> QED BY <2>1, <2>2
<1>5. ThreadsOK(task', curr')
  BY <1>1, <1>2, <1>3, UpdateOK
<1> QED BY <1>1, <1>4, <1>5 DEF Inv

\* sched_yield.
LEMMA YieldSwitches ==
    ASSUME Inv, Yield
    PROVE  \E T, q : Switches(T, q)
<1>1. /\ Typed(task) /\ RunQueueOK(task, rq) /\ ThreadsOK(task, curr)
      /\ curr \in Task /\ task[curr].state = "RUNNING" /\ task[curr].on_rq
      /\ task[curr] \in task_struct
  BY CurrFacts, ThreadFacts DEF Yield, InUser
<1>2. CASE task[curr].class # "wrr"
  <2>1. Switches(task, rq)
    BY <1>1, <1>2 DEF Yield, ThreadsOK, Switches
  <2> QED BY <2>1
<1>3. CASE task[curr].class = "wrr"
  <2>1. PICK r \in yield_task_wrr(rq.wrr, curr, task[curr]) :
           switch_from([task EXCEPT ![curr] = r.task], [rq EXCEPT !.wrr = r.wrr])
    BY <1>3 DEF Yield
  <2>2. curr \in Queued(task, "wrr")
    BY <1>1, <1>3 DEF Queued
  <2>3. r \in requeue(rq.wrr, curr, task[curr])
    BY <2>1 DEF yield_task_wrr, requeue, Basic!yield_task_wrr, RMLFQ!yield_task_wrr
  <2>4. Hooked(task[curr], task[curr])
    BY <1>1 DEF Hooked
  <2> DEFINE T == [task EXCEPT ![curr] = r.task]
             q == [rq EXCEPT !.wrr = r.wrr]
  <2>5. Hooked(task[curr], r.task) /\ RunQueueOK(T, q)
    BY <1>1, <2>2, <2>3, <2>4, RequeueOK
  <2>6. ThreadsOK(T, curr)
    BY <1>1, <2>5, SameStateOK DEF Hooked
  <2>7. T[curr].state = "RUNNING" /\ \A x \in Threads : T[x].class = task[x].class
    BY <1>1, <2>5 DEF Hooked, Typed, Threads
  <2>8. switch_from(T, q)
    BY <2>1
  <2> HIDE DEF T, q
  <2>9. Switches(T, q)
    BY <2>5, <2>6, <2>7, <2>8 DEF ThreadsOK, Switches
  <2> QED BY <2>9
<1> QED BY <1>2, <1>3

\* do_exit marks curr dead; it is still on the run queue.
LEMMA ExitStep ==
    ASSUME Inv, Exit
    PROVE  Inv'
<1> DEFINE t == [task[curr] EXCEPT !.state = "DEAD"]
<1>1. curr \in Task
  BY CurrFacts DEF Exit, InUser
<1>2. /\ task' = [task EXCEPT ![curr] = t] /\ rq' = rq /\ curr' = curr
      /\ need_resched' = need_resched
  BY DEF Exit
<1>3. /\ t \in task_struct /\ t.state = "DEAD" /\ t.on_rq = task[curr].on_rq
      /\ t.class = task[curr].class /\ t.rt_priority = task[curr].rt_priority
  BY <1>1, ThreadFacts DEF task_struct, State
<1> HIDE DEF t
<1>4. RunQueueOK(task', rq') /\ ThreadsOK(task', curr')
  BY <1>1, <1>2, <1>3, ThreadFacts, SameOnQueueOK, UpdateOK
<1> QED BY <1>2, <1>4 DEF Inv

\* Priorities are those of some class.
LEMMA PrioTypes ==
    ASSUME NEW t \in task_struct
    PROVE  /\ normal_prio(t) \in 0 .. NPrio + 1
           /\ effective_prio(t) \in 0 .. NPrio + 1
           /\ rt_mutex_getprio(t) \in 0 .. NPrio + 1
<1>1. /\ NPrio \in Nat \ {0} /\ t.rt_priority \in 0 .. NPrio - 1
      /\ t.static_prio \in {NPrio, NPrio + 1} /\ t.prio \in 0 .. NPrio + 1
      /\ t.pi \in 0 .. NPrio + 2
  BY NPrioAssumption DEF task_struct, NicePrio, NiceBetter, NiceDefault, NoWaiter
<1>2. normal_prio(t) \in 0 .. NPrio + 1
  BY <1>1 DEF normal_prio
<1>3. effective_prio(t) \in 0 .. NPrio + 1
  BY <1>1, <1>2 DEF effective_prio
<1>4. rt_mutex_getprio(t) \in 0 .. NPrio + 1
  BY <1>1, <1>2 DEF rt_mutex_getprio
<1> QED BY <1>2, <1>3, <1>4

\* sched_fork makes a thread that is not runnable yet.
LEMMA ForkType ==
    ASSUME NEW t \in task_struct, curr \in Threads
    PROVE  /\ sched_fork(t) \in task_struct
           /\ sched_fork(t).state = "NEW" /\ ~sched_fork(t).on_rq
<1> DEFINE kept  == [t EXCEPT !.prio = normal_prio(t)]
           plain == IF rt_policy(t.policy)
                    THEN [t EXCEPT !.policy = "NORMAL", !.static_prio = NiceDefault,
                                   !.rt_priority = 0]
                    ELSE [t EXCEPT !.static_prio = NiceDefault]
           child == IF t.reset_on_fork
                    THEN [plain EXCEPT !.prio = plain.static_prio, !.reset_on_fork = FALSE]
                    ELSE kept
           class == CASE child.policy = "WRR" -> "wrr"
                      [] child.policy # "WRR" /\ ~rt_prio(child.prio) -> "fair"
                      [] OTHER -> child.class
<1>1. kept \in task_struct
  BY PrioTypes DEF task_struct
<1>2. /\ NiceDefault \in NicePrio /\ NiceDefault \in 0 .. NPrio + 1
      /\ 0 \in 0 .. NPrio - 1 /\ NoWaiter \in 0 .. NoWaiter
  BY NPrioAssumption DEF NicePrio, NiceDefault, NoWaiter
<1>3. plain \in task_struct /\ plain.static_prio = NiceDefault
  BY <1>2 DEF task_struct, Policy
<1> HIDE DEF kept, plain
<1>4. child \in task_struct
  BY <1>1, <1>2, <1>3 DEF task_struct
<1> HIDE DEF child
<1>5. class \in {"rt", "wrr", "fair", "idle"}
  <2>1. child.class \in {"rt", "wrr", "fair", "idle"}
    BY <1>4 DEF task_struct
  <2> QED BY <2>1
<1> HIDE DEF class
<1> DEFINE c == [child EXCEPT !.class = class, !.on_rq = FALSE, !.pi = NoWaiter,
                              !.state = "NEW", !.parent = curr]
<1>6. c \in task_struct /\ c.state = "NEW" /\ ~c.on_rq
  BY <1>2, <1>4, <1>5 DEF task_struct, State
<1>7. sched_fork(t) = c
  BY Zenon DEF sched_fork, child, kept, plain, class
<1> QED BY <1>6, <1>7

\* fork, up to sched_fork.
LEMMA ForkStep ==
    ASSUME Inv, NEW c \in Task, Fork(c)
    PROVE  Inv'
<1> DEFINE t == sched_fork(task[curr])
<1>1. curr \in Task /\ task[curr] \in task_struct /\ curr \in Threads
      /\ task[curr].state = "RUNNING"
  BY CurrFacts, ThreadFacts DEF Fork, InUser
<1>2. t \in task_struct /\ t.state = "NEW" /\ ~t.on_rq
  BY <1>1, ForkType
<1>3. /\ task' = [task EXCEPT ![c] = t] /\ rq' = rq /\ curr' = curr
      /\ need_resched' = need_resched /\ task[c].state = "FREE"
  BY DEF Fork
<1> HIDE DEF t
<1>4. ~task[c].on_rq /\ c # curr /\ c \in Threads
  BY <1>1, <1>3, ThreadFacts
<1>5. RunQueueOK(task', rq') /\ ThreadsOK(task', curr')
  BY <1>2, <1>3, <1>4, ThreadFacts, OffQueueOK, UpdateOK
<1> QED BY <1>3, <1>5 DEF Inv

\* wake_up_new_task.
LEMMA WakeUpNewStep ==
    ASSUME Inv, NEW c \in Task, WakeUpNew(c)
    PROVE  Inv'
<1> DEFINE woken == [task[c] EXCEPT !.on_rq = TRUE, !.state = "RUNNING", !.parent = Idle]
<1>1. /\ task' = [task EXCEPT ![c] = woken] /\ curr' = curr
      /\ rq' = enqueue_task(rq, c, woken, FALSE)
      /\ need_resched' \in BOOLEAN /\ task[c].state = "NEW"
  BY ReschedType DEF WakeUpNew
<1>2. woken \in task_struct /\ woken.state = "RUNNING" /\ woken.on_rq
  <2>1. task[c] \in task_struct /\ "RUNNING" \in State /\ Idle \in Threads
    BY ThreadFacts DEF State, Threads
  <2> QED BY <2>1 DEF task_struct
<1> HIDE DEF woken
<1>3. ~task[c].on_rq
  BY <1>1, ThreadFacts
<1>4. RunQueueOK(task', rq') /\ ThreadsOK(task', curr')
  BY <1>1, <1>2, <1>3, ThreadFacts, EnqueueTaskOK, UpdateOK
<1> QED BY <1>1, <1>4 DEF Inv

\* __setscheduler leaves the state and the queue of the thread to its callers.
LEMMA SetschedulerType ==
    ASSUME NEW t \in task_struct, NEW pol \in Policy, NEW prio \in 0 .. NPrio - 1
    PROVE  LET u == __setscheduler(t, pol, prio)
           IN  u \in task_struct /\ u.state = t.state /\ u.on_rq = t.on_rq
<1> DEFINE s == [t EXCEPT !.policy = pol, !.rt_priority = prio]
           u == [s EXCEPT !.prio = rt_mutex_getprio(s)]
           v == [u EXCEPT !.class = "wrr", !.times = 1, !.time_slice = get_rr_interval_wrr(u)]
           w == __setscheduler(t, pol, prio)
<1>1. s \in task_struct /\ s.state = t.state /\ s.on_rq = t.on_rq
  BY DEF task_struct
<1>2. rt_mutex_getprio(s) \in 0 .. NPrio + 1
  BY <1>1, PrioTypes
<1> HIDE DEF s
<1>3. u \in task_struct /\ u.state = t.state /\ u.on_rq = t.on_rq
  BY <1>1, <1>2 DEF task_struct
<1>4. get_rr_interval_wrr(u) \in 0 .. UMax /\ 1 \in 0 .. UMax
  BY <1>3, SliceType, UMaxAssumption, SliceAssumption
<1> HIDE DEF u
<1>5. v \in task_struct /\ v.state = t.state /\ v.on_rq = t.on_rq
  BY <1>3, <1>4 DEF task_struct
<1>6. w = v \/ w = [u EXCEPT !.class = "rt"] \/ w = [u EXCEPT !.class = "fair"]
  BY Zenon DEF __setscheduler, s, u
<1>7. ASSUME NEW c \in {"rt", "fair"}, w = [u EXCEPT !.class = c]
      PROVE  w \in task_struct /\ w.state = t.state /\ w.on_rq = t.on_rq
  BY <1>3, <1>7 DEF task_struct
<1> QED BY <1>5, <1>6, <1>7

\* sched_setscheduler of any thread that exists.
LEMMA SetSchedulerStep ==
    ASSUME Inv, NEW p \in Task, NEW pol \in Policies, NEW prio \in 0 .. NPrio - 1,
           NEW reset \in Resets, SetScheduler(p, pol, prio, reset)
    PROVE  Inv'
<1> DEFINE old   == task[p]
           wanted == [old EXCEPT !.reset_on_fork = reset]
           new   == __setscheduler(wanted, pol, prio)
<1>1. /\ task' = [task EXCEPT ![p] = new] /\ curr' = curr
      /\ rq' = change_task(rq, p, old, new, FALSE)
      /\ need_resched' \in BOOLEAN
  BY ReschedType DEF SetScheduler
<1>2. wanted \in task_struct /\ wanted.state = old.state /\ wanted.on_rq = old.on_rq
  BY ThreadFacts, ResetAssumption DEF task_struct
<1>3. new \in task_struct /\ new.state = old.state /\ new.on_rq = old.on_rq
  BY <1>2, SetschedulerType, PolicyAssumption
<1> HIDE DEF new
<1>4. RunQueueOK(task', rq') /\ ThreadsOK(task', curr')
  BY <1>1, <1>3, ThreadFacts, ChangeTaskOK, SameStateOK
<1> QED BY <1>1, <1>4 DEF Inv

\* set_user_nice.
LEMMA SetUserNiceStep ==
    ASSUME Inv, NEW p \in Task, NEW nice \in NicePrio, SetUserNice(p, nice)
    PROVE  Inv'
<1> DEFINE old   == task[p]
           niced == [old EXCEPT !.static_prio = nice]
           new   == IF rt_policy(old.policy) THEN niced
                    ELSE [niced EXCEPT !.prio = effective_prio(niced)]
<1>1. /\ task' = [task EXCEPT ![p] = new] /\ curr' = curr
      /\ rq' = IF rt_policy(old.policy) THEN rq
               ELSE change_task(rq, p, old, new, FALSE)
      /\ need_resched' \in BOOLEAN
  BY DEF SetUserNice
<1>2. /\ niced \in task_struct /\ niced.state = old.state /\ niced.on_rq = old.on_rq
      /\ niced.class = old.class /\ niced.rt_priority = old.rt_priority
  BY ThreadFacts DEF task_struct
<1>3. effective_prio(niced) \in 0 .. NPrio + 1
  BY <1>2, PrioTypes
<1> HIDE DEF niced
<1>4. /\ new \in task_struct /\ new.state = old.state /\ new.on_rq = old.on_rq
      /\ new.class = old.class /\ new.rt_priority = old.rt_priority
  BY <1>2, <1>3 DEF task_struct
<1> HIDE DEF new
<1>5. ThreadsOK(task', curr')
  BY <1>1, <1>4, ThreadFacts, SameStateOK
<1>6. RunQueueOK(task', rq')
  BY <1>1, <1>4, ThreadFacts, ChangeTaskOK, SameOnQueueOK
<1> QED BY <1>1, <1>5, <1>6 DEF Inv

\* rt_mutex_setprio, to boost and to end a boost.
LEMMA RtMutexSetprioStep ==
    ASSUME Inv, NEW p \in Task, NEW donor \in Donors \union {NoWaiter},
           RtMutexSetprio(p, donor)
    PROVE  Inv'
<1> DEFINE waited == [task[p] EXCEPT !.pi = donor]
           prio   == rt_mutex_getprio(waited)
           boosted == [waited EXCEPT !.prio = prio,
                                     !.class = IF rt_prio(prio) THEN "rt" ELSE "fair"]
           new    == IF prio = waited.prio THEN waited ELSE boosted
<1>1. /\ task' = [task EXCEPT ![p] = new] /\ curr' = curr
      /\ rq' = IF prio = waited.prio THEN rq
               ELSE change_task(rq, p, waited, new, waited.prio < prio)
      /\ need_resched' \in BOOLEAN
  BY ReschedType DEF RtMutexSetprio
<1>2. donor \in 0 .. NoWaiter
  BY DonorAssumption, NPrioAssumption DEF NoWaiter
<1>3. /\ waited \in task_struct /\ waited.state = task[p].state
      /\ waited.on_rq = task[p].on_rq
      /\ waited.class = task[p].class /\ waited.rt_priority = task[p].rt_priority
  BY <1>2, ThreadFacts DEF task_struct
<1>4. prio \in 0 .. NPrio + 1
  BY <1>3, PrioTypes
<1> HIDE DEF waited, prio
<1>5. boosted \in task_struct /\ boosted.state = task[p].state /\ boosted.on_rq = task[p].on_rq
  BY <1>3, <1>4 DEF task_struct
<1> HIDE DEF boosted
<1>6. CASE prio = waited.prio
  BY <1>1, <1>3, <1>6, ThreadFacts, SameOnQueueOK, SameStateOK DEF Inv
<1>7. CASE prio # waited.prio
  <2> DEFINE lower == waited.prio < prio
  <2>1. rq' = change_task(rq, p, waited, boosted, lower) /\ task' = [task EXCEPT ![p] = boosted]
    BY <1>1, <1>7
  <2> HIDE DEF lower
  <2>2. RunQueueOK(task', rq')
    BY <1>3, <1>5, <2>1, ThreadFacts, ChangeTaskOK
  <2>3. ThreadsOK([task EXCEPT ![p] = boosted], curr)
    BY <1>5, ThreadFacts, SameStateOK
  <2> QED BY <1>1, <2>1, <2>2, <2>3 DEF Inv
<1> QED BY <1>6, <1>7

\* sched_move_task.
LEMMA MoveTaskStep ==
    ASSUME Inv, NEW p \in Task, NEW group \in {"fg", "bg"}, MoveTask(p, group)
    PROVE  Inv'
<1> DEFINE old == task[p]
           new == [old EXCEPT !.group = group]
<1>1. /\ task' = [task EXCEPT ![p] = new] /\ curr' = curr
      /\ rq' = change_task(rq, p, old, new, FALSE)
      /\ need_resched' = need_resched
  BY DEF MoveTask
<1>2. new \in task_struct /\ new.state = old.state /\ new.on_rq = old.on_rq
  BY ThreadFacts DEF task_struct
<1> HIDE DEF new
<1>3. RunQueueOK(task', rq') /\ ThreadsOK(task', curr')
  BY <1>1, <1>2, ThreadFacts, ChangeTaskOK, SameStateOK
<1> QED BY <1>1, <1>3 DEF Inv

-----------------------------------------------------------------------------
\* The threads as the machine boots.
LEMMA InitInv ==
    ASSUME Init
    PROVE  Inv
<1>1. PICK first \in [Task -> Boot \union IF "fork" \in Ops THEN {<<>>} ELSE {}] :
         task = [p \in Threads |->
                     CASE p = Idle -> idle_task
                       [] p # Idle /\ first[p] = <<>> -> blank
                       [] OTHER -> booted(first[p])]
  BY DEF Init
<1>2. blank \in task_struct /\ ~blank.on_rq /\ blank.state = "FREE"
  <2>1. /\ NPrio \in Nat \ {0} /\ UMax \in Nat
    BY NPrioAssumption, UMaxAssumption
  <2> QED BY <2>1 DEF blank, task_struct, Policy, NicePrio, NiceDefault, NoWaiter, State, Threads
<1>3. idle_task \in task_struct
  BY <1>2 DEF idle_task, task_struct, State
<1>4. ASSUME NEW b \in Boot
      PROVE  booted(b) \in task_struct /\ ~booted(b).on_rq /\ booted(b).state = "SLEEPING"
  <2> DEFINE t == [blank EXCEPT !.group = b[3]]
             u == __setscheduler(t, b[1], b[2])
  <2>1. b[1] \in Policy /\ b[2] \in 0 .. NPrio - 1 /\ b[3] \in {"fg", "bg"}
    BY BootAssumption
  <2>2. t \in task_struct /\ ~t.on_rq
    BY <1>2, <2>1 DEF task_struct
  <2>3. u \in task_struct /\ ~u.on_rq
    BY <2>1, <2>2, SetschedulerType
  <2> HIDE DEF u
  <2>4. booted(b) = [u EXCEPT !.state = "SLEEPING"]
    BY DEF booted, u
  <2> QED BY <2>3, <2>4 DEF task_struct, State
<1>5. task[Idle] = idle_task
  BY <1>1 DEF Threads
<1>6. ASSUME NEW p \in Task
      PROVE  /\ task[p] \in task_struct /\ ~task[p].on_rq
             /\ task[p].state \in {"FREE", "SLEEPING"}
  <2>1. p # Idle /\ p \in Threads
    BY IdleAssumption DEF Threads
  <2>2. first[p] \in Boot \/ first[p] = <<>>
    OBVIOUS
  <2>3. task[p] = IF first[p] = <<>> THEN blank ELSE booted(first[p])
    BY <1>1, <2>1
  <2> QED BY <1>2, <1>4, <2>2, <2>3
<1>7. Typed(task)
  <2>1. \A p \in Threads : task[p] \in task_struct
    BY <1>3, <1>5, <1>6 DEF Threads
  <2>2. task = [p \in Threads |-> task[p]]
    BY <1>1
  <2> HIDE DEF Init
  <2> QED BY <2>1, <2>2 DEF Typed
<1>8. curr = Idle /\ need_resched = FALSE /\ rq = [nr_running |-> 0, wrr |-> init_wrr_rq]
  BY DEF Init
<1>9. ThreadsOK(task, curr)
  BY <1>5, <1>6, <1>7, <1>8 DEF ThreadsOK, Leaving, Threads
<1>10. RunQueueOK(task, rq)
  <2>1. On(task) = {} /\ Queued(task, "wrr") = {}
    BY <1>6 DEF On, Queued
  <2>2. ArrayOK(init_wrr_rq, {}, levels(task))
    BY <1>7, LevelsType, InitOK
  <2>3. Cardinality({}) = 0
    BY FS_EmptySet
  <2> QED BY <1>8, <2>1, <2>2, <2>3 DEF RunQueueOK, ArrayOK
<1> QED BY <1>8, <1>9, <1>10 DEF Inv

\* Every step keeps Inv.
LEMMA NextInv ==
    ASSUME Inv, [Next]_vars
    PROVE  Inv'
<1>1. CASE TickWrr
  BY <1>1, TickWrrStep
<1>2. CASE TickOther
  BY <1>2 DEF TickOther, Inv
<1>3. CASE Schedule
  BY <1>3, ScheduleSwitches, SwitchOK
<1>4. CASE PreemptSchedule
  BY <1>4, PreemptSwitches, SwitchOK
<1>5. CASE SetSleeping
  BY <1>5, SetSleepingStep
<1>6. CASE SetRunning
  BY <1>6, SetRunningStep
<1>7. CASE Yield
  BY <1>7, YieldSwitches, SwitchOK
<1>8. CASE Exit
  BY <1>8, ExitStep
<1>9. ASSUME NEW p \in Task, Wake(p) PROVE Inv'
  BY <1>9, WakeStep
<1>10. ASSUME NEW p \in Task, Fork(p) PROVE Inv'
  BY <1>10, ForkStep
<1>11. ASSUME NEW p \in Task, WakeUpNew(p) PROVE Inv'
  BY <1>11, WakeUpNewStep
<1>12. ASSUME NEW p \in Task, NEW nice \in NicePrio, SetUserNice(p, nice) PROVE Inv'
  BY <1>12, SetUserNiceStep
<1>13. ASSUME NEW p \in Task, NEW donor \in Donors \union {NoWaiter}, RtMutexSetprio(p, donor)
       PROVE  Inv'
  BY <1>13, RtMutexSetprioStep
<1>14. ASSUME NEW p \in Task, NEW group \in {"fg", "bg"}, MoveTask(p, group) PROVE Inv'
  BY <1>14, MoveTaskStep
<1>15. ASSUME NEW p \in Task, NEW pol \in Policies, NEW prio \in 0 .. NPrio - 1,
              NEW reset \in Resets, SetScheduler(p, pol, prio, reset)
       PROVE  Inv'
  BY <1>15, SetSchedulerStep
<1>16. CASE UNCHANGED vars
  BY <1>16 DEF vars, Inv
<1> QED BY <1>1, <1>2, <1>3, <1>4, <1>5, <1>6, <1>7, <1>8, <1>9, <1>10, <1>11, <1>12,
           <1>13, <1>14, <1>15, <1>16 DEF Next, Kernel

\* Inv is an invariant of the specification.
LEMMA InvAlways == Spec => []Inv
<1>1. Init => Inv
  BY InitInv
<1>2. Inv /\ [Next]_vars => Inv'
  BY NextInv
<1> QED BY <1>1, <1>2, PTL DEF Spec

-----------------------------------------------------------------------------
\* The variables keep their types.
THEOREM TypeCorrect == Spec => []TypeOK
<1>1. Inv => TypeOK
  BY InvImplies
<1> QED BY <1>1, InvAlways, PTL

\* Every runnable thread of the class is queued once, at its level, with bitmap
\* and counters exact, after any sequence of the operations of core.c.
THEOREM QueueCorrect == Spec => []QueueInv
<1>1. Inv => QueueInv
  BY InvImplies
<1> QED BY <1>1, InvAlways, PTL

\* The BUG_ON of pick_next_task_wrr never fires.
THEOREM NoBug == Spec => []NoPickBug
<1>1. Inv => NoPickBug
  BY InvImplies
<1> QED BY <1>1, InvAlways, PTL

\* No wake-up is lost: TASK_RUNNING threads, and the CPU's, are on the run queue.
THEOREM NoLostWakeup == Spec => []RunnableIsQueued
<1>1. Inv => RunnableIsQueued
  BY InvImplies
<1> QED BY <1>1, InvAlways, PTL

-----------------------------------------------------------------------------
(* Part 3: policies, classes, priorities and slices.                         *)
(*                                                                           *)
(* What a thread's policy, class, priority and slice say of each other, of   *)
(* every number of threads and priorities, of both builds and every set of   *)
(* operations: SliceLeft, PolicyNamesClass, ForkResets, ClassOrderKept and   *)
(* OtherRequestsHonoured.                                                    *)
(*                                                                           *)
(* The invariant of part 2 says where a thread is; Kept says what it is.     *)
(* Kept looks at one thread only, but every operation that changes the       *)
(* policy, the class or the priority leans on it for the thread it changes,  *)
(* and sched_fork on it for the thread it copies.                            *)

\* The longest slice either build gives.
MaxSlice == ForeSlice * ((NPrio - 1) \div StageWidth + 1) + BackSlice

\* No request puts a thread into the class: threads are in it from the start,
\* or forked by one that is.
NoneEnter == "setscheduler" \in Ops => "WRR" \notin Policies

\* An unsigned int has room for the thresholds of every level: it goes up to
\* 4294967295, and there are 100 levels.
LargeUInt == UMax >= 13 + NPrio

\* The times a thread counts at level i before every random number makes it jump.
Often(i) == IF WideLiteral THEN 3 ELSE 5 + RMLFQ!bonus(i)

Seldom(t) ==
    LargeUInt /\ t.policy = "WRR" => t.times \in 0 .. Often(wrr_se_prio(t.rt_priority))

Unboosted(t) == NoneEnter /\ t.class = "wrr" => ~rt_prio(t.prio)

Kept(t) ==
    /\ Seldom(t)
    /\ Unboosted(t)
    /\ t.class \in {"rt", "wrr", "fair"}
    /\ t.class = "wrr" => t.policy = "WRR"
    /\ t.policy = "WRR" => t.time_slice \in 1 .. MaxSlice
    /\ t.class = "rt" => rt_prio(t.prio)
    /\ t.class = "fair" => ~rt_prio(t.prio)
    /\ rt_policy(t.policy) => rt_prio(t.prio)
    /\ t.policy = "NORMAL" => t.rt_priority = 0 /\ (t.pi = NoWaiter => ~rt_prio(t.prio))

AllKept(T) == \A p \in Task : Kept(T[p])

PolicyInv == Inv /\ AllKept(task)

-----------------------------------------------------------------------------
(* Slices. *)

\* A level lies in no later stage than the last one.
LEMMA StageBound ==
    ASSUME NEW i \in Prio
    PROVE  /\ i \div StageWidth \in Nat
           /\ i \div StageWidth <= (NPrio - 1) \div StageWidth
<1>1. /\ NPrio \in Nat \ {0} /\ i \in 0 .. NPrio - 1
      /\ StageWidth \in Nat \ {0}
  BY NPrioAssumption, StageAssumption DEF Prio
<1> QED BY <1>1

\* Every slice has a tick and none is longer than MaxSlice.
LEMMA SliceBound ==
    ASSUME NEW t \in task_struct
    PROVE  get_rr_interval_wrr(t) \in 1 .. MaxSlice
<1>1. /\ ForeSlice \in Nat \ {0} /\ BackSlice \in Nat \ {0}
      /\ NPrio \in Nat \ {0} /\ StageWidth \in Nat \ {0}
  BY SliceAssumption, NPrioAssumption, StageAssumption
<1> DEFINE last == (NPrio - 1) \div StageWidth + 1
<1>2. last \in Nat \ {0}
  <2>1. NPrio - 1 \in Prio
    BY <1>1 DEF Prio
  <2> QED BY <2>1, StageBound
<1> HIDE DEF last
<1>3. ASSUME NEW k \in Nat \ {0}, k <= last
      PROVE  ForeSlice * k \in Nat \ {0} /\ ForeSlice * k <= ForeSlice * last
  BY <1>1, <1>2, <1>3
<1>4. ForeSlice \in 1 .. MaxSlice /\ BackSlice \in 1 .. MaxSlice
  <2>1. ForeSlice <= ForeSlice * last /\ ForeSlice * last \in Nat
    BY <1>1, <1>2, <1>3
  <2> QED BY <1>1, <2>1 DEF MaxSlice, last
<1>5. CASE Build = "basic"
  BY <1>4, <1>5 DEF get_rr_interval_wrr, Basic!get_rr_interval_wrr
<1>6. CASE Build # "basic"
  <2> DEFINE i == RMLFQ!wrr_se_prio(t.rt_priority)
             k == i \div StageWidth + 1
  <2>1. i \in Prio
    <3>1. t.rt_priority \in 0 .. NPrio - 1
      BY DEF task_struct
    <3> QED BY <3>1, <1>6, LevelType DEF wrr_se_prio
  <2> HIDE DEF i
  <2>2. k \in Nat \ {0} /\ k <= last
    BY <2>1, <1>1, <1>2, StageBound DEF last
  <2>3. ForeSlice * k \in 1 .. MaxSlice
    <3> HIDE DEF k
    <3>1. ForeSlice * k \in Nat \ {0} /\ ForeSlice * k <= ForeSlice * last
      BY <1>3, <2>2
    <3>2. ForeSlice * last \in Nat /\ MaxSlice = ForeSlice * last + BackSlice
      BY <1>1, <1>2 DEF MaxSlice, last
    <3> QED BY <1>1, <3>1, <3>2
  <2>4. get_rr_interval_wrr(t) = IF t.group = "bg" THEN BackSlice ELSE ForeSlice * k
    BY <1>6, Zenon DEF get_rr_interval_wrr, RMLFQ!get_rr_interval_wrr, i, k
  <2> QED BY <1>4, <2>3, <2>4
<1> QED BY <1>5, <1>6

\* A tick of a thread with a tick left leaves it one.
LEMMA TickLeavesOne ==
    ASSUME NEW t \in task_struct, t.time_slice \in 1 .. MaxSlice,
           NEW n \in next_slices(t)
    PROVE  n \in 1 .. MaxSlice
<1>1. get_rr_interval_wrr(t) \in 1 .. MaxSlice
  BY SliceBound
<1>2. ASSUME n \in 1 .. UMax, n = IF t.time_slice = 0 THEN UMax ELSE t.time_slice - 1
      PROVE  n \in 1 .. MaxSlice
  <2>1. ForeSlice * ((NPrio - 1) \div StageWidth + 1) + BackSlice \in Int
    BY NPrioAssumption, SliceAssumption, StageAssumption
  <2> QED BY <1>2, <2>1, UMaxAssumption DEF MaxSlice
<1> QED BY <1>1, <1>2 DEF next_slices

-----------------------------------------------------------------------------
(* Times. *)

\* Every level has a bonus, of at most one for two levels.
LEMMA BonusType ==
    ASSUME NEW i \in Prio
    PROVE  RMLFQ!bonus(i) \in Nat /\ 2 * RMLFQ!bonus(i) <= NPrio - 1
<1>1. /\ NPrio \in Nat \ {0} /\ i \in 0 .. NPrio - 1
      /\ StageWidth \in Nat \ {0}
  BY NPrioAssumption, StageAssumption DEF Prio
<1>2. RMLFQ!bonus(i) = i \div (2 * StageWidth)
  BY DEF RMLFQ!bonus
<1> DEFINE d == 2 * StageWidth
           b == i \div d
<1>3. d \in Nat /\ d >= 2
  BY <1>1
<1> HIDE DEF d
<1>4. b \in Nat /\ d * b <= i
  BY <1>1, <1>3
<1> HIDE DEF b
<1>5. 2 * b <= d * b
  BY <1>3, <1>4
<1> QED BY <1>1, <1>2, <1>4, <1>5 DEF b, d

\* A thread may count once wherever it is.
LEMMA OftenPositive ==
    ASSUME NEW i \in Prio
    PROVE  Often(i) \in Nat /\ Often(i) >= 1
BY BonusType DEF Often

\* k * UNSIGNED_MAX / 10 is positive for a small positive k, also where the
\* product is cut to an unsigned int.
LEMMA PositiveThreshold ==
    ASSUME NEW k \in 1 .. UMax - 9
    PROVE  RMLFQ!threshold(k) \in Nat /\ RMLFQ!threshold(k) >= 1
<1> DEFINE M == UMax + 1
<1>1. UMax \in Nat /\ UMax >= 10
  BY UMaxAssumption
<1>2. CASE ~WideLiteral
  <2>1. RMLFQ!threshold(k) = (((k % M) * UMax) % M) \div 10
    BY <1>2 DEF RMLFQ!threshold
  <2>2. k % M = k
    BY <1>1
  <2>3. (k * UMax) % M = M - k
    <3>1. k * UMax = (k - 1) * M + (M - k)
      BY <1>1
    <3>2. M \in Nat \ {0} /\ k - 1 \in Nat /\ M - k \in 0 .. M - 1
      BY <1>1
    <3> HIDE DEF M
    <3>3. ((k - 1) * M + (M - k)) % M = M - k
      BY <3>2, ModOf
    <3> QED BY <3>1, <3>3
  <2> QED BY <1>1, <2>1, <2>2, <2>3
<1>3. CASE WideLiteral
  <2>1. RMLFQ!threshold(k) = (k * UMax) \div 10
    BY <1>3 DEF RMLFQ!threshold
  <2>2. k * UMax \in Nat /\ k * UMax >= 10
    BY <1>1
  <2> QED BY <2>1, <2>2
<1> QED BY <1>2, <1>3

\* Where it is not cut, it grows with k.
LEMMA ThresholdGrows ==
    ASSUME WideLiteral, UMax >= 10, NEW k \in Nat, NEW l \in Nat, k < l
    PROVE  /\ RMLFQ!threshold(k) \in Nat /\ RMLFQ!threshold(l) \in Nat
           /\ RMLFQ!threshold(k) < RMLFQ!threshold(l)
<1>1. /\ RMLFQ!threshold(k) = (k * UMax) \div 10
      /\ RMLFQ!threshold(l) = (l * UMax) \div 10
  BY DEF RMLFQ!threshold
<1> DEFINE a == k * UMax
           b == l * UMax
<1>2. a \in Nat /\ b \in Nat /\ a + UMax <= b
  <2>1. UMax \in Nat /\ l - k \in Nat /\ l - k >= 1
    BY UMaxAssumption
  <2>2. b = a + (l - k) * UMax
    BY <2>1
  <2>3. (l - k) * UMax >= UMax
    BY <2>1
  <2>4. a \in Nat /\ (l - k) * UMax \in Nat
    BY <2>1
  <2> HIDE DEF a, b
  <2> QED BY <2>1, <2>2, <2>3, <2>4
<1>3. UMax \in Nat
  BY UMaxAssumption
<1> HIDE DEF a, b
<1>4. a \div 10 \in Nat /\ b \div 10 \in Nat /\ a \div 10 < b \div 10
  BY <1>2, <1>3
<1> QED BY <1>1, <1>4 DEF a, b

\* A thread that stayed as often as that jumps, whatever number it draws.
LEMMA AlwaysJumps ==
    ASSUME LargeUInt, NEW i \in Prio, NEW t, t.times = Often(i), NEW x \in 0 .. UMax,
           ~RMLFQ!goes_low(x, t, i)
    PROVE  RMLFQ!goes_high(x, t, i)
<1> DEFINE b == RMLFQ!bonus(i)
<1>1. /\ b \in Nat /\ 2 * b <= NPrio - 1 /\ NPrio \in Nat /\ UMax \in Nat
      /\ UMax >= 13 + NPrio /\ WideLiteral \in BOOLEAN
  BY BonusType, UMaxAssumption, NPrioAssumption, StageAssumption DEF LargeUInt
<1> HIDE DEF b
<1>2. CASE ~WideLiteral
  <2>1. t.times = 5 + b
    BY <1>2 DEF Often, b
  <2>2. 5 + b + b \in 1 .. UMax - 9 /\ 5 - (5 + b) + b = 0
    BY <1>1
  <2>3. ~(x < RMLFQ!threshold(5 + b + b))
    BY <2>1 DEF RMLFQ!goes_low, b
  <2>4. x >= 1
    <3>1. RMLFQ!threshold(5 + b + b) \in Nat /\ RMLFQ!threshold(5 + b + b) >= 1
      BY <2>2, PositiveThreshold
    <3> QED BY <2>3, <3>1
  <2>5. RMLFQ!threshold(0) = 0
    <3>1. RMLFQ!threshold(0) = (((0 % (UMax + 1)) * UMax) % (UMax + 1)) \div 10
      BY <1>2 DEF RMLFQ!threshold
    <3>2. 0 % (UMax + 1) = 0 /\ 0 * UMax = 0
      BY <1>1
    <3> QED BY <3>1, <3>2
  <2>6. x > RMLFQ!threshold(5 - t.times + b)
    BY <2>1, <2>2, <2>4, <2>5
  <2> QED BY <2>6 DEF RMLFQ!goes_high, b
<1>3. CASE WideLiteral
  <2>1. t.times = 3
    BY <1>3 DEF Often
  <2>2. 3 + b \in Nat /\ 2 + b \in Nat /\ 2 + b < 3 + b /\ 5 - 3 + b = 2 + b /\ UMax >= 10
    BY <1>1
  <2>3. ~(x < RMLFQ!threshold(3 + b))
    BY <2>1 DEF RMLFQ!goes_low, b
  <2>4. x > RMLFQ!threshold(2 + b)
    <3>1. /\ RMLFQ!threshold(2 + b) \in Nat /\ RMLFQ!threshold(3 + b) \in Nat
          /\ RMLFQ!threshold(2 + b) < RMLFQ!threshold(3 + b)
      BY <1>3, <2>2, ThresholdGrows
    <3> QED BY <2>3, <3>1
  <2>5. x > RMLFQ!threshold(5 - t.times + b)
    BY <2>1, <2>2, <2>4
  <2> QED BY <2>5 DEF RMLFQ!goes_high, b
<1> QED BY <1>1, <1>2, <1>3

\* So a requeue keeps the times within bounds.
LEMMA RequeueSeldom ==
    ASSUME Build # "basic", NEW t \in task_struct, t.policy = "WRR", Seldom(t), NEW a, NEW p,
           NEW x \in 0 .. UMax, NEW r, r = RMLFQ!requeued(a, p, t, FALSE, x)
    PROVE  Seldom(r.task)
<1> DEFINE i     == RMLFQ!wrr_se_prio(t.rt_priority)
           reset == [t EXCEPT !.times = 1]
           low   == [reset EXCEPT !.rt_priority = @ + StageWidth]
           high  == [reset EXCEPT !.rt_priority = @ - StageWidth]
           more  == [t EXCEPT !.times = RMLFQ!incremented(@)]
           here  == RMLFQ!move_in_queue(a, p, i, FALSE)
           to(j) == RMLFQ!move_to_queue(a, p, i, j, FALSE)
<1>1. \/ i > StageWidth - 1 /\ r.task = low
      \/ i < NPrio - StageWidth /\ r.task = high
      \/ ~RMLFQ!goes_low(x, t, i) /\ ~RMLFQ!goes_high(x, t, i) /\ r.task = more
      \/ r.task = reset
  <2>1. \A A, B : RMLFQ!result(A, B, FALSE).task = B
    BY DEF RMLFQ!result
  <2> DEFINE down == RMLFQ!goes_low(x, t, i) /\ i > StageWidth - 1
             up   == RMLFQ!goes_high(x, t, i) /\ i < NPrio - StageWidth
             stay == ~RMLFQ!goes_low(x, t, i) /\ ~RMLFQ!goes_high(x, t, i)
  <2>2. r = CASE down -> RMLFQ!result(to(i - StageWidth), low, FALSE)
              [] up   -> RMLFQ!result(to(i + StageWidth), high, FALSE)
              [] stay -> RMLFQ!result(here, more, FALSE)
              [] OTHER -> RMLFQ!result(here, reset, FALSE)
    BY Zenon DEF RMLFQ!requeued
  <2>3. \/ down /\ r = RMLFQ!result(to(i - StageWidth), low, FALSE)
        \/ up /\ r = RMLFQ!result(to(i + StageWidth), high, FALSE)
        \/ stay /\ r = RMLFQ!result(here, more, FALSE)
        \/ r = RMLFQ!result(here, reset, FALSE)
    <3> HIDE DEF down, up, stay, here, to, low, high, more, reset, i
    <3> QED BY <2>2, Zenon
  <2> HIDE DEF here, to
  <2> HIDE DEF low, high, more, reset, i
  <2>4. ASSUME down, r = RMLFQ!result(to(i - StageWidth), low, FALSE)
        PROVE  i > StageWidth - 1 /\ r.task = low
    BY <2>1, <2>4, Zenon
  <2>5. ASSUME up, r = RMLFQ!result(to(i + StageWidth), high, FALSE)
        PROVE  i < NPrio - StageWidth /\ r.task = high
    BY <2>1, <2>5, Zenon
  <2>6. ASSUME stay, r = RMLFQ!result(here, more, FALSE)
        PROVE  ~RMLFQ!goes_low(x, t, i) /\ ~RMLFQ!goes_high(x, t, i) /\ r.task = more
    BY <2>1, <2>6, Zenon
  <2>7. ASSUME r = RMLFQ!result(here, reset, FALSE)
        PROVE  r.task = reset
    BY <2>1, <2>7, Zenon
  <2> HIDE DEF down, up, stay
  <2> QED BY <2>3, <2>4, <2>5, <2>6, <2>7, Zenon
<1>2. /\ t.rt_priority \in Prio /\ t.times \in 0 .. UMax /\ NPrio \in Nat /\ UMax \in Nat
      /\ StageWidth \in Nat \ {0} /\ i = NPrio - 1 - t.rt_priority
  BY NPrioAssumption, UMaxAssumption, StageAssumption DEF task_struct, Prio, RMLFQ!wrr_se_prio
<1>3. ASSUME NEW n \in Prio
      PROVE  wrr_se_prio(n) = NPrio - 1 - n /\ wrr_se_prio(n) \in Prio
  BY <1>2 DEF wrr_se_prio, RMLFQ!wrr_se_prio, Prio
<1>4. /\ reset \in task_struct /\ reset.times = 1 /\ reset.rt_priority = t.rt_priority
      /\ more.times = RMLFQ!incremented(t.times) /\ more.rt_priority = t.rt_priority
  <2>1. UMax >= 1 /\ 1 \in 0 .. UMax
    BY UMaxAssumption, SliceAssumption
  <2> QED BY <2>1 DEF task_struct
<1> HIDE DEF reset, more
<1>5. /\ low.times = 1 /\ low.rt_priority = t.rt_priority + StageWidth
      /\ high.times = 1 /\ high.rt_priority = t.rt_priority - StageWidth
  BY <1>4 DEF task_struct
<1> HIDE DEF low, high, i
<1>6. ASSUME r.task.times = 1, r.task.rt_priority \in Prio
      PROVE  Seldom(r.task)
  <2> DEFINE l == wrr_se_prio(r.task.rt_priority)
  <2>1. l \in Prio
    BY <1>3, <1>6
  <2>2. 1 \in 0 .. Often(l)
    <3> HIDE DEF l
    <3> QED BY <2>1, OftenPositive
  <2> QED BY <1>6, <2>2 DEF Seldom
<1>7. CASE i > StageWidth - 1 /\ r.task = low
  <2>1. low.rt_priority \in Prio
    BY <1>2, <1>5, <1>7 DEF Prio
  <2> QED BY <1>5, <1>6, <1>7, <2>1
<1>8. CASE i < NPrio - StageWidth /\ r.task = high
  <2>1. high.rt_priority \in Prio
    BY <1>2, <1>5, <1>8 DEF Prio
  <2> QED BY <1>5, <1>6, <1>8, <2>1
<1>9. CASE r.task = reset
  BY <1>2, <1>4, <1>6, <1>9
<1>10. CASE ~RMLFQ!goes_low(x, t, i) /\ ~RMLFQ!goes_high(x, t, i) /\ r.task = more
  <2> SUFFICES ASSUME LargeUInt
               PROVE  more.times \in 0 .. Often(wrr_se_prio(more.rt_priority))
    BY <1>10 DEF Seldom
  <2>1. i \in Prio /\ wrr_se_prio(t.rt_priority) = i
    BY <1>2, <1>3
  <2>2. t.times # Often(i)
    BY <1>10, <2>1, AlwaysJumps
  <2>3. Often(i) \in Nat /\ t.times \in 0 .. Often(i)
    BY <2>1, OftenPositive DEF Seldom
  <2>4. more.times \in 0 .. Often(i)
    BY <1>2, <1>4, <2>2, <2>3 DEF RMLFQ!incremented
  <2> QED BY <1>4, <2>1, <2>4
<1> QED BY <1>1, <1>7, <1>8, <1>9, <1>10

-----------------------------------------------------------------------------
(* What the operations make of one thread. *)

\* A change of other fields.
LEMMA KeptSame ==
    ASSUME NEW t, Kept(t), NEW u,
           u.class = t.class, u.policy = t.policy, u.prio = t.prio, u.pi = t.pi,
           u.time_slice = t.time_slice, u.rt_priority = t.rt_priority,
           u.times = t.times
    PROVE  Kept(u)
BY DEF Kept, Seldom, Unboosted

\* rt_prio and normal_prio of a policy.
LEMMA NormalPrio ==
    ASSUME NEW t \in task_struct
    PROVE  /\ rt_prio(normal_prio(t)) <=> rt_policy(t.policy)
           /\ rt_policy(t.policy) => rt_prio(rt_mutex_getprio(t))
           /\ t.pi = NoWaiter => rt_mutex_getprio(t) = normal_prio(t)
<1>1. /\ NPrio \in Nat \ {0} /\ t.rt_priority \in 0 .. NPrio - 1
      /\ t.static_prio \in {NPrio, NPrio + 1} /\ t.pi \in 0 .. NPrio + 2
  BY NPrioAssumption DEF task_struct, NicePrio, NiceBetter, NiceDefault, NoWaiter
<1>2. normal_prio(t) = IF rt_policy(t.policy) THEN NPrio - 1 - t.rt_priority ELSE t.static_prio
  BY DEF normal_prio
<1>3. normal_prio(t) \in 0 .. NPrio + 1
  BY <1>1, <1>2
<1>4. rt_prio(normal_prio(t)) <=> rt_policy(t.policy)
  BY <1>1, <1>2 DEF rt_prio
<1>5. rt_mutex_getprio(t) = IF t.pi < normal_prio(t) THEN t.pi ELSE normal_prio(t)
  BY DEF rt_mutex_getprio
<1> QED BY <1>1, <1>3, <1>4, <1>5 DEF rt_prio, NoWaiter

\* __setscheduler makes policy, class, priority and slice agree, whatever they
\* were before.
LEMMA SetschedulerKept ==
    ASSUME NEW t \in task_struct, NEW pol \in Policy, NEW prio \in 0 .. NPrio - 1,
           pol = "NORMAL" => prio = 0, NoneEnter /\ pol = "WRR" => t.pi = NoWaiter
    PROVE  Kept(__setscheduler(t, pol, prio))
<1> DEFINE s == [t EXCEPT !.policy = pol, !.rt_priority = prio]
           u == [s EXCEPT !.prio = rt_mutex_getprio(s)]
           n == get_rr_interval_wrr(u)
           v == [u EXCEPT !.class = "wrr", !.times = 1, !.time_slice = n]
           w == __setscheduler(t, pol, prio)
<1>1. /\ s \in task_struct /\ s.policy = pol /\ s.rt_priority = prio /\ s.pi = t.pi
  BY DEF task_struct
<1>2. /\ rt_prio(normal_prio(s)) <=> rt_policy(pol)
      /\ rt_policy(pol) => rt_prio(rt_mutex_getprio(s))
      /\ s.pi = NoWaiter => rt_mutex_getprio(s) = normal_prio(s)
      /\ rt_mutex_getprio(s) \in 0 .. NPrio + 1
  BY <1>1, NormalPrio, PrioTypes
<1> HIDE DEF s
<1>3. /\ u \in task_struct /\ u.policy = pol /\ u.rt_priority = prio /\ u.pi = s.pi
      /\ u.prio = rt_mutex_getprio(s)
  BY <1>1, <1>2 DEF task_struct
<1>4. n \in 1 .. MaxSlice
  BY <1>3, SliceBound
<1> HIDE DEF u
<1>5. \/ pol = "WRR" /\ w = v
      \/ pol # "WRR" /\ rt_prio(u.prio) /\ w = [u EXCEPT !.class = "rt"]
      \/ pol # "WRR" /\ ~rt_prio(u.prio) /\ w = [u EXCEPT !.class = "fair"]
  BY Zenon DEF __setscheduler, wrr_policy, s, u
<1>6. CASE pol = "WRR" /\ w = v
  <2> HIDE DEF n
  <2>1. /\ v.class = "wrr" /\ v.policy = pol /\ v.time_slice = n
        /\ v.times = 1 /\ v.prio = u.prio /\ v.rt_priority = prio
    BY <1>3 DEF task_struct
  <2> HIDE DEF v, w
  <2>2. Seldom(v)
    <3>1. wrr_se_prio(prio) \in Prio
      BY LevelType
    <3>2. 1 \in 0 .. Often(wrr_se_prio(prio))
      BY <3>1, OftenPositive
    <3> QED BY <2>1, <3>2 DEF Seldom
  <2>3. NoneEnter => ~rt_prio(u.prio)
    BY <1>1, <1>2, <1>3, <1>6 DEF rt_policy
  <2>4. Unboosted(v)
    BY <2>1, <2>3 DEF Unboosted
  <2> QED BY <1>4, <1>6, <2>1, <2>2, <2>4 DEF Kept, rt_policy, w
<1>7. CASE pol # "WRR" /\ rt_prio(u.prio) /\ w = [u EXCEPT !.class = "rt"]
  <2>1. /\ w.class = "rt" /\ w.policy = pol /\ w.prio = u.prio /\ w.pi = u.pi
        /\ w.rt_priority = prio
    BY <1>3, <1>7 DEF task_struct
  <2> HIDE DEF w
  <2>2. pol = "NORMAL" => ~rt_policy(pol)
    BY DEF rt_policy
  <2>3. Seldom(w) /\ Unboosted(w)
    BY <1>7, <2>1 DEF Seldom, Unboosted
  <2> QED BY <1>2, <1>3, <1>7, <2>1, <2>2, <2>3 DEF Kept, w
<1>8. CASE pol # "WRR" /\ ~rt_prio(u.prio) /\ w = [u EXCEPT !.class = "fair"]
  <2>1. /\ w.class = "fair" /\ w.policy = pol /\ w.prio = u.prio /\ w.pi = u.pi
        /\ w.rt_priority = prio
    BY <1>3, <1>8 DEF task_struct
  <2> HIDE DEF w
  <2>2. Seldom(w) /\ Unboosted(w)
    BY <1>8, <2>1 DEF Seldom, Unboosted
  <2> QED BY <1>2, <1>3, <1>8, <2>1, <2>2 DEF Kept, w
<1> QED BY <1>5, <1>6, <1>7, <1>8

\* set_user_nice: effective_prio keeps the priority of a boosted thread.
LEMMA NicedKept ==
    ASSUME NEW t \in task_struct, Kept(t), NEW nice \in NicePrio,
           ~rt_policy(t.policy)
    PROVE  LET niced == [t EXCEPT !.static_prio = nice]
           IN  Kept([niced EXCEPT !.prio = effective_prio(niced)])
<1> DEFINE niced == [t EXCEPT !.static_prio = nice]
           u == [niced EXCEPT !.prio = effective_prio(niced)]
<1>1. /\ niced \in task_struct /\ niced.static_prio = nice
      /\ niced.class = t.class /\ niced.policy = t.policy /\ niced.prio = t.prio
      /\ niced.pi = t.pi /\ niced.time_slice = t.time_slice
      /\ niced.rt_priority = t.rt_priority /\ niced.times = t.times
  BY DEF task_struct
<1> HIDE DEF niced
<1>2. effective_prio(niced) = IF rt_prio(t.prio) THEN t.prio ELSE nice
  BY <1>1 DEF effective_prio, normal_prio
<1>3. /\ u.prio = effective_prio(niced) /\ u.class = t.class /\ u.policy = t.policy
      /\ u.pi = t.pi /\ u.time_slice = t.time_slice /\ u.rt_priority = t.rt_priority
      /\ u.times = t.times
  BY <1>1 DEF task_struct
<1> HIDE DEF u
<1>4. ~rt_prio(nice)
  BY NPrioAssumption DEF rt_prio, NicePrio, NiceBetter, NiceDefault
<1>5. rt_prio(u.prio) <=> rt_prio(t.prio)
  BY <1>2, <1>3, <1>4
<1>6. Kept(u)
  BY <1>3, <1>5 DEF Kept, Seldom, Unboosted
<1> QED BY <1>6 DEF u, niced

\* rt_mutex_setprio: the class follows the priority, of the weighted
\* round-robin policy too.
LEMMA SetprioKept ==
    ASSUME NEW t \in task_struct, Kept(t), NEW donor \in 0 .. NoWaiter
    PROVE  LET waited == [t EXCEPT !.pi = donor]
               prio   == rt_mutex_getprio(waited)
           IN  /\ prio = waited.prio => Kept(waited)
               /\ prio # waited.prio =>
                    Kept([waited EXCEPT !.prio = prio,
                                        !.class = IF rt_prio(prio) THEN "rt" ELSE "fair"])
<1> DEFINE waited  == [t EXCEPT !.pi = donor]
           prio    == rt_mutex_getprio(waited)
           class   == IF rt_prio(prio) THEN "rt" ELSE "fair"
           boosted == [waited EXCEPT !.prio = prio, !.class = class]
<1>1. /\ waited \in task_struct /\ waited.pi = donor
      /\ waited.class = t.class /\ waited.policy = t.policy /\ waited.prio = t.prio
      /\ waited.time_slice = t.time_slice /\ waited.rt_priority = t.rt_priority
      /\ waited.times = t.times
  BY DEF task_struct
<1> HIDE DEF waited
<1>2. /\ rt_policy(t.policy) => rt_prio(prio)
      /\ donor = NoWaiter => (rt_prio(prio) <=> rt_policy(t.policy))
  BY <1>1, NormalPrio
<1>3. t.policy = "NORMAL" => ~rt_policy(t.policy)
  BY DEF rt_policy
<1> HIDE DEF prio
<1>4. prio = waited.prio => Kept(waited)
  BY <1>1, <1>2, <1>3 DEF Kept, Seldom, Unboosted
<1>5. Kept(boosted)
  <2>1. /\ boosted.prio = prio /\ boosted.class = class /\ boosted.policy = t.policy
        /\ boosted.pi = donor /\ boosted.time_slice = t.time_slice
        /\ boosted.rt_priority = t.rt_priority /\ boosted.times = t.times
    BY <1>1 DEF task_struct
  <2> HIDE DEF boosted
  <2>2. Kept(boosted)
    BY <1>2, <1>3, <2>1 DEF Kept, Seldom, Unboosted
  <2> QED BY <2>2 DEF boosted
<1> QED BY <1>4, <1>5, Zenon DEF prio, waited, class, boosted

\* sched_fork: a child has what its parent has, but for a boost and what
\* SCHED_RESET_ON_FORK takes.
LEMMA ForkKept ==
    ASSUME NEW t \in task_struct, Kept(t), curr \in Threads
    PROVE  /\ Kept(sched_fork(t))
           /\ t.reset_on_fork /\ t.policy # "WRR" => Default(sched_fork(t))
<1> DEFINE kept  == [t EXCEPT !.prio = normal_prio(t)]
           reset == [t EXCEPT !.policy = "NORMAL", !.static_prio = NiceDefault,
                              !.rt_priority = 0]
           niced == [t EXCEPT !.static_prio = NiceDefault]
           plain == IF rt_policy(t.policy) THEN reset ELSE niced
           child == IF t.reset_on_fork
                    THEN [plain EXCEPT !.prio = plain.static_prio, !.reset_on_fork = FALSE]
                    ELSE kept
           class == CASE child.policy = "WRR" -> "wrr"
                      [] child.policy # "WRR" /\ ~rt_prio(child.prio) -> "fair"
                      [] OTHER -> child.class
           c == [child EXCEPT !.class = class, !.on_rq = FALSE, !.pi = NoWaiter,
                              !.state = "NEW", !.parent = curr]
<1>0. sched_fork(t) = c
  BY Zenon DEF sched_fork, child, kept, plain, class
<1>1. /\ kept \in task_struct /\ kept.prio = normal_prio(t) /\ kept.policy = t.policy
      /\ kept.rt_priority = t.rt_priority /\ kept.time_slice = t.time_slice
      /\ kept.class = t.class /\ kept.times = t.times
  BY PrioTypes DEF task_struct
<1>2. /\ NiceDefault \in NicePrio /\ NiceDefault \in 0 .. NPrio + 1
      /\ 0 \in 0 .. NPrio - 1 /\ NoWaiter \in 0 .. NoWaiter
      /\ ~rt_prio(NiceDefault)
  BY NPrioAssumption DEF NicePrio, NiceDefault, NoWaiter, rt_prio
<1>3. /\ reset \in task_struct /\ reset.static_prio = NiceDefault
      /\ reset.policy = "NORMAL" /\ reset.rt_priority = 0
      /\ reset.time_slice = t.time_slice /\ reset.class = t.class
  BY <1>2 DEF task_struct, Policy
<1>4. /\ niced \in task_struct /\ niced.static_prio = NiceDefault
      /\ niced.policy = t.policy /\ niced.rt_priority = t.rt_priority
      /\ niced.time_slice = t.time_slice /\ niced.class = t.class
      /\ niced.times = t.times
  BY <1>2 DEF task_struct
<1> HIDE DEF kept, reset, niced
<1>5. /\ plain \in task_struct /\ plain.static_prio = NiceDefault
      /\ plain.policy = IF rt_policy(t.policy) THEN "NORMAL" ELSE t.policy
      /\ plain.rt_priority = IF rt_policy(t.policy) THEN 0 ELSE t.rt_priority
      /\ plain.time_slice = t.time_slice
      /\ ~rt_policy(t.policy) => plain.times = t.times
  BY <1>3, <1>4
<1> HIDE DEF plain
<1>6. CASE t.reset_on_fork
  <2>1. /\ child \in task_struct /\ child.prio = NiceDefault
        /\ child.policy = plain.policy /\ child.rt_priority = plain.rt_priority
        /\ child.time_slice = t.time_slice /\ child.times = plain.times
    BY <1>2, <1>5, <1>6 DEF task_struct
  <2> HIDE DEF child
  <2>2. class = IF child.policy = "WRR" THEN "wrr" ELSE "fair"
    BY <1>2, <2>1
  <2> HIDE DEF class
  <2>3. /\ c.class = class /\ c.policy = plain.policy /\ c.rt_priority = plain.rt_priority
        /\ c.prio = NiceDefault /\ c.time_slice = t.time_slice /\ c.times = plain.times
    BY <1>2, <2>1 DEF task_struct
  <2> HIDE DEF c
  <2>4. plain.policy \in {"NORMAL", "WRR"} /\ (plain.policy = "WRR" <=> t.policy = "WRR")
    <3>1. t.policy \in Policy
      BY DEF task_struct
    <3> QED BY <1>5, <3>1 DEF rt_policy, Policy
  <2>5. plain.policy = "NORMAL" => plain.rt_priority = 0
    BY <1>5 DEF Kept
  <2>6. Kept(c)
    <3>1. Seldom(c)
      BY <1>5, <2>3, <2>4 DEF Kept, Seldom, rt_policy
    <3>2. Unboosted(c)
      BY <1>2, <2>3 DEF Unboosted
    <3> QED BY <1>2, <1>5, <2>1, <2>2, <2>3, <2>4, <2>5, <3>1, <3>2 DEF Kept, rt_policy
  <2>7. t.policy # "WRR" => Default(c)
    BY <2>3, <2>4, <2>5 DEF Default
  <2> QED BY <1>0, <2>6, <2>7
<1>7. CASE ~t.reset_on_fork
  <2>1. child = kept
    BY <1>7
  <2>2. rt_prio(normal_prio(t)) <=> rt_policy(t.policy)
    BY NormalPrio
  <2> HIDE DEF child
  <2>3. class = IF t.policy = "WRR" THEN "wrr"
                ELSE IF ~rt_policy(t.policy) THEN "fair" ELSE t.class
    BY <1>1, <2>1, <2>2
  <2> HIDE DEF class
  <2>4. /\ c.class = class /\ c.policy = t.policy /\ c.rt_priority = t.rt_priority
        /\ c.prio = normal_prio(t) /\ c.time_slice = t.time_slice /\ c.times = t.times
    BY <1>1, <2>1 DEF task_struct
  <2> HIDE DEF c
  <2>5. t.policy \in Policy
    BY DEF task_struct
  <2>6. rt_policy(t.policy) => t.class = "rt"
    BY DEF Kept, rt_policy
  <2>7. Kept(c)
    <3>1. Seldom(c)
      BY <2>4 DEF Kept, Seldom
    <3>2. Unboosted(c)
      BY <2>2, <2>3, <2>4, <2>6 DEF Unboosted, rt_policy
    <3> QED BY <2>2, <2>3, <2>4, <2>5, <2>6, <3>1, <3>2 DEF Kept, rt_policy, Policy
  <2> QED BY <1>0, <1>7, <2>7
<1> QED BY <1>6, <1>7

\* A requeue changes the level and the times of a thread of the class.
LEMMA RequeueKept ==
    ASSUME NEW t \in task_struct, Kept(t), t.policy = "WRR", NEW a, NEW p,
           NEW r \in requeue(a, p, t)
    PROVE  Kept(r.task) /\ r.task.policy = "WRR"
<1>1. CASE Build = "basic"
  <2>1. \E A : r = [wrr |-> A, task |-> t, resched |-> FALSE]
    BY <1>1, Zenon DEF requeue, Basic!requeue_task_wrr, Basic!result
  <2>2. r.task = t
    BY <2>1
  <2> QED BY <2>2
<1>2. CASE Build # "basic"
  <2> DEFINE prio  == RMLFQ!wrr_se_prio(t.rt_priority)
             reset == [t EXCEPT !.times = 1]
             more  == [t EXCEPT !.times = RMLFQ!incremented(@)]
  <2>1. PICK x \in 0 .. UMax : r = RMLFQ!requeued(a, p, t, FALSE, x)
    BY <1>2 DEF requeue, RMLFQ!requeue_task_wrr
  <2>2. jumps_low(r, a, p, t, prio) \/ jumps_high(r, a, p, t, prio) \/ stays(r, a, p, t, prio)
    BY <2>1, RequeuedCases
  <2>0. Seldom(r.task)
    BY <1>2, <2>1, RequeueSeldom DEF Kept
  <2>3. \/ r.task = [reset EXCEPT !.rt_priority = @ + StageWidth]
        \/ r.task = [reset EXCEPT !.rt_priority = @ - StageWidth]
        \/ r.task = more
        \/ r.task = reset
    BY <2>2, Zenon DEF jumps_low, jumps_high, stays
  <2>4. r.task.class = t.class /\ r.task.policy = t.policy
    BY <2>3 DEF task_struct
  <2>5. r.task.prio = t.prio /\ r.task.pi = t.pi
    BY <2>3 DEF task_struct
  <2>6. r.task.time_slice = t.time_slice
    BY <2>3 DEF task_struct
  <2>7. Unboosted(r.task)
    BY <2>4, <2>5 DEF Kept, Unboosted
  <2> QED BY <2>0, <2>4, <2>5, <2>6, <2>7 DEF Kept, rt_policy
<1> QED BY <1>1, <1>2

\* A tick leaves a thread of the class a tick.
LEMMA TickKept ==
    ASSUME NEW t \in task_struct, Kept(t), t.class = "wrr", NEW a, NEW p,
           NEW r \in task_tick_wrr(a, p, t)
    PROVE  Kept(r.task) /\ r.task.policy = "WRR"
<1>1. t.policy = "WRR" /\ t.time_slice \in 1 .. MaxSlice
  BY DEF Kept
<1>2. ASSUME NEW n \in next_slices(t)
      PROVE  /\ sliced(t, n) \in task_struct /\ Kept(sliced(t, n))
             /\ sliced(t, n).policy = "WRR"
  <2> DEFINE u == sliced(t, n)
  <2>1. n \in 1 .. MaxSlice /\ n \in 0 .. UMax
    BY <1>1, TickLeavesOne, NextSlicesType
  <2>2. /\ u \in task_struct /\ u.time_slice = n /\ u.class = t.class /\ u.policy = t.policy
        /\ u.prio = t.prio /\ u.pi = t.pi /\ u.rt_priority = t.rt_priority
        /\ u.times = t.times
    BY <2>1 DEF sliced, task_struct
  <2> HIDE DEF u
  <2>3. Kept(u)
    BY <2>1, <2>2 DEF Kept, Seldom, Unboosted
  <2> QED BY <1>1, <2>2, <2>3 DEF u
<1>3. CASE \E n \in next_slices(t) : r.wrr = a /\ r.task = sliced(t, n)
  BY <1>2, <1>3
<1>4. ASSUME NEW n \in next_slices(t), NEW s \in requeue(a, p, sliced(t, n)),
             r.task = s.task
      PROVE  Kept(r.task) /\ r.task.policy = "WRR"
  BY <1>2, <1>4, RequeueKept
<1> QED BY <1>1, <1>3, <1>4, TickCases

-----------------------------------------------------------------------------
(* The steps.  Carried is what every step but sched_fork and                 *)
(* __sched_setscheduler leaves of a thread: it makes no new one, and a       *)
(* thread that stays keeps its policy and, out of the class, its             *)
(* rt_priority.                                                              *)

Carried(t, u) ==
    /\ u.state = "NEW" => t.state = "NEW"
    /\ u.state # "FREE" => /\ u.policy = t.policy
                           /\ t.policy # "WRR" => u.rt_priority = t.rt_priority

AllCarried == \A x \in Task : Carried(task[x], task'[x])

\* A thread that is no more is as good as new.
LEMMA BlankKept == Kept(blank) /\ blank.state = "FREE"
BY NPrioAssumption DEF Kept, Seldom, Unboosted, blank, rt_prio, rt_policy, NiceDefault

\* One thread changes.
LEMMA KeptUpdate ==
    ASSUME NEW T, Typed(T), AllKept(T), NEW p \in Threads, NEW t, Kept(t)
    PROVE  AllKept([T EXCEPT ![p] = t])
<1>1. \A x \in Task : [T EXCEPT ![p] = t][x] = IF x = p THEN t ELSE T[x]
  BY DEF Typed, Threads
<1> QED BY <1>1 DEF AllKept

\* ... and the others stay as they are.
LEMMA CarriedUpdate ==
    ASSUME Typed(task), NEW p \in Threads, NEW t, task' = [task EXCEPT ![p] = t],
           Carried(task[p], t)
    PROVE  AllCarried
<1>1. \A x \in Task : task'[x] = IF x = p THEN t ELSE task[x]
  BY DEF Typed, Threads
<1> QED BY <1>1 DEF AllCarried, Carried

\* switch_from of threads T that differ in what does not matter here.
LEMMA SwitchKept ==
    ASSUME NEW T, Typed(T), AllKept(T), curr \in Threads, NEW q, switch_from(T, q),
           \A x \in Task : Carried(task[x], T[x])
    PROVE  AllKept(task') /\ AllCarried
<1>1. task' = T \/ task' = [T EXCEPT ![curr] = blank]
  BY DEF switch_from
<1>2. CASE task' = T
  BY <1>2 DEF AllCarried
<1>3. CASE task' = [T EXCEPT ![curr] = blank]
  <2>1. AllKept(task')
    BY <1>3, BlankKept, KeptUpdate
  <2>2. \A x \in Task : task'[x] = IF x = curr THEN blank ELSE T[x]
    BY <1>3 DEF Typed, Threads
  <2>3. AllCarried
    BY <2>2, BlankKept DEF AllCarried, Carried
  <2> QED BY <2>1, <2>3
<1> QED BY <1>1, <1>2, <1>3

\* The facts a step has of one thread.
LEMMA PolicyFacts ==
    ASSUME PolicyInv, NEW p \in Task
    PROVE  /\ Typed(task) /\ AllKept(task) /\ task[p] \in task_struct /\ Kept(task[p])
           /\ p \in Threads /\ curr \in Threads /\ Inv
<1>1. Inv /\ AllKept(task) /\ Kept(task[p])
  BY DEF PolicyInv, AllKept
<1> QED BY <1>1, ThreadFacts, CurrFacts

\* A change of curr that the invariant does not see, and a switch.
LEMMA CurrChange ==
    ASSUME PolicyInv, curr \in Task, NEW t, Kept(t), Carried(task[curr], t),
           t \in task_struct
    PROVE  LET T == [task EXCEPT ![curr] = t]
           IN  /\ Typed(T) /\ AllKept(T)
               /\ \A x \in Task : Carried(task[x], T[x])
<1> DEFINE T == [task EXCEPT ![curr] = t]
<1>1. Typed(task) /\ AllKept(task) /\ curr \in Threads
  BY PolicyFacts
<1>2. Typed(T) /\ \A x \in Task : T[x] = IF x = curr THEN t ELSE task[x]
  BY <1>1 DEF Typed, Threads
<1>3. AllKept(T)
  BY <1>1, KeptUpdate
<1> HIDE DEF T
<1>4. \A x \in Task : Carried(task[x], T[x])
  BY <1>2 DEF Carried
<1> QED BY <1>2, <1>3, <1>4 DEF T

\* A change of the state, or of what depends on it, of one thread.
LEMMA StateChange ==
    ASSUME PolicyInv, NEW p \in Task, NEW t,
           task' = [task EXCEPT ![p] = t],
           t.class = task[p].class, t.policy = task[p].policy,
           t.prio = task[p].prio, t.pi = task[p].pi,
           t.time_slice = task[p].time_slice, t.rt_priority = task[p].rt_priority,
           t.times = task[p].times,
           t.state = "NEW" => task[p].state = "NEW"
    PROVE  AllKept(task') /\ AllCarried
<1>1. Kept(t)
  BY PolicyFacts, KeptSame
<1>2. Carried(task[p], t)
  BY DEF Carried
<1> QED BY <1>1, <1>2, PolicyFacts, KeptUpdate, CarriedUpdate

\* Every thread as it was.
LEMMA NoChange ==
    ASSUME PolicyInv, UNCHANGED task
    PROVE  AllKept(task') /\ AllCarried
BY DEF PolicyInv, AllCarried, Carried

\* Ticks.
LEMMA TickPolicy ==
    ASSUME PolicyInv, TickWrr
    PROVE  AllKept(task') /\ AllCarried
<1>1. PICK r \in task_tick_wrr(rq.wrr, curr, task[curr]) :
         task' = [task EXCEPT ![curr] = r.task]
  BY DEF TickWrr
<1>2. curr \in Task /\ task[curr].class = "wrr"
  BY CurrFacts DEF TickWrr, PolicyInv
<1>3. /\ Typed(task) /\ RunQueueOK(task, rq) /\ curr \in Queued(task, "wrr")
      /\ task[curr] \in task_struct /\ Kept(task[curr])
  BY <1>2, PolicyFacts, ThreadFacts DEF Queued
<1>4. Hooked(task[curr], r.task) /\ Kept(r.task) /\ r.task.policy = "WRR"
  BY <1>2, <1>3, TickOK, TickKept
<1>5. Carried(task[curr], r.task)
  BY <1>2, <1>3, <1>4 DEF Carried, Hooked, Kept
<1> QED BY <1>1, <1>2, <1>4, <1>5, PolicyFacts, KeptUpdate, CarriedUpdate

\* schedule, whether curr blocks, exits or gives way.
LEMMA SchedulePolicy ==
    ASSUME PolicyInv, Schedule
    PROVE  AllKept(task') /\ AllCarried
<1>1. Typed(task) /\ AllKept(task) /\ curr \in Threads
  BY CurrFacts DEF PolicyInv, Inv, ThreadsOK, Leaving
<1>2. CASE switch_from(task, rq)
  BY <1>1, <1>2, SwitchKept DEF Carried
<1>3. CASE /\ task[curr].state = "SLEEPING"
           /\ switch_from([task EXCEPT ![curr].state = "RUNNING"], rq)
  <2> DEFINE t == [task[curr] EXCEPT !.state = "RUNNING"]
             T == [task EXCEPT ![curr] = t]
  <2>1. curr \in Task
    BY <1>3, CurrFacts DEF PolicyInv
  <2>2. /\ t \in task_struct /\ t.state = "RUNNING" /\ t.pi = task[curr].pi
        /\ t.class = task[curr].class /\ t.rt_priority = task[curr].rt_priority
        /\ t.policy = task[curr].policy /\ t.prio = task[curr].prio
        /\ t.time_slice = task[curr].time_slice /\ t.times = task[curr].times
    <3>1. task[curr] \in task_struct
      BY <2>1, PolicyFacts
    <3> QED BY <3>1 DEF task_struct, State
  <2>3. switch_from(T, rq)
    BY <1>3
  <2> HIDE DEF t
  <2>4. Kept(t) /\ Carried(task[curr], t)
    BY <2>1, <2>2, PolicyFacts, KeptSame DEF Carried
  <2>5. Typed(T) /\ AllKept(T) /\ \A x \in Task : Carried(task[x], T[x])
    BY <2>1, <2>2, <2>4, CurrChange
  <2> HIDE DEF T
  <2> QED BY <1>1, <2>3, <2>5, SwitchKept
<1>4. CASE /\ task[curr].state \in {"SLEEPING", "DEAD"}
           /\ switch_from([task EXCEPT ![curr].on_rq = FALSE],
                          dequeue_task(rq, curr, task[curr]))
  <2> DEFINE t == [task[curr] EXCEPT !.on_rq = FALSE]
             T == [task EXCEPT ![curr] = t]
             q == dequeue_task(rq, curr, task[curr])
  <2>1. curr \in Task
    BY <1>4, CurrFacts DEF PolicyInv
  <2>2. /\ t \in task_struct /\ t.state = task[curr].state /\ t.pi = task[curr].pi
        /\ t.class = task[curr].class /\ t.rt_priority = task[curr].rt_priority
        /\ t.policy = task[curr].policy /\ t.prio = task[curr].prio
        /\ t.time_slice = task[curr].time_slice /\ t.times = task[curr].times
    <3>1. task[curr] \in task_struct
      BY <2>1, PolicyFacts
    <3> QED BY <3>1 DEF task_struct, State
  <2>3. switch_from(T, q)
    BY <1>4
  <2> HIDE DEF t
  <2>4. Kept(t) /\ Carried(task[curr], t)
    BY <2>1, <2>2, PolicyFacts, KeptSame DEF Carried
  <2>5. Typed(T) /\ AllKept(T) /\ \A x \in Task : Carried(task[x], T[x])
    BY <2>1, <2>2, <2>4, CurrChange
  <2> HIDE DEF T, q
  <2> QED BY <1>1, <2>3, <2>5, SwitchKept
<1> QED BY <1>2, <1>3, <1>4 DEF Schedule

\* sched_yield.
LEMMA YieldPolicy ==
    ASSUME PolicyInv, Yield
    PROVE  AllKept(task') /\ AllCarried
<1>1. /\ Typed(task) /\ AllKept(task) /\ curr \in Threads /\ curr \in Task
      /\ RunQueueOK(task, rq) /\ task[curr].on_rq /\ task[curr].state = "RUNNING"
      /\ task[curr] \in task_struct /\ Kept(task[curr])
  BY PolicyFacts, CurrFacts, ThreadFacts DEF Yield, InUser, PolicyInv
<1>2. CASE switch_from(task, rq)
  BY <1>1, <1>2, SwitchKept DEF Carried
<1>3. CASE task[curr].class = "wrr"
  <2>1. PICK r \in yield_task_wrr(rq.wrr, curr, task[curr]) :
           switch_from([task EXCEPT ![curr] = r.task], [rq EXCEPT !.wrr = r.wrr])
    BY <1>3 DEF Yield
  <2>2. r \in requeue(rq.wrr, curr, task[curr])
    BY <2>1 DEF yield_task_wrr, requeue, Basic!yield_task_wrr, RMLFQ!yield_task_wrr
  <2>3. task[curr].policy = "WRR" /\ curr \in Queued(task, "wrr")
    BY <1>1, <1>3 DEF Kept, Queued
  <2>4. Kept(r.task) /\ r.task.policy = "WRR"
    BY <1>1, <2>2, <2>3, RequeueKept
  <2>5. Hooked(task[curr], r.task)
    <3>1. Hooked(task[curr], task[curr])
      BY <1>1 DEF Hooked
    <3> QED BY <1>1, <2>2, <2>3, <3>1, RequeueOK
  <2> DEFINE T == [task EXCEPT ![curr] = r.task]
             q == [rq EXCEPT !.wrr = r.wrr]
  <2>6. r.task \in task_struct /\ Carried(task[curr], r.task)
    BY <2>3, <2>4, <2>5 DEF Carried, Hooked
  <2>7. Typed(T) /\ AllKept(T) /\ \A x \in Task : Carried(task[x], T[x])
    BY <1>1, <2>4, <2>6, CurrChange
  <2>8. switch_from(T, q)
    BY <2>1
  <2> HIDE DEF T, q
  <2> QED BY <1>1, <2>7, <2>8, SwitchKept
<1> QED BY <1>2, <1>3 DEF Yield

\* set_current_state, do_exit and the wake-ups.
LEMMA StatePolicy ==
    ASSUME PolicyInv,
           \/ SetSleeping \/ SetRunning \/ Exit
           \/ \E p \in Task : Wake(p) \/ WakeUpNew(p)
    PROVE  AllKept(task') /\ AllCarried
<1>1. ASSUME NEW p \in Task, NEW s \in {"RUNNING", "SLEEPING", "DEAD"},
             task' = [task EXCEPT ![p] = [task[p] EXCEPT !.state = s]]
      PROVE  AllKept(task') /\ AllCarried
  <2> DEFINE t == [task[p] EXCEPT !.state = s]
  <2>1. /\ t.class = task[p].class /\ t.rt_priority = task[p].rt_priority
        /\ t.policy = task[p].policy /\ t.prio = task[p].prio /\ t.pi = task[p].pi
        /\ t.time_slice = task[p].time_slice /\ t.times = task[p].times /\ t.state = s
    BY PolicyFacts DEF task_struct
  <2> HIDE DEF t
  <2>2. t.state # "NEW"
    BY <2>1
  <2> QED BY <1>1, <2>1, <2>2, StateChange DEF t
<1>2. CASE SetSleeping
  <2>1. curr \in Task
    BY <1>2, CurrFacts DEF SetSleeping, PolicyInv
  <2> QED BY <1>1, <1>2, <2>1 DEF SetSleeping
<1>3. CASE SetRunning
  <2>1. curr \in Task
    BY <1>3, CurrFacts DEF SetRunning, PolicyInv
  <2> QED BY <1>1, <1>3, <2>1 DEF SetRunning
<1>4. CASE Exit
  <2>1. curr \in Task
    BY <1>4, CurrFacts DEF Exit, InUser, PolicyInv
  <2> QED BY <1>1, <1>4, <2>1 DEF Exit
<1>5. ASSUME NEW p \in Task, Wake(p)
      PROVE  AllKept(task') /\ AllCarried
  <2> DEFINE t == [task[p] EXCEPT !.on_rq = TRUE, !.state = "RUNNING"]
  <2>1. /\ t.class = task[p].class /\ t.rt_priority = task[p].rt_priority
        /\ t.policy = task[p].policy /\ t.prio = task[p].prio /\ t.pi = task[p].pi
        /\ t.time_slice = task[p].time_slice /\ t.times = task[p].times /\ t.state = "RUNNING"
    BY PolicyFacts DEF task_struct
  <2>2. task' = [task EXCEPT ![p] = t]
    BY <1>5 DEF Wake
  <2> HIDE DEF t
  <2> QED BY <2>1, <2>2, StateChange
<1>6. ASSUME NEW p \in Task, WakeUpNew(p)
      PROVE  AllKept(task') /\ AllCarried
  <2> DEFINE t == [task[p] EXCEPT !.on_rq = TRUE, !.state = "RUNNING", !.parent = Idle]
  <2>1. /\ t.class = task[p].class /\ t.rt_priority = task[p].rt_priority
        /\ t.policy = task[p].policy /\ t.prio = task[p].prio /\ t.pi = task[p].pi
        /\ t.time_slice = task[p].time_slice /\ t.times = task[p].times /\ t.state = "RUNNING"
    BY PolicyFacts DEF task_struct
  <2>2. task' = [task EXCEPT ![p] = t]
    BY <1>6 DEF WakeUpNew
  <2> HIDE DEF t
  <2> QED BY <2>1, <2>2, StateChange
<1> QED BY <1>2, <1>3, <1>4, <1>5, <1>6

\* set_user_nice.
LEMMA NicePolicy ==
    ASSUME PolicyInv, NEW p \in Task, NEW nice \in NicePrio, SetUserNice(p, nice)
    PROVE  AllKept(task') /\ AllCarried
<1> DEFINE old   == task[p]
           niced == [old EXCEPT !.static_prio = nice]
           other == [niced EXCEPT !.prio = effective_prio(niced)]
           new   == IF rt_policy(old.policy) THEN niced ELSE other
<1>1. task' = [task EXCEPT ![p] = new]
  BY DEF SetUserNice
<1>2. old \in task_struct /\ Kept(old)
  BY PolicyFacts
<1> HIDE DEF old
<1>3. /\ niced \in task_struct /\ niced.state = old.state /\ niced.pi = old.pi
      /\ niced.class = old.class /\ niced.rt_priority = old.rt_priority
      /\ niced.policy = old.policy /\ niced.prio = old.prio
      /\ niced.time_slice = old.time_slice /\ niced.times = old.times
  BY <1>2 DEF task_struct
<1>4. Kept(niced)
  <2> HIDE DEF niced
  <2> QED BY <1>2, <1>3, KeptSame
<1>5. ~rt_policy(old.policy) => Kept(other)
  BY <1>2, NicedKept
<1>6. other.state = old.state /\ other.rt_priority = old.rt_priority /\ other.policy = old.policy
  <2> HIDE DEF niced
  <2> QED BY <1>3 DEF task_struct
<1>7. Kept(new) /\ Carried(old, new)
  <2> HIDE DEF niced, other
  <2> QED BY <1>3, <1>4, <1>5, <1>6 DEF Carried
<1> HIDE DEF new
<1> QED BY <1>1, <1>7, PolicyFacts, KeptUpdate, CarriedUpdate DEF old

\* rt_mutex_setprio.
LEMMA SetprioPolicy ==
    ASSUME PolicyInv, NEW p \in Task, NEW donor \in Donors \union {NoWaiter},
           RtMutexSetprio(p, donor)
    PROVE  AllKept(task') /\ AllCarried
<1> DEFINE old     == task[p]
           waited  == [old EXCEPT !.pi = donor]
           prio    == rt_mutex_getprio(waited)
           boosted == [waited EXCEPT !.prio = prio,
                                     !.class = IF rt_prio(prio) THEN "rt" ELSE "fair"]
           new     == IF prio = waited.prio THEN waited ELSE boosted
<1>1. task' = [task EXCEPT ![p] = new]
  BY DEF RtMutexSetprio
<1>2. old \in task_struct /\ Kept(old)
  BY PolicyFacts
<1>3. donor \in 0 .. NoWaiter
  BY DonorAssumption, NPrioAssumption DEF NoWaiter
<1>4. /\ prio = waited.prio => Kept(waited)
      /\ prio # waited.prio => Kept(boosted)
  BY <1>2, <1>3, SetprioKept, Zenon
<1> HIDE DEF old
<1>5. waited \in task_struct /\ waited.state = old.state
      /\ waited.rt_priority = old.rt_priority /\ waited.policy = old.policy
  BY <1>2, <1>3 DEF task_struct
<1> HIDE DEF waited, prio
<1>6. /\ boosted.state = old.state /\ boosted.rt_priority = old.rt_priority
      /\ boosted.policy = old.policy
  BY <1>5 DEF task_struct
<1>7. Kept(new) /\ Carried(old, new)
  <2> HIDE DEF boosted
  <2> QED BY <1>4, <1>5, <1>6 DEF Carried
<1> HIDE DEF new
<1> QED BY <1>1, <1>7, PolicyFacts, KeptUpdate, CarriedUpdate DEF old

\* sched_move_task.
LEMMA MovePolicy ==
    ASSUME PolicyInv, NEW p \in Task, NEW group \in {"fg", "bg"}, MoveTask(p, group)
    PROVE  AllKept(task') /\ AllCarried
<1> DEFINE old == task[p]
           new == [old EXCEPT !.group = group]
<1>1. task' = [task EXCEPT ![p] = new]
  BY DEF MoveTask
<1>2. /\ new.state = old.state /\ new.pi = old.pi
      /\ new.class = old.class /\ new.rt_priority = old.rt_priority
      /\ new.policy = old.policy /\ new.prio = old.prio
      /\ new.time_slice = old.time_slice /\ new.times = old.times
  <2>1. old \in task_struct
    BY PolicyFacts
  <2> QED BY <2>1 DEF task_struct
<1> HIDE DEF new
<1> QED BY <1>1, <1>2, StateChange

\* sched_fork: curr's child, and nobody else.
LEMMA ForkPolicy ==
    ASSUME PolicyInv, NEW c \in Task, Fork(c)
    PROVE  /\ AllKept(task')
           /\ task[c].state = "FREE" /\ task'[c].state = "NEW"
           /\ \A x \in Task \ {c} : task'[x] = task[x]
           /\ task[curr].reset_on_fork /\ task[curr].policy # "WRR" => Default(task'[c])
<1> DEFINE t == sched_fork(task[curr])
<1>1. /\ curr \in Task /\ task' = [task EXCEPT ![c] = t] /\ task[c].state = "FREE"
  BY CurrFacts DEF Fork, InUser, PolicyInv
<1>2. /\ task[curr] \in task_struct /\ Kept(task[curr]) /\ curr \in Threads
      /\ Typed(task) /\ AllKept(task) /\ c \in Threads
  BY <1>1, PolicyFacts
<1>3. Kept(t) /\ t.state = "NEW"
      /\ (task[curr].reset_on_fork /\ task[curr].policy # "WRR" => Default(t))
  BY <1>2, ForkKept, ForkType
<1> HIDE DEF t
<1>4. AllKept(task')
  BY <1>1, <1>2, <1>3, KeptUpdate
<1>5. \A x \in Task : task'[x] = IF x = c THEN t ELSE task[x]
  BY <1>1, <1>2 DEF Typed, Threads
<1> QED BY <1>1, <1>3, <1>4, <1>5

\* A request with a priority the test of __sched_setscheduler lets pass.
LEMMA ValidNormal ==
    ASSUME NEW pol \in Policy, NEW prio \in 0 .. NPrio - 1, valid_request(pol, prio)
    PROVE  pol = "NORMAL" => prio = 0
BY DEF valid_request, rt_policy, wrr_policy

\* sched_setscheduler: what was asked for, of one thread.
LEMMA SetSchedulerPolicy ==
    ASSUME PolicyInv, NEW p \in Task, NEW pol \in Policies, NEW prio \in 0 .. NPrio - 1,
           NEW reset \in Resets, SetScheduler(p, pol, prio, reset)
    PROVE  /\ AllKept(task')
           /\ task[p].state # "FREE" /\ task'[p].state = task[p].state
           /\ task'[p].policy = pol /\ task'[p].rt_priority = prio
           /\ \A x \in Task \ {p} : task'[x] = task[x]
<1> DEFINE old   == task[p]
           named == [old EXCEPT !.reset_on_fork = reset]
           new   == __setscheduler(named, pol, prio)
<1>1. task' = [task EXCEPT ![p] = new] /\ valid_request(pol, prio) /\ old.state # "FREE"
  BY DEF SetScheduler
<1>2. old \in task_struct /\ Typed(task) /\ AllKept(task) /\ p \in Threads
  BY PolicyFacts
<1> HIDE DEF old
<1>3. named \in task_struct /\ named.state = old.state
  BY <1>2, ResetAssumption DEF task_struct
<1>4. pol \in Policy /\ (pol = "NORMAL" => prio = 0) /\ ~(NoneEnter /\ pol = "WRR")
  <2>1. "setscheduler" \in Ops
    BY DEF SetScheduler
  <2> QED BY <1>1, <2>1, PolicyAssumption, ValidNormal DEF NoneEnter
<1> HIDE DEF named
<1>5. Kept(new) /\ new \in task_struct /\ new.state = old.state
  BY <1>3, <1>4, SetschedulerKept, SetschedulerType
<1>6. new.policy = pol /\ new.rt_priority = prio
  <2> DEFINE s == [named EXCEPT !.policy = pol, !.rt_priority = prio]
             u == [s EXCEPT !.prio = rt_mutex_getprio(s)]
             v == [u EXCEPT !.class = "wrr", !.times = 1,
                            !.time_slice = get_rr_interval_wrr(u)]
  <2>1. u.policy = pol /\ u.rt_priority = prio
        /\ v.policy = u.policy /\ v.rt_priority = u.rt_priority
        /\ \A k : /\ [u EXCEPT !.class = k].policy = u.policy
                  /\ [u EXCEPT !.class = k].rt_priority = u.rt_priority
    BY <1>3 DEF task_struct
  <2>2. new = v \/ new = [u EXCEPT !.class = "rt"] \/ new = [u EXCEPT !.class = "fair"]
    BY Zenon DEF __setscheduler, s, u
  <2> HIDE DEF u, v, new
  <2> QED BY <2>1, <2>2
<1> HIDE DEF new
<1>7. AllKept(task')
  BY <1>1, <1>2, <1>5, KeptUpdate
<1>8. \A x \in Task : task'[x] = IF x = p THEN new ELSE task[x]
  BY <1>1, <1>2 DEF Typed, Threads
<1> QED BY <1>1, <1>5, <1>6, <1>7, <1>8 DEF old

-----------------------------------------------------------------------------
(* The invariant. *)

\* A step of the kernel forks, or carries every thread on.
LEMMA KernelPolicy ==
    ASSUME PolicyInv, Kernel
    PROVE  AllKept(task') /\ (AllCarried \/ \E c \in Task : Fork(c))
<1>1. CASE TickWrr
  BY <1>1, TickPolicy
<1>2. CASE TickOther
  BY <1>2, NoChange DEF TickOther
<1>3. CASE Schedule
  BY <1>3, SchedulePolicy
<1>4. CASE PreemptSchedule
  <2>1. switch_from(task, rq) /\ Typed(task) /\ AllKept(task) /\ curr \in Threads
    BY <1>4, CurrFacts DEF PreemptSchedule, PolicyInv, Inv, ThreadsOK, Leaving
  <2> QED BY <2>1, SwitchKept DEF Carried
<1>5. CASE SetSleeping \/ SetRunning \/ Exit
  BY <1>5, StatePolicy
<1>6. CASE Yield
  BY <1>6, YieldPolicy
<1>7. ASSUME NEW p \in Task, Wake(p) \/ WakeUpNew(p) PROVE AllKept(task') /\ AllCarried
  BY <1>7, StatePolicy
<1>8. ASSUME NEW p \in Task, Fork(p) PROVE AllKept(task')
  BY <1>8, ForkPolicy
<1>9. ASSUME NEW p \in Task, NEW nice \in NicePrio, SetUserNice(p, nice)
      PROVE  AllKept(task') /\ AllCarried
  BY <1>9, NicePolicy
<1>10. ASSUME NEW p \in Task, NEW donor \in Donors \union {NoWaiter}, RtMutexSetprio(p, donor)
       PROVE  AllKept(task') /\ AllCarried
  BY <1>10, SetprioPolicy
<1>11. ASSUME NEW p \in Task, NEW group \in {"fg", "bg"}, MoveTask(p, group)
       PROVE  AllKept(task') /\ AllCarried
  BY <1>11, MovePolicy
<1> QED BY <1>1, <1>2, <1>3, <1>4, <1>5, <1>6, <1>7, <1>8, <1>9, <1>10, <1>11 DEF Kernel

\* The threads as the machine boots.
LEMMA InitPolicy ==
    ASSUME Init
    PROVE  PolicyInv
<1>1. PICK first \in [Task -> Boot \union IF "fork" \in Ops THEN {<<>>} ELSE {}] :
         task = [p \in Threads |->
                     CASE p = Idle -> idle_task
                       [] p # Idle /\ first[p] = <<>> -> blank
                       [] OTHER -> booted(first[p])]
  BY DEF Init
<1>2. blank \in task_struct
  <2>1. /\ NPrio \in Nat \ {0} /\ UMax \in Nat
    BY NPrioAssumption, UMaxAssumption
  <2> QED BY <2>1 DEF blank, task_struct, Policy, NicePrio, NiceDefault, NoWaiter, State, Threads
<1>3. ASSUME NEW b \in Boot
      PROVE  Kept(booted(b))
  <2> DEFINE t == [blank EXCEPT !.group = b[3]]
             u == __setscheduler(t, b[1], b[2])
             v == [u EXCEPT !.state = "SLEEPING"]
  <2>1. /\ b[1] \in Policy /\ b[2] \in 0 .. NPrio - 1 /\ b[3] \in {"fg", "bg"}
        /\ b[1] = "NORMAL" => b[2] = 0
    BY BootAssumption
  <2>2. t \in task_struct
    BY <1>2, <2>1 DEF task_struct
  <2>3. Kept(u) /\ u \in task_struct
    <3>1. t.pi = NoWaiter
      BY DEF blank
    <3> HIDE DEF t
    <3> QED BY <2>1, <2>2, <3>1, SetschedulerKept, SetschedulerType
  <2> HIDE DEF u
  <2>4. booted(b) = v
    BY DEF booted, u
  <2>5. /\ v.class = u.class /\ v.policy = u.policy /\ v.prio = u.prio /\ v.pi = u.pi
        /\ v.time_slice = u.time_slice /\ v.rt_priority = u.rt_priority
        /\ v.times = u.times
    BY <2>3 DEF task_struct
  <2> HIDE DEF v
  <2> QED BY <2>3, <2>4, <2>5, KeptSame
<1>4. ASSUME NEW p \in Task
      PROVE  Kept(task[p])
  <2>1. p # Idle /\ p \in Threads
    BY IdleAssumption DEF Threads
  <2>2. first[p] \in Boot \/ first[p] = <<>>
    OBVIOUS
  <2>3. task[p] = IF first[p] = <<>> THEN blank ELSE booted(first[p])
    BY <1>1, <2>1
  <2> QED BY <1>3, <2>2, <2>3, BlankKept
<1> QED BY <1>4, InitInv DEF PolicyInv, AllKept

\* Every step of SchedCore keeps the invariant.
LEMMA NextPolicy ==
    ASSUME PolicyInv, [Next]_vars
    PROVE  PolicyInv'
<1>1. Inv'
  BY NextInv DEF PolicyInv
<1>2. CASE Kernel
  BY <1>1, <1>2, KernelPolicy DEF PolicyInv, AllKept
<1>3. ASSUME NEW p \in Task, NEW pol \in Policies, NEW prio \in 0 .. NPrio - 1,
             NEW reset \in Resets, SetScheduler(p, pol, prio, reset)
      PROVE  PolicyInv'
  BY <1>1, <1>3, SetSchedulerPolicy DEF PolicyInv, AllKept
<1>4. CASE UNCHANGED vars
  BY <1>1, <1>4 DEF vars, PolicyInv, AllKept
<1> QED BY <1>2, <1>3, <1>4 DEF Next

\* So it is an invariant of the specification.
LEMMA PolicyInvAlways == Spec => []PolicyInv
<1>1. Init => PolicyInv
  BY InitPolicy
<1>2. PolicyInv /\ [Next]_vars => PolicyInv'
  BY NextPolicy
<1> QED BY <1>1, <1>2, PTL DEF Spec

\* --time_slice of task_tick_wrr never wraps and no slice is too long, however
\* the thread came into the class.
THEOREM SlicesLeft == Spec => []SliceLeft
<1>1. PolicyInv => SliceLeft
  BY DEF PolicyInv, AllKept, Kept, SliceLeft, MaxSlice
<1> QED BY <1>1, PolicyInvAlways, PTL

\* The policy of a thread no waiter boosts names its class, SCHED_WRR aside:
\* boosts end without trace.
THEOREM PolicyIsClass == Spec => []PolicyNamesClass
<1>1. ASSUME PolicyInv, NEW p \in Task, task[p].pi = NoWaiter, ~wrr_policy(task[p].policy)
      PROVE  task[p].class = class_of(task[p])
  <2>1. Kept(task[p]) /\ task[p] \in task_struct /\ task[p].policy # "WRR"
    BY <1>1, PolicyFacts DEF wrr_policy
  <2>2. task[p].policy \in Policy
    BY <2>1 DEF task_struct
  <2>3. CASE rt_policy(task[p].policy)
    BY <1>1, <2>1, <2>2, <2>3 DEF Kept, class_of
  <2>4. CASE ~rt_policy(task[p].policy)
    <3>1. task[p].policy = "NORMAL"
      BY <2>1, <2>2, <2>4 DEF rt_policy, Policy
    <3> QED BY <1>1, <2>1, <2>4, <3>1 DEF Kept, class_of, wrr_policy
  <2> QED BY <2>3, <2>4
<1>2. PolicyInv => PolicyNamesClass
  BY <1>1 DEF PolicyNamesClass
<1> QED BY <1>2, PolicyInvAlways, PTL

\* Only sched_fork makes a thread, and the child of one that asked for it starts
\* with the default policy and priority, the parent's policy SCHED_WRR aside.
THEOREM ForkIsReset == Spec => ForkResets
<1> DEFINE Reset ==
      \A c \in Task :
         Forked(c) /\ task[curr].reset_on_fork /\ ~wrr_policy(task[curr].policy)
           => Default(task'[c])
<1>1. ASSUME PolicyInv, Next
      PROVE  Reset
  <2> SUFFICES ASSUME NEW c \in Task, Forked(c), task[curr].reset_on_fork,
                      ~wrr_policy(task[curr].policy)
               PROVE  Default(task'[c])
    OBVIOUS
  <2>1. task[c].state = "FREE" /\ task'[c].state = "NEW" /\ task[curr].policy # "WRR"
    BY DEF Forked, wrr_policy
  <2>2. CASE Kernel
    <3>1. ~AllCarried
      BY <2>1 DEF AllCarried, Carried
    <3>2. PICK x \in Task : Fork(x)
      BY <1>1, <2>2, <3>1, KernelPolicy
    <3>3. x = c /\ (task[curr].reset_on_fork /\ task[curr].policy # "WRR" => Default(task'[x]))
      BY <1>1, <2>1, <3>2, ForkPolicy
    <3> QED BY <2>1, <3>3
  <2>3. ASSUME NEW p \in Task, NEW pol \in Policies, NEW prio \in 0 .. NPrio - 1,
               NEW reset \in Resets, SetScheduler(p, pol, prio, reset)
        PROVE  FALSE
    <3>1. task'[c].state = task[c].state
      BY <1>1, <2>3, SetSchedulerPolicy
    <3> QED BY <2>1, <3>1
  <2> QED BY <1>1, <2>2, <2>3 DEF Next
<1>2. PolicyInv /\ [Next]_vars => [Reset]_vars
  BY <1>1
<1> QED BY <1>2, PolicyInvAlways, PTL DEF Spec, ForkResets

-----------------------------------------------------------------------------
(* Times and jumps. *)

\* What the invariant says of a thread on the run list.
LEMMA QueuedFacts ==
    ASSUME LargeUInt, PolicyInv, NEW p \in Queued(task, "wrr")
    PROVE  /\ level(p) \in Prio /\ RMLFQ!bonus(level(p)) \in Nat
           /\ task[p].times \in Nat /\ task[p].times <= Often(level(p))
<1>1. p \in Task /\ task[p] \in task_struct /\ Kept(task[p]) /\ task[p].policy = "WRR"
  BY PolicyFacts DEF Queued, Kept
<1>2. level(p) \in Prio
  BY <1>1, LevelType DEF level, task_struct
<1>3. task[p].times \in 0 .. Often(level(p))
  BY <1>1 DEF Kept, Seldom, level
<1> QED BY <1>2, <1>3, BonusType, OftenPositive

\* requeue_task_wrr makes a thread leave its level before times passes the sum
\* that the thresholds take it from, for every random number it may draw.
THEOREM TimesNeverPass ==
    ASSUME LargeUInt
    PROVE  Spec => []TimesBounded
<1>1. ASSUME PolicyInv, NEW p \in Queued(task, "wrr")
      PROVE  task[p].times <= 5 + RMLFQ!bonus(level(p))
  <2> DEFINE b == RMLFQ!bonus(level(p))
             n == task[p].times
  <2>1. b \in Nat /\ n \in Nat /\ n <= Often(level(p))
    BY <1>1, QueuedFacts
  <2>2. Often(level(p)) = IF WideLiteral THEN 3 ELSE 5 + b
    BY DEF Often
  <2> HIDE DEF b, n
  <2>3. n <= 5 + b
    BY <2>1, <2>2
  <2> QED BY <2>3 DEF b, n
<1>2. PolicyInv => TimesBounded
  BY <1>1 DEF TimesBounded
<1> QED BY <1>2, PolicyInvAlways, PTL

-----------------------------------------------------------------------------
(* Requests. *)

\* The last request for a thread, of a policy but SCHED_WRR, is in force.
Obeyed(t, a) == a # <<>> /\ ~wrr_policy(a[1]) => <<t.policy, t.rt_priority>> = a

RequestInv ==
    /\ PolicyInv
    /\ asked \in [Task -> {<<>>} \union (Policy \X (0 .. NPrio - 1))]
    /\ \A p \in Task : /\ task[p].state = "FREE" => asked[p] = <<>>
                       /\ Obeyed(task[p], asked[p])

\* What a step that carries a thread on leaves of its request.
LEMMA CarriedObeyed ==
    ASSUME NEW t, NEW u, NEW a \in {<<>>} \union (Policy \X (0 .. NPrio - 1)),
           Obeyed(t, a), Carried(t, u), u.state # "FREE"
    PROVE  Obeyed(u, a)
<1>1. CASE a = <<>> \/ wrr_policy(a[1])
  BY <1>1 DEF Obeyed
<1>2. CASE a # <<>> /\ ~wrr_policy(a[1])
  <2>1. <<t.policy, t.rt_priority>> = a
    BY <1>2 DEF Obeyed
  <2>2. t.policy # "WRR"
    BY <1>2, <2>1 DEF wrr_policy
  <2> QED BY <2>1, <2>2 DEF Carried, Obeyed
<1> QED BY <1>1, <1>2

\* A step of the kernel.
LEMMA KernelObeyed ==
    ASSUME RequestInv, Kernel, Forget
    PROVE  RequestInv'
<1>1. PolicyInv'
  BY NextPolicy DEF RequestInv, Next
<1>2. asked' \in [Task -> {<<>>} \union (Policy \X (0 .. NPrio - 1))]
  BY DEF RequestInv, Forget
<1>3. ASSUME NEW p \in Task
      PROVE  /\ task'[p].state = "FREE" => asked'[p] = <<>>
             /\ Obeyed(task'[p], asked'[p])
  <2>1. asked'[p] = IF task'[p].state = "FREE" THEN <<>> ELSE asked[p]
    BY DEF Forget
  <2>2. /\ asked[p] \in {<<>>} \union (Policy \X (0 .. NPrio - 1))
        /\ Obeyed(task[p], asked[p]) /\ (task[p].state = "FREE" => asked[p] = <<>>)
    BY DEF RequestInv
  <2>3. CASE asked'[p] = <<>>
    BY <2>3 DEF Obeyed
  <2>4. CASE asked'[p] # <<>>
    <3>1. task'[p].state # "FREE" /\ asked'[p] = asked[p]
      BY <2>1, <2>4
    <3>2. CASE AllCarried
      <4>1. Carried(task[p], task'[p])
        BY <3>2 DEF AllCarried
      <4> QED BY <2>2, <3>1, <4>1, CarriedObeyed
    <3>3. ASSUME NEW c \in Task, Fork(c)
          PROVE  Obeyed(task'[p], asked'[p])
      <4>1. /\ task[c].state = "FREE" /\ \A x \in Task \ {c} : task'[x] = task[x]
        BY <3>3, ForkPolicy DEF RequestInv
      <4>2. p # c
        BY <2>2, <2>4, <3>1, <4>1
      <4>3. task'[p] = task[p]
        BY <4>1, <4>2
      <4> QED BY <2>2, <3>1, <4>3
    <3> QED BY <3>1, <3>2, <3>3, KernelPolicy DEF RequestInv
  <2> QED BY <2>3, <2>4
<1> QED BY <1>1, <1>2, <1>3 DEF RequestInv

\* A request that returns 0.
LEMMA RequestObeyed ==
    ASSUME RequestInv, NEW p \in Task, NEW pol \in Policies, NEW prio \in 0 .. NPrio - 1,
           NEW reset \in Resets, Request(p, pol, prio, reset)
    PROVE  RequestInv'
<1>1. pol \in Policy /\ asked' = [asked EXCEPT ![p] = <<pol, prio>>]
  BY PolicyAssumption DEF Request
<1>2. asked' \in [Task -> {<<>>} \union (Policy \X (0 .. NPrio - 1))]
  BY <1>1 DEF RequestInv
<1>3. asked'[p] = <<pol, prio>> /\ \A x \in Task \ {p} : asked'[x] = asked[x]
  BY <1>1 DEF RequestInv
<1>4. CASE SetScheduler(p, pol, prio, reset)
  <2>1. /\ task[p].state # "FREE" /\ task'[p].state = task[p].state
        /\ task'[p].policy = pol /\ task'[p].rt_priority = prio
        /\ \A x \in Task \ {p} : task'[x] = task[x]
    BY <1>4, SetSchedulerPolicy DEF RequestInv
  <2>2. PolicyInv'
    BY <1>4, NextPolicy DEF RequestInv, Next
  <2>3. Obeyed(task'[p], asked'[p]) /\ task'[p].state # "FREE"
    BY <1>3, <2>1 DEF Obeyed
  <2> QED BY <1>2, <1>3, <2>1, <2>2, <2>3 DEF RequestInv
<1>5. CASE SetSchedulerReturns(p, pol, prio)
  <2>1. /\ UNCHANGED vars /\ task[p].state # "FREE" /\ valid_request(pol, prio)
        /\ pol = task[p].policy /\ (~rt_policy(pol) \/ prio = task[p].rt_priority)
    BY <1>5 DEF SetSchedulerReturns, not_changing
  <2>2. PolicyInv' /\ task' = task
    BY <2>1, NextPolicy DEF RequestInv, vars
  <2>3. pol # "WRR" => prio = task[p].rt_priority
    <3>1. pol = "NORMAL" => prio = 0 /\ task[p].rt_priority = 0
      BY <1>1, <2>1, ValidNormal, PolicyFacts DEF RequestInv, Kept
    <3> QED BY <1>1, <2>1, <3>1 DEF Policy, rt_policy
  <2>4. Obeyed(task'[p], asked'[p]) /\ task'[p].state # "FREE"
    BY <1>3, <2>1, <2>2, <2>3 DEF Obeyed, wrr_policy
  <2> QED BY <1>2, <1>3, <2>2, <2>4 DEF RequestInv
<1> QED BY <1>4, <1>5 DEF Request

\* A request for another policy that returned 0 is in force until the next one.
THEOREM RequestsHonoured == RSpec => []OtherRequestsHonoured
<1>1. RInit => RequestInv
  <2> SUFFICES ASSUME RInit PROVE RequestInv
    OBVIOUS
  <2>1. PolicyInv /\ asked = [p \in Task |-> <<>>]
    BY InitPolicy DEF RInit
  <2> QED BY <2>1 DEF RequestInv, Obeyed
<1>2. RequestInv /\ [RNext]_rvars => RequestInv'
  <2> SUFFICES ASSUME RequestInv, [RNext]_rvars PROVE RequestInv'
    OBVIOUS
  <2>1. CASE UNCHANGED rvars
    <3>1. task' = task /\ asked' = asked /\ UNCHANGED vars
      BY <2>1 DEF rvars, vars
    <3>2. PolicyInv'
      BY <3>1, NextPolicy DEF RequestInv
    <3> QED BY <3>1, <3>2 DEF RequestInv
  <2> QED BY <2>1, KernelObeyed, RequestObeyed DEF RNext
<1>3. RequestInv => OtherRequestsHonoured
  BY DEF RequestInv, Obeyed, OtherRequestsHonoured, Honoured
<1> QED BY <1>1, <1>2, <1>3, PTL DEF RSpec

-----------------------------------------------------------------------------
(* The class order. *)

\* The classes, best first.
LEMMA Ranks == rank("rt") = 1 /\ rank("wrr") = 2 /\ rank("fair") = 3 /\ rank("idle") = 4
BY DEF rank

\* pick_next_task passes no better class over: the short cut to the fair class
\* is taken when all that is runnable is in it.
LEMMA PickBest ==
    ASSUME NEW T, Typed(T), \A x \in Task : T[x].class \in {"rt", "wrr", "fair"},
           T[Idle] = idle_task, NEW q, RunQueueOK(T, q),
           NEW c \in pick_next_task(T, q), NEW p \in Task, T[p].on_rq
    PROVE  ~(rank(T[p].class) < rank(T[c].class))
<1> DEFINE fair == Queued(T, "fair")
           rt   == Queued(T, "rt")
           wrr  == Queued(T, "wrr")
           nr   == q.wrr.wrr_nr_running
           best == {x \in rt : \A r \in rt : T[x].prio <= T[r].prio}
<1>1. T[p].class \in {"rt", "wrr", "fair"}
  OBVIOUS
<1>2. /\ q.nr_running = Cardinality(On(T)) /\ nr = Cardinality(wrr)
      /\ ArrayOK(q.wrr, wrr, levels(T))
  BY DEF RunQueueOK, ArrayOK
<1>3. IsFiniteSet(On(T)) /\ fair \subseteq On(T) /\ wrr \in SUBSET Task /\ IsFiniteSet(wrr)
  <2>1. On(T) \subseteq Task /\ wrr \subseteq Task /\ fair \subseteq On(T)
    BY DEF On, Queued
  <2> QED BY <2>1, TaskAssumption, FS_Subset
<1>4. \/ q.nr_running = Cardinality(fair) /\ c \in fair
      \/ rt # {} /\ c \in best
      \/ rt = {} /\ nr # 0 /\ c = pick_next_task_wrr(q.wrr)
      \/ rt = {} /\ nr = 0 /\ fair # {} /\ c \in fair
      \/ c = Idle /\ rt = {} /\ nr = 0 /\ fair = {}
  BY Zenon DEF pick_next_task
<1>5. p \in On(T) /\ p \in Queued(T, T[p].class)
  BY DEF On, Queued
<1>6. CASE q.nr_running = Cardinality(fair) /\ c \in fair
  <2>1. fair = On(T)
    BY <1>2, <1>3, <1>6, FS_Subset
  <2> QED BY <1>5, <1>6, <2>1, Ranks DEF Queued
<1>7. CASE rt # {} /\ c \in best
  BY <1>1, <1>7, Ranks DEF Queued
<1>8. CASE rt = {} /\ nr # 0 /\ c = pick_next_task_wrr(q.wrr)
  <2>1. c \in wrr
    BY <1>2, <1>3, <1>8, LevelsType, PickOK DEF At
  <2>2. T[p].class # "rt"
    BY <1>5, <1>8
  <2> QED BY <1>1, <2>1, <2>2, Ranks DEF Queued
<1>9. CASE rt = {} /\ nr = 0
  <2>1. wrr = {}
    BY <1>2, <1>3, <1>9, FS_EmptySet
  <2>2. T[p].class = "fair" /\ fair # {}
    BY <1>1, <1>5, <1>9, <2>1
  <2>3. CASE c \in fair
    BY <2>2, <2>3, Ranks DEF Queued
  <2> QED BY <1>4, <1>6, <1>7, <1>9, <2>2, <2>3
<1> QED BY <1>4, <1>6, <1>7, <1>8, <1>9

\* So a switch always leaves the class order.
LEMMA SwitchOrder ==
    ASSUME PolicyInv, NEW T, NEW q, Switches(T, q)
    PROVE  HigherClassGoesFirst'
<1>0. /\ Leaving(T, curr) /\ RunQueueOK(T, q) /\ Typed(T) /\ switch_from(T, q)
      /\ T[curr].state = "DEAD" => ~T[curr].on_rq
      /\ \A x \in Task : T[x].class \in {"rt", "wrr", "fair"}
  BY DEF Switches, Leaving, PolicyInv, AllKept, Kept, Threads
<1>1. /\ curr' \in pick_next_task(T, q) /\ curr \in Threads /\ T[Idle] = idle_task
      /\ task' = IF T[curr].state = "DEAD" THEN [T EXCEPT ![curr] = blank] ELSE T
  BY <1>0 DEF switch_from, Leaving
<1>2. curr' \in Threads /\ (curr' # Idle => T[curr'].on_rq)
  BY <1>0, <1>1, PickTaskOK
<1>3. ASSUME NEW p \in Task, task'[p].on_rq
      PROVE  ~(rank(task'[p].class) < rank(task'[curr'].class))
  <2>1. CASE T[curr].state # "DEAD"
    BY <1>0, <1>1, <1>3, <2>1, PickBest
  <2>2. CASE T[curr].state = "DEAD"
    <3>1. task' = [T EXCEPT ![curr] = blank] /\ ~T[curr].on_rq /\ idle_task.state # "DEAD"
      BY <1>0, <1>1, <2>2 DEF idle_task, blank
    <3>2. curr # Idle /\ curr' # curr
      BY <1>1, <1>2, <2>2, <3>1
    <3>3. ~blank.on_rq
      BY DEF blank
    <3>4. \A x \in Threads : task'[x] = IF x = curr THEN blank ELSE T[x]
      BY <1>0, <3>1 DEF Typed
    <3>5. task'[p] = T[p] /\ task'[curr'] = T[curr']
      BY <1>2, <1>3, <3>2, <3>3, <3>4 DEF Threads
    <3> QED BY <1>0, <1>1, <1>3, <3>5, PickBest
  <2> QED BY <2>1, <2>2
<1> QED BY <1>3 DEF HigherClassGoesFirst, Runnable

\* A step in which no thread becomes runnable or changes class.
LEMMA SameOrder ==
    ASSUME HigherClassGoesFirst, curr' = curr, need_resched => need_resched',
           \A p \in Task : task'[p].on_rq => /\ task[p].on_rq
                                             /\ task'[p].class = task[p].class,
           task'[curr].class = task[curr].class
    PROVE  HigherClassGoesFirst'
BY DEF HigherClassGoesFirst, Runnable

\* A step that changes one thread: if that is curr, it falls behind nobody, and
\* if it is another, it overtakes curr only with a reschedule coming.
LEMMA OneChange ==
    ASSUME HigherClassGoesFirst, Typed(task), curr' = curr, NEW p \in Task, NEW t,
           task' = [task EXCEPT ![p] = t], need_resched => need_resched',
           p = curr => rank(t.class) <= rank(task[curr].class) \/ need_resched',
           p # curr /\ t.on_rq /\ rank(t.class) < rank(task[curr].class)
             => need_resched' \/ (task[p].on_rq /\ t.class = task[p].class),
           {task[x].class : x \in Threads} \subseteq {"rt", "wrr", "fair", "idle"},
           t.class \in {"rt", "wrr", "fair", "idle"}, curr \in Threads
    PROVE  HigherClassGoesFirst'
<1>1. \A x \in Threads : task'[x] = IF x = p THEN t ELSE task[x]
  BY DEF Typed
<1>2. SUFFICES ASSUME NEW x \in Task, task'[x].on_rq,
                      rank(task'[x].class) < rank(task'[curr].class)
               PROVE  need_resched'
  BY DEF HigherClassGoesFirst, Runnable
<1>3. /\ x \in Threads /\ task[x].class \in {"rt", "wrr", "fair", "idle"}
      /\ task[curr].class \in {"rt", "wrr", "fair", "idle"}
  BY DEF Threads
<1>4. CASE x = p /\ p = curr
  BY <1>1, <1>2, <1>3, <1>4, Ranks
<1>5. CASE x = p /\ p # curr
  BY <1>1, <1>2, <1>3, <1>5 DEF HigherClassGoesFirst, Runnable
<1>6. CASE x # p /\ p = curr
  <2>1. task[x].on_rq /\ rank(task[x].class) < rank(t.class)
    BY <1>1, <1>2, <1>3, <1>6
  <2>2. CASE rank(t.class) <= rank(task[curr].class)
    <3>1. rank(task[x].class) < rank(task[curr].class)
      BY <1>3, <2>1, <2>2, Ranks
    <3> QED BY <2>1, <3>1 DEF HigherClassGoesFirst, Runnable
  <2> QED BY <1>6, <2>2
<1>7. CASE x # p /\ p # curr
  BY <1>1, <1>2, <1>3, <1>7 DEF HigherClassGoesFirst, Runnable
<1> QED BY <1>4, <1>5, <1>6, <1>7

\* Every thread is in a class.
LEMMA Classes ==
    ASSUME PolicyInv
    PROVE  {task[x].class : x \in Threads} \subseteq {"rt", "wrr", "fair", "idle"}
<1>1. Typed(task)
  BY DEF PolicyInv, Inv, ThreadsOK, Leaving
<1>2. \A x \in Threads : task[x] \in task_struct
  BY <1>1 DEF Typed
<1> QED BY <1>2 DEF task_struct

\* check_preempt_curr of a thread in another class than curr's compares them.
LEMMA PreemptsLower ==
    ASSUME NEW p, NEW t, p # curr, rank(t.class) < rank(task[curr].class),
           NEW b \in check_preempt_curr(p, t),
           t.class \in {"rt", "wrr", "fair", "idle"}
    PROVE  b
<1>1. t.class # task[curr].class
  BY Ranks
<1>2. check_preempt_curr(p, t) = {rank(t.class) < rank(task[curr].class)}
  BY <1>1 DEF check_preempt_curr
<1> QED BY <1>2

\* A wake-up.
LEMMA WokenOrder ==
    ASSUME PolicyInv, HigherClassGoesFirst, NEW p \in Task, NEW t,
           t.class = task[p].class, task' = [task EXCEPT ![p] = t], curr' = curr,
           resched(check_preempt_curr(p, t))
    PROVE  HigherClassGoesFirst'
<1>1. PICK b \in check_preempt_curr(p, t) : need_resched' = (need_resched \/ b)
  BY DEF resched
<1>2. /\ {task[x].class : x \in Threads} \subseteq {"rt", "wrr", "fair", "idle"}
      /\ p \in Threads /\ curr \in Threads /\ Typed(task)
  BY Classes, PolicyFacts
<1>3. t.class \in {"rt", "wrr", "fair", "idle"} /\ rank(t.class) \in Nat
  BY <1>2, Ranks
<1>4. p # curr /\ rank(t.class) < rank(task[curr].class) => need_resched'
  BY <1>1, <1>3, PreemptsLower
<1>5. p = curr => rank(t.class) <= rank(task[curr].class)
  BY <1>3
<1>6. need_resched => need_resched'
  BY <1>1
<1> QED BY <1>2, <1>3, <1>4, <1>5, <1>6, OneChange

\* The priority of a thread that is in no better class than a real-time one's.
LEMMA LowerPrio ==
    ASSUME PolicyInv, ~BoostedWrr, task[curr].class # "rt"
    PROVE  ~rt_prio(task[curr].prio) /\ task[curr].prio \in 0 .. NPrio + 1
<1>1. curr \in Threads /\ Typed(task) /\ task[Idle] = idle_task
  BY DEF PolicyInv, Inv, ThreadsOK, Leaving
<1>2. task[curr] \in task_struct
  BY <1>1 DEF Typed
<1>3. task[curr].prio \in 0 .. NPrio + 1 /\ task[curr].class \in {"rt", "wrr", "fair", "idle"}
  BY <1>2 DEF task_struct
<1>4. CASE curr = Idle
  <2>1. idle_task.prio = NiceDefault
    BY DEF idle_task, blank
  <2> QED BY <1>1, <1>3, <1>4, <2>1, NPrioAssumption DEF rt_prio, NiceDefault
<1>5. CASE curr \in Task
  BY <1>3, <1>5, PolicyFacts DEF Kept, BoostedWrr
<1> QED BY <1>1, <1>4, <1>5 DEF Threads

\* check_class_changed, after a change of policy or a boost.
LEMMA ChangedOrder ==
    ASSUME PolicyInv, HigherClassGoesFirst, ~BoostedWrr, NEW p \in Task,
           NEW old, old.class = task[p].class,
           NEW t \in task_struct, Kept(t), t.on_rq = task[p].on_rq,
           ~(task[p].class # "wrr" /\ t.class = "wrr"),
           task' = [task EXCEPT ![p] = t], curr' = curr,
           resched(check_class_changed(p, old, t))
    PROVE  HigherClassGoesFirst'
<1>1. PICK b \in check_class_changed(p, old, t) : need_resched' = (need_resched \/ b)
  BY DEF resched
<1>2. /\ {task[x].class : x \in Threads} \subseteq {"rt", "wrr", "fair", "idle"}
      /\ p \in Threads /\ curr \in Threads /\ Typed(task)
      /\ t.class \in {"rt", "wrr", "fair"} /\ t.on_rq \in BOOLEAN
      /\ p = curr => t.on_rq
  BY Classes, PolicyFacts, ThreadFacts DEF Kept, task_struct
<1>3. need_resched => need_resched'
  BY <1>1
<1>4. CASE t.class = task[p].class
  <2>1. p = curr => rank(t.class) <= rank(task[curr].class)
    BY <1>2, <1>4, Ranks
  <2> QED BY <1>2, <1>3, <1>4, <2>1, OneChange
<1>5. CASE t.class # task[p].class
  <2>1. b \in switched_to(p, t) /\ t.class # "wrr"
    BY <1>1, <1>5 DEF check_class_changed
  <2>2. CASE t.class = "rt"
    <3>1. p = curr => rank(t.class) <= rank(task[curr].class)
      BY <1>2, <2>2, Ranks
    <3>2. ASSUME p # curr, t.on_rq, rank(t.class) < rank(task[curr].class)
          PROVE  need_resched'
      <4>1. b = (t.prio < task[curr].prio)
        BY <2>1, <2>2, <3>2 DEF switched_to
      <4>2. task[curr].class # "rt"
        BY <2>2, <3>2, Ranks
      <4>3. /\ ~rt_prio(task[curr].prio) /\ task[curr].prio \in 0 .. NPrio + 1
            /\ rt_prio(t.prio) /\ t.prio \in 0 .. NPrio + 1
        BY <2>2, <4>2, LowerPrio DEF Kept, task_struct
      <4>4. t.prio < task[curr].prio
        BY <4>3, NPrioAssumption DEF rt_prio
      <4> QED BY <1>1, <4>1, <4>4
    <3> QED BY <1>2, <1>3, <3>1, <3>2, OneChange
  <2>3. CASE t.class = "fair"
    <3>1. p = curr => need_resched'
      <4>1. p = curr => b
        BY <1>2, <2>1, <2>3 DEF switched_to
      <4> QED BY <1>1, <4>1
    <3>2. ASSUME p # curr, t.on_rq, rank(t.class) < rank(task[curr].class)
          PROVE  need_resched'
      <4>1. b \in check_preempt_curr(p, t)
        BY <2>1, <2>3, <3>2 DEF switched_to
      <4>2. b
        BY <1>2, <3>2, <4>1, PreemptsLower
      <4> QED BY <1>1, <4>2
    <3> QED BY <1>2, <1>3, <3>1, <3>2, OneChange
  <2> QED BY <1>2, <2>1, <2>2, <2>3
<1> QED BY <1>4, <1>5

\* A step of a hook, set_user_nice or sched_move_task.
LEMMA FieldsOrder ==
    ASSUME PolicyInv, HigherClassGoesFirst, NEW p \in Task, NEW t,
           t.class = task[p].class, t.on_rq => task[p].on_rq,
           task' = [task EXCEPT ![p] = t], curr' = curr,
           need_resched => need_resched'
    PROVE  HigherClassGoesFirst'
<1>1. Typed(task) /\ curr \in Threads
  BY PolicyFacts
<1>2. \A x \in Threads : task'[x] = IF x = p THEN t ELSE task[x]
  BY <1>1 DEF Typed
<1>3. \A x \in Task : task'[x].on_rq => task[x].on_rq /\ task'[x].class = task[x].class
  BY <1>2 DEF Threads
<1>4. task'[curr].class = task[curr].class
  BY <1>1, <1>2
<1> QED BY <1>3, <1>4, SameOrder

\* The order through the steps that leave the classes alone.
LEMMA QuietOrder ==
    ASSUME PolicyInv, HigherClassGoesFirst,
           \/ TickWrr \/ TickOther \/ SetSleeping \/ SetRunning \/ Exit
           \/ \E p \in Task : \/ Fork(p)
                              \/ \E nice \in NicePrio : SetUserNice(p, nice)
                              \/ \E group \in {"fg", "bg"} : MoveTask(p, group)
    PROVE  HigherClassGoesFirst'
<1>1. CASE TickWrr
  <2>1. PICK r \in task_tick_wrr(rq.wrr, curr, task[curr]) :
           /\ task' = [task EXCEPT ![curr] = r.task]
           /\ need_resched' = (need_resched \/ r.resched)
    BY <1>1 DEF TickWrr
  <2>2. curr \in Task /\ task[curr].class = "wrr" /\ curr' = curr
    BY <1>1, CurrFacts DEF TickWrr, PolicyInv
  <2>3. Typed(task) /\ RunQueueOK(task, rq) /\ curr \in Queued(task, "wrr")
    BY <2>2, PolicyFacts, ThreadFacts DEF Queued
  <2>4. Hooked(task[curr], r.task)
    BY <2>1, <2>3, TickOK
  <2> QED BY <2>1, <2>2, <2>4, FieldsOrder DEF Hooked
<1>2. CASE TickOther
  BY <1>2, SameOrder DEF TickOther
<1>3. ASSUME NEW s \in State, curr \in Task, curr' = curr, need_resched' = need_resched,
             task' = [task EXCEPT ![curr] = [task[curr] EXCEPT !.state = s]]
      PROVE  HigherClassGoesFirst'
  <2> DEFINE t == [task[curr] EXCEPT !.state = s]
  <2>1. t.class = task[curr].class /\ t.on_rq = task[curr].on_rq
    BY <1>3, PolicyFacts DEF task_struct
  <2> HIDE DEF t
  <2> QED BY <1>3, <2>1, FieldsOrder DEF t
<1>4. CASE SetSleeping \/ SetRunning \/ Exit
  <2>1. /\ curr \in Task /\ curr' = curr /\ need_resched' = need_resched
        /\ {"SLEEPING", "RUNNING", "DEAD"} \subseteq State
    BY <1>4, CurrFacts DEF SetSleeping, SetRunning, Exit, InUser, PolicyInv, State
  <2>2. \E s \in State : task' = [task EXCEPT ![curr] = [task[curr] EXCEPT !.state = s]]
    BY <1>4, <2>1, Zenon DEF SetSleeping, SetRunning, Exit, State
  <2> QED BY <1>3, <2>1, <2>2
<1>5. ASSUME NEW p \in Task, Fork(p)
      PROVE  HigherClassGoesFirst'
  <2> DEFINE t == sched_fork(task[curr])
  <2>1. /\ curr \in Task /\ task' = [task EXCEPT ![p] = t] /\ task[p].state = "FREE"
        /\ task[curr].state = "RUNNING" /\ curr' = curr /\ need_resched' = need_resched
    BY <1>5, CurrFacts DEF Fork, InUser, PolicyInv
  <2>2. p # curr /\ ~t.on_rq
    BY <2>1, PolicyFacts, ForkType
  <2> HIDE DEF t
  <2>3. \A x \in Threads : task'[x] = IF x = p THEN t ELSE task[x]
    BY <2>1, PolicyFacts DEF Typed
  <2>4. \A x \in Task : task'[x].on_rq => task[x].on_rq /\ task'[x].class = task[x].class
    BY <2>2, <2>3 DEF Threads
  <2>5. task'[curr].class = task[curr].class
    BY <2>1, <2>2, <2>3 DEF Threads
  <2> QED BY <2>1, <2>4, <2>5, SameOrder
<1>6. ASSUME NEW p \in Task, NEW nice \in NicePrio, SetUserNice(p, nice)
      PROVE  HigherClassGoesFirst'
  <2> DEFINE old   == task[p]
             niced == [old EXCEPT !.static_prio = nice]
             other == [niced EXCEPT !.prio = effective_prio(niced)]
             new   == IF rt_policy(old.policy) THEN niced ELSE other
  <2>1. /\ task' = [task EXCEPT ![p] = new] /\ curr' = curr
        /\ need_resched => need_resched'
    BY <1>6 DEF SetUserNice
  <2>2. niced.class = old.class /\ niced.on_rq = old.on_rq /\ niced \in task_struct
    BY PolicyFacts DEF task_struct
  <2>3. other.class = niced.class /\ other.on_rq = niced.on_rq
    <3> HIDE DEF niced
    <3> QED BY <2>2 DEF task_struct
  <2>4. new.class = old.class /\ new.on_rq = old.on_rq
    <3> HIDE DEF niced, other
    <3> QED BY <2>2, <2>3
  <2> HIDE DEF new
  <2> QED BY <2>1, <2>4, FieldsOrder
<1>7. ASSUME NEW p \in Task, NEW group \in {"fg", "bg"}, MoveTask(p, group)
      PROVE  HigherClassGoesFirst'
  <2> DEFINE new == [task[p] EXCEPT !.group = group]
  <2>1. task' = [task EXCEPT ![p] = new] /\ curr' = curr /\ need_resched' = need_resched
    BY <1>7 DEF MoveTask
  <2>2. new.class = task[p].class /\ new.on_rq = task[p].on_rq
    BY PolicyFacts DEF task_struct
  <2> HIDE DEF new
  <2> QED BY <2>1, <2>2, FieldsOrder
<1> QED BY <1>1, <1>2, <1>4, <1>5, <1>6, <1>7

\* The order through the steps that move a thread between classes or onto the
\* run queue.
LEMMA ChangingOrder ==
    ASSUME PolicyInv, HigherClassGoesFirst, ~BoostedWrr, NEW p \in Task, ~EntersWrr(p),
           \/ Wake(p) \/ WakeUpNew(p)
           \/ \E donor \in Donors \union {NoWaiter} : RtMutexSetprio(p, donor)
           \/ \E pol \in Policies, prio \in 0 .. NPrio - 1, reset \in Resets :
                 SetScheduler(p, pol, prio, reset)
    PROVE  HigherClassGoesFirst'
<1>0. Typed(task) /\ p \in Threads /\ task[p] \in task_struct /\ PolicyInv'
  BY PolicyFacts, NextPolicy DEF Next, Kernel
<1>1. CASE Wake(p)
  <2> DEFINE t == [task[p] EXCEPT !.on_rq = TRUE, !.state = "RUNNING"]
  <2>1. /\ task' = [task EXCEPT ![p] = t] /\ curr' = curr
        /\ resched(check_preempt_curr(p, t))
    BY <1>1 DEF Wake
  <2>2. t.class = task[p].class
    BY <1>0 DEF task_struct
  <2> HIDE DEF t
  <2> QED BY <2>1, <2>2, WokenOrder
<1>2. CASE WakeUpNew(p)
  <2> DEFINE t == [task[p] EXCEPT !.on_rq = TRUE, !.state = "RUNNING", !.parent = Idle]
  <2>1. /\ task' = [task EXCEPT ![p] = t] /\ curr' = curr
        /\ resched(check_preempt_curr(p, t))
    BY <1>2 DEF WakeUpNew
  <2>2. t.class = task[p].class
    BY <1>0 DEF task_struct
  <2> HIDE DEF t
  <2> QED BY <2>1, <2>2, WokenOrder
\* What the two changes have in common.
<1>3. ASSUME NEW old, old.class = task[p].class, NEW t, t.on_rq = task[p].on_rq,
             task' = [task EXCEPT ![p] = t], curr' = curr,
             resched(check_class_changed(p, old, t))
      PROVE  HigherClassGoesFirst'
  <2>1. task'[p] = t
    BY <1>0, <1>3 DEF Typed
  <2>2. t \in task_struct /\ Kept(t)
    BY <1>0, <2>1 DEF PolicyInv, AllKept, Inv, ThreadsOK, Leaving, Typed
  <2>3. ~(task[p].class # "wrr" /\ t.class = "wrr")
    BY <2>1 DEF EntersWrr
  <2> QED BY <1>3, <2>2, <2>3, ChangedOrder
<1>4. ASSUME NEW donor \in Donors \union {NoWaiter}, RtMutexSetprio(p, donor)
      PROVE  HigherClassGoesFirst'
  <2> DEFINE waited  == [task[p] EXCEPT !.pi = donor]
             prio    == rt_mutex_getprio(waited)
             boosted == [waited EXCEPT !.prio = prio,
                                       !.class = IF rt_prio(prio) THEN "rt" ELSE "fair"]
             new     == IF prio = waited.prio THEN waited ELSE boosted
  <2>1. /\ task' = [task EXCEPT ![p] = new] /\ curr' = curr
        /\ resched(check_class_changed(p, waited, new))
    BY <1>4 DEF RtMutexSetprio
  <2>2. waited.class = task[p].class /\ waited.on_rq = task[p].on_rq
    BY <1>0 DEF task_struct
  <2>3. boosted.on_rq = waited.on_rq
    <3>1. donor \in 0 .. NoWaiter
      BY DonorAssumption, NPrioAssumption DEF NoWaiter
    <3>2. waited \in task_struct
      BY <1>0, <3>1 DEF task_struct
    <3> HIDE DEF waited, prio
    <3> QED BY <3>2 DEF task_struct
  <2>4. new.on_rq = task[p].on_rq
    <3> HIDE DEF waited, boosted, prio
    <3> QED BY <2>2, <2>3
  <2> HIDE DEF waited, new
  <2> QED BY <1>3, <2>1, <2>2, <2>4
<1>5. ASSUME NEW pol \in Policies, NEW prio \in 0 .. NPrio - 1, NEW reset \in Resets,
             SetScheduler(p, pol, prio, reset)
      PROVE  HigherClassGoesFirst'
  <2> DEFINE named == [task[p] EXCEPT !.reset_on_fork = reset]
             new   == __setscheduler(named, pol, prio)
  <2>1. /\ task' = [task EXCEPT ![p] = new] /\ curr' = curr
        /\ resched(check_class_changed(p, task[p], new))
    BY <1>5 DEF SetScheduler
  <2>2. named \in task_struct /\ named.on_rq = task[p].on_rq
    BY <1>0, ResetAssumption DEF task_struct
  <2> HIDE DEF named
  <2>3. new.on_rq = task[p].on_rq
    BY <2>2, SetschedulerType, PolicyAssumption
  <2> HIDE DEF new
  <2> QED BY <1>3, <2>1, <2>3
<1> QED BY <1>1, <1>2, <1>4, <1>5

\* The order of the classes is only ever lost where a thread enters the weighted
\* round-robin class or runs there boosted.
THEOREM OrderKept == Spec => ClassOrderKept
<1> DEFINE Kpt ==
      HigherClassGoesFirst /\ ~BoostedWrr /\ (\A p \in Task : ~EntersWrr(p))
        => HigherClassGoesFirst'
<1>1. ASSUME PolicyInv, Next, HigherClassGoesFirst, ~BoostedWrr,
             \A p \in Task : ~EntersWrr(p)
      PROVE  HigherClassGoesFirst'
  <2>1. ASSUME Schedule \/ PreemptSchedule \/ Yield
        PROVE  HigherClassGoesFirst'
    <3>1. \E T, q : Switches(T, q)
      BY <1>1, <2>1, ScheduleSwitches, PreemptSwitches, YieldSwitches DEF PolicyInv
    <3> QED BY <1>1, <3>1, SwitchOrder
  <2>2. ASSUME \/ TickWrr \/ TickOther \/ SetSleeping \/ SetRunning \/ Exit
               \/ \E p \in Task : \/ Fork(p)
                                  \/ \E nice \in NicePrio : SetUserNice(p, nice)
                                  \/ \E group \in {"fg", "bg"} : MoveTask(p, group)
        PROVE  HigherClassGoesFirst'
    BY <1>1, <2>2, QuietOrder
  <2>3. ASSUME NEW p \in Task,
               \/ Wake(p) \/ WakeUpNew(p)
               \/ \E donor \in Donors \union {NoWaiter} : RtMutexSetprio(p, donor)
               \/ \E pol \in Policies, prio \in 0 .. NPrio - 1, reset \in Resets :
                     SetScheduler(p, pol, prio, reset)
        PROVE  HigherClassGoesFirst'
    BY <1>1, <2>3, ChangingOrder
  <2> QED BY <1>1, <2>1, <2>2, <2>3, Zenon DEF Next, Kernel
<1>2. PolicyInv /\ [Next]_vars => [Kpt]_vars
  BY <1>1
<1> QED BY <1>2, PolicyInvAlways, PTL DEF Spec, ClassOrderKept
-----------------------------------------------------------------------------
(* Where no request puts a thread into the class. *)

\* ... none enters it but with a fork.
LEMMA NobodyEnters ==
    ASSUME NoneEnter, PolicyInv, NEW p \in Task,
           \/ Wake(p) \/ WakeUpNew(p)
           \/ \E donor \in Donors \union {NoWaiter} : RtMutexSetprio(p, donor)
           \/ \E pol \in Policies, prio \in 0 .. NPrio - 1, reset \in Resets :
                 SetScheduler(p, pol, prio, reset)
    PROVE  ~EntersWrr(p)
<1>1. Typed(task) /\ p \in Threads /\ task[p] \in task_struct
  BY PolicyFacts
<1>2. ASSUME NEW t, task' = [task EXCEPT ![p] = t], t.class # "wrr" \/ t.class = task[p].class
      PROVE  ~EntersWrr(p)
  BY <1>1, <1>2 DEF Typed, EntersWrr
<1>3. CASE Wake(p)
  <2> DEFINE t == [task[p] EXCEPT !.on_rq = TRUE, !.state = "RUNNING"]
  <2>1. task' = [task EXCEPT ![p] = t]
    BY <1>3 DEF Wake
  <2>2. t.class = task[p].class
    BY <1>1 DEF task_struct
  <2> HIDE DEF t
  <2> QED BY <1>2, <2>1, <2>2
<1>4. CASE WakeUpNew(p)
  <2> DEFINE t == [task[p] EXCEPT !.on_rq = TRUE, !.state = "RUNNING", !.parent = Idle]
  <2>1. task' = [task EXCEPT ![p] = t]
    BY <1>4 DEF WakeUpNew
  <2>2. t.class = task[p].class
    BY <1>1 DEF task_struct
  <2> HIDE DEF t
  <2> QED BY <1>2, <2>1, <2>2
<1>5. ASSUME NEW donor \in Donors \union {NoWaiter}, RtMutexSetprio(p, donor)
      PROVE  ~EntersWrr(p)
  <2> DEFINE waited  == [task[p] EXCEPT !.pi = donor]
             prio    == rt_mutex_getprio(waited)
             class   == IF rt_prio(prio) THEN "rt" ELSE "fair"
             boosted == [waited EXCEPT !.prio = prio, !.class = class]
             new     == IF prio = waited.prio THEN waited ELSE boosted
  <2>1. task' = [task EXCEPT ![p] = new]
    BY <1>5 DEF RtMutexSetprio
  <2>2. donor \in 0 .. NoWaiter
    BY DonorAssumption, NPrioAssumption DEF NoWaiter
  <2>3. waited \in task_struct /\ waited.class = task[p].class
    BY <1>1, <2>2 DEF task_struct
  <2>4. class # "wrr"
    OBVIOUS
  <2> HIDE DEF waited, prio, class
  <2>5. boosted.class = class
    BY <2>3 DEF task_struct
  <2> HIDE DEF boosted
  <2>6. new.class # "wrr" \/ new.class = task[p].class
    BY <2>3, <2>4, <2>5
  <2> HIDE DEF new
  <2> QED BY <1>2, <2>1, <2>6
<1>6. ASSUME NEW pol \in Policies, NEW prio \in 0 .. NPrio - 1, NEW reset \in Resets,
             SetScheduler(p, pol, prio, reset)
      PROVE  ~EntersWrr(p)
  <2>1. Kept(task'[p]) /\ task'[p].policy = pol
    BY <1>6, SetSchedulerPolicy DEF AllKept
  <2>2. pol # "WRR"
    BY <1>6 DEF SetScheduler, NoneEnter
  <2> QED BY <2>1, <2>2 DEF Kept, EntersWrr
<1> QED BY <1>3, <1>4, <1>5, <1>6

\* A runnable thread of a better class than curr's has a reschedule coming: with
\* nobody let into the weighted round-robin class by sched_setscheduler, a
\* thread of it never runs boosted, and switched_to_wrr only sees forks.
THEOREM BetterClassFirst ==
    ASSUME NoneEnter
    PROVE  Spec => []HigherClassGoesFirst
<1> DEFINE OrderInv == PolicyInv /\ HigherClassGoesFirst
<1>1. Init => OrderInv
  <2>1. ASSUME Init PROVE OrderInv
    <3>1. PolicyInv /\ rq.nr_running = 0
      BY <2>1, InitPolicy DEF Init
    <3>2. Cardinality(On(task)) = 0 /\ IsFiniteSet(On(task))
      BY <3>1, TaskAssumption, FS_Subset DEF PolicyInv, Inv, RunQueueOK, On
    <3>3. On(task) = {}
      BY <3>2, FS_EmptySet
    <3> QED BY <3>1, <3>3 DEF HigherClassGoesFirst, Runnable, On
  <2> QED BY <2>1
<1>2. OrderInv /\ [Next]_vars => OrderInv'
  <2> SUFFICES ASSUME OrderInv, [Next]_vars PROVE OrderInv'
    OBVIOUS
  <2>1. PolicyInv'
    BY NextPolicy
  <2>2. ~BoostedWrr
    <3>1. curr \in Threads /\ Typed(task) /\ task[Idle] = idle_task
      BY DEF PolicyInv, Inv, ThreadsOK, Leaving
    <3>2. task[curr].class = "wrr" => curr \in Task
      BY <3>1 DEF Threads, idle_task, blank
    <3>3. curr \in Task => Unboosted(task[curr])
      BY DEF PolicyInv, AllKept, Kept
    <3> QED BY <3>2, <3>3 DEF BoostedWrr, Unboosted
  <2>3. ASSUME Schedule \/ PreemptSchedule \/ Yield
        PROVE  HigherClassGoesFirst'
    <3>1. \E T, q : Switches(T, q)
      BY <2>3, ScheduleSwitches, PreemptSwitches, YieldSwitches DEF PolicyInv
    <3> QED BY <3>1, SwitchOrder
  <2>4. ASSUME \/ TickWrr \/ TickOther \/ SetSleeping \/ SetRunning \/ Exit
               \/ \E p \in Task : \/ Fork(p)
                                  \/ \E nice \in NicePrio : SetUserNice(p, nice)
                                  \/ \E group \in {"fg", "bg"} : MoveTask(p, group)
        PROVE  HigherClassGoesFirst'
    BY <2>4, QuietOrder
  <2>5. ASSUME NEW p \in Task,
               \/ Wake(p) \/ WakeUpNew(p)
               \/ \E donor \in Donors \union {NoWaiter} : RtMutexSetprio(p, donor)
               \/ \E pol \in Policies, prio \in 0 .. NPrio - 1, reset \in Resets :
                     SetScheduler(p, pol, prio, reset)
        PROVE  HigherClassGoesFirst'
    <3>1. ~EntersWrr(p)
      BY <2>5, NobodyEnters
    <3> QED BY <2>2, <2>5, <3>1, ChangingOrder
  <2>6. CASE UNCHANGED vars
    BY <2>1, <2>6 DEF vars, HigherClassGoesFirst, Runnable
  <2> QED BY <2>1, <2>3, <2>4, <2>5, <2>6, Zenon DEF Next, Kernel
<1> QED BY <1>1, <1>2, PTL DEF Spec

-----------------------------------------------------------------------------
(* The order of the levels. *)

\* pick_next_task takes a thread of the class only as pick_next_task_wrr does.
LEMMA PickedByClass ==
    ASSUME NEW T, T[Idle] = idle_task, NEW q, NEW c \in pick_next_task(T, q),
           T[c].class = "wrr"
    PROVE  q.wrr.wrr_nr_running # 0 /\ c = pick_next_task_wrr(q.wrr)
<1>1. idle_task.class = "idle"
  BY DEF blank, idle_task
<1> QED BY <1>1, Zenon DEF pick_next_task, Queued

\* The thread of the class that a switch takes is at the least level.
LEMMA SwitchLevel ==
    ASSUME PolicyInv, NEW T, NEW q, Switches(T, q), task'[curr'].class = "wrr"
    PROVE  /\ curr' \in Task
           /\ \A p \in Queued(task', "wrr") : level(curr)' <= wrr_se_prio(task'[p].rt_priority)
<1>1. /\ Leaving(T, curr) /\ RunQueueOK(T, q) /\ Typed(T) /\ T[Idle] = idle_task
      /\ curr' \in pick_next_task(T, q) /\ curr \in Threads
      /\ task' = IF T[curr].state = "DEAD" THEN [T EXCEPT ![curr] = blank] ELSE T
  BY DEF Switches, Leaving, switch_from
<1>2. blank.class = "fair" /\ idle_task.class = "idle"
  BY DEF blank, idle_task
<1>3. \A x \in Threads : task'[x] = T[x] \/ task'[x] = blank
  BY <1>1 DEF Typed
<1>4. \A x \in Threads : task'[x].class = "wrr" => task'[x] = T[x]
  BY <1>2, <1>3
<1>5. curr' \in Threads
  BY <1>1, PickTaskOK
<1>6. task'[curr'] = T[curr'] /\ curr' \in Task /\ T[curr'].class = "wrr"
  BY <1>1, <1>2, <1>4, <1>5 DEF Threads
<1>7. q.wrr.wrr_nr_running # 0 /\ curr' = pick_next_task_wrr(q.wrr)
  BY <1>1, <1>6, PickedByClass
<1> DEFINE W == Queued(T, "wrr")
<1>8. W \in SUBSET Task /\ levels(T) \in [Task -> Prio] /\ ArrayOK(q.wrr, W, levels(T))
  BY <1>1, LevelsType DEF Queued, RunQueueOK
<1>9. levels(T)[curr'] = first_queue(q.wrr)
  BY <1>7, <1>8, PickOK DEF At
<1>10. ASSUME NEW p \in Queued(task', "wrr")
       PROVE  level(curr)' <= wrr_se_prio(task'[p].rt_priority)
  <2>1. p \in Task /\ p \in W /\ task'[p] = T[p]
    BY <1>4, <1>10 DEF Queued, Threads
  <2>2. first_queue(q.wrr) <= levels(T)[p]
    BY <1>8, <2>1, FirstQueue
  <2> QED BY <1>6, <1>9, <2>1, <2>2 DEF levels, level
<1> QED BY <1>6, <1>10

\* The levels of two threads of a typed array compare as numbers.
LEMMA LevelsCompare ==
    ASSUME NEW t \in task_struct, NEW u \in task_struct
    PROVE  /\ wrr_se_prio(t.rt_priority) \in Int /\ wrr_se_prio(u.rt_priority) \in Int
           /\ wrr_se_prio(t.rt_priority) <= wrr_se_prio(u.rt_priority)
                => ~(wrr_se_prio(u.rt_priority) < wrr_se_prio(t.rt_priority))
<1>1. wrr_se_prio(t.rt_priority) \in Prio /\ wrr_se_prio(u.rt_priority) \in Prio
  BY LevelType DEF task_struct
<1> QED BY <1>1, NPrioAssumption DEF Prio

\* So a switch always leaves the level order.
LEMMA SwitchLevelOrder ==
    ASSUME PolicyInv, PolicyInv', NEW T, NEW q, Switches(T, q)
    PROVE  HigherLevelGoesFirst'
<1> SUFFICES ASSUME NEW p \in Queued(task', "wrr"), task'[curr'].class = "wrr"
             PROVE  ~(wrr_se_prio(task'[p].rt_priority) < wrr_se_prio(task'[curr'].rt_priority))
  BY DEF HigherLevelGoesFirst, level
<1>1. curr' \in Task /\ level(curr)' <= wrr_se_prio(task'[p].rt_priority) /\ p \in Task
  BY SwitchLevel DEF Queued
<1>2. task'[p] \in task_struct /\ task'[curr'] \in task_struct
  BY <1>1 DEF PolicyInv, Inv, ThreadsOK, Leaving, Typed, Threads
<1> QED BY <1>1, <1>2, LevelsCompare DEF level

\* A step that changes one thread: if that is curr, it stays at its level, leaves
\* the class or is to reschedule, and if it is another, it comes before curr only
\* with a reschedule coming.
LEMMA OneLevel ==
    ASSUME HigherLevelGoesFirst, Typed(task), Typed(task'), curr' = curr, curr \in Threads,
           NEW p \in Task, NEW t, task' = [task EXCEPT ![p] = t], need_resched => need_resched',
           p = curr => \/ need_resched'
                       \/ t.class # "wrr"
                       \/ task[curr].class = "wrr" /\ t.rt_priority = task[curr].rt_priority,
           p # curr /\ t.on_rq /\ t.class = "wrr" /\ task[curr].class = "wrr"
             => \/ need_resched'
                \/ ~(wrr_se_prio(t.rt_priority) < level(curr))
                \/ p \in Queued(task, "wrr") /\ t.rt_priority = task[p].rt_priority
    PROVE  HigherLevelGoesFirst'
<1>1. \A x \in Threads : task'[x] = IF x = p THEN t ELSE task[x]
  BY DEF Typed
<1>2. SUFFICES ASSUME NEW x \in Queued(task', "wrr"), task'[curr].class = "wrr",
                      wrr_se_prio(task'[x].rt_priority) < wrr_se_prio(task'[curr].rt_priority)
               PROVE  need_resched'
  BY DEF HigherLevelGoesFirst, level
<1>3. x \in Task /\ x \in Threads /\ task'[x].on_rq /\ task'[x].class = "wrr"
      /\ p \in Threads
  BY DEF Queued, Threads
<1>4. x # curr
  <2>1. task'[x] \in task_struct
    BY <1>3 DEF Typed
  <2> QED BY <1>2, <2>1, LevelsCompare
<1>5. CASE p = curr
  <2>1. task'[x] = task[x] /\ x \in Queued(task, "wrr") /\ task'[curr] = t
    BY <1>1, <1>3, <1>4, <1>5 DEF Queued
  <2> QED BY <1>2, <1>5, <2>1 DEF HigherLevelGoesFirst, level
<1>6. CASE p # curr
  <2>1. task'[curr] = task[curr]
    BY <1>1, <1>6
  <2>2. CASE x # p
    <3>1. task'[x] = task[x] /\ x \in Queued(task, "wrr")
      BY <1>1, <1>3, <2>2 DEF Queued
    <3> QED BY <1>2, <2>1, <3>1 DEF HigherLevelGoesFirst, level
  <2>3. CASE x = p
    <3>1. task'[x] = t
      BY <1>1, <1>3, <2>3
    <3> QED BY <1>2, <1>3, <1>6, <2>1, <2>3, <3>1 DEF HigherLevelGoesFirst, level
  <2> QED BY <2>2, <2>3
<1> QED BY <1>5, <1>6

\* A step that leaves the class and rt_priority of every thread alone, and makes
\* none runnable.
LEMMA FieldsLevel ==
    ASSUME PolicyInv, PolicyInv', HigherLevelGoesFirst, NEW p \in Task, NEW t,
           t.class = task[p].class, t.rt_priority = task[p].rt_priority,
           t.on_rq => task[p].on_rq,
           task' = [task EXCEPT ![p] = t], curr' = curr, need_resched => need_resched'
    PROVE  HigherLevelGoesFirst'
<1>1. Typed(task) /\ Typed(task') /\ curr \in Threads
  BY DEF PolicyInv, Inv, ThreadsOK, Leaving
<1>2. t.class = "wrr" /\ t.on_rq => p \in Queued(task, "wrr")
  BY DEF Queued
<1> QED BY <1>1, <1>2, OneLevel

\* A wake-up.
LEMMA WokenLevel ==
    ASSUME Build = "rmlfq", PolicyInv, PolicyInv', HigherLevelGoesFirst, NEW p \in Task, NEW t,
           t.class = task[p].class, t.rt_priority = task[p].rt_priority,
           task' = [task EXCEPT ![p] = t], curr' = curr,
           resched(check_preempt_curr(p, t))
    PROVE  HigherLevelGoesFirst'
<1>1. PICK b \in check_preempt_curr(p, t) : need_resched' = (need_resched \/ b)
  BY DEF resched
<1>2. Typed(task) /\ Typed(task') /\ curr \in Threads
  BY DEF PolicyInv, Inv, ThreadsOK, Leaving
<1>3. ASSUME p # curr, t.class = "wrr", task[curr].class = "wrr",
             wrr_se_prio(t.rt_priority) < level(curr)
      PROVE  need_resched'
  <2>1. check_preempt_curr(p, t) = {check_preempt_curr_wrr(t, task[curr])}
    BY <1>3, Zenon DEF check_preempt_curr
  <2>2. check_preempt_curr_wrr(t, task[curr])
    BY <1>3 DEF check_preempt_curr_wrr, RMLFQ!check_preempt_curr_wrr, level,
                wrr_se_prio, RMLFQ!wrr_se_prio
  <2> QED BY <1>1, <2>1, <2>2
<1> QED BY <1>1, <1>2, <1>3, OneLevel

\* A tick of the class asks for a reschedule, or leaves the thread at its level.
LEMMA TickStays ==
    ASSUME NEW t \in task_struct, NEW a, NEW p, NEW r \in task_tick_wrr(a, p, t)
    PROVE  r.resched \/ (r.task.rt_priority = t.rt_priority /\ r.task.class = t.class)
<1>1. \/ r.task = t
      \/ \E n \in next_slices(t) : r.task = sliced(t, n)
      \/ r.resched
  BY TickCases
<1>2. ASSUME NEW n, r.task = sliced(t, n)
      PROVE  r.task.rt_priority = t.rt_priority /\ r.task.class = t.class
  BY <1>2 DEF sliced, task_struct
<1> QED BY <1>1, <1>2

\* The order through the steps that leave the classes alone.
LEMMA QuietLevels ==
    ASSUME PolicyInv, PolicyInv', HigherLevelGoesFirst,
           \/ TickWrr \/ TickOther \/ SetSleeping \/ SetRunning \/ Exit
           \/ \E p \in Task : \/ Fork(p)
                              \/ \E nice \in NicePrio : SetUserNice(p, nice)
                              \/ \E group \in {"fg", "bg"} : MoveTask(p, group)
    PROVE  HigherLevelGoesFirst'
<1>0. Typed(task) /\ Typed(task') /\ curr \in Threads
  BY DEF PolicyInv, Inv, ThreadsOK, Leaving
<1>1. CASE TickWrr
  <2>1. PICK r \in task_tick_wrr(rq.wrr, curr, task[curr]) :
           /\ task' = [task EXCEPT ![curr] = r.task]
           /\ need_resched' = (need_resched \/ r.resched)
    BY <1>1 DEF TickWrr
  <2>2. curr \in Task /\ task[curr].class = "wrr" /\ curr' = curr /\ task[curr] \in task_struct
    BY <1>0, <1>1, CurrFacts DEF TickWrr, PolicyInv, Typed
  <2>3. r.resched \/ (r.task.rt_priority = task[curr].rt_priority /\ r.task.class = task[curr].class)
    BY <2>1, <2>2, TickStays
  <2> QED BY <1>0, <2>1, <2>2, <2>3, OneLevel
<1>2. CASE TickOther
  BY <1>2 DEF TickOther, HigherLevelGoesFirst
<1>3. ASSUME NEW s \in State, curr \in Task, curr' = curr, need_resched' = need_resched,
             task' = [task EXCEPT ![curr] = [task[curr] EXCEPT !.state = s]]
      PROVE  HigherLevelGoesFirst'
  <2> DEFINE t == [task[curr] EXCEPT !.state = s]
  <2>1. t.class = task[curr].class /\ t.on_rq = task[curr].on_rq
        /\ t.rt_priority = task[curr].rt_priority
    BY <1>3, PolicyFacts DEF task_struct
  <2> HIDE DEF t
  <2> QED BY <1>3, <2>1, FieldsLevel DEF t
<1>4. CASE SetSleeping \/ SetRunning \/ Exit
  <2>1. /\ curr \in Task /\ curr' = curr /\ need_resched' = need_resched
        /\ {"SLEEPING", "RUNNING", "DEAD"} \subseteq State
    BY <1>4, CurrFacts DEF SetSleeping, SetRunning, Exit, InUser, PolicyInv, State
  <2>2. \E s \in State : task' = [task EXCEPT ![curr] = [task[curr] EXCEPT !.state = s]]
    BY <1>4, <2>1, Zenon DEF SetSleeping, SetRunning, Exit, State
  <2> QED BY <1>3, <2>1, <2>2
<1>5. ASSUME NEW p \in Task, Fork(p)
      PROVE  HigherLevelGoesFirst'
  <2> DEFINE t == sched_fork(task[curr])
  <2>1. /\ curr \in Task /\ task' = [task EXCEPT ![p] = t] /\ task[p].state = "FREE"
        /\ task[curr].state = "RUNNING" /\ curr' = curr /\ need_resched' = need_resched
    BY <1>5, CurrFacts DEF Fork, InUser, PolicyInv
  <2>2. p # curr /\ ~t.on_rq
    BY <2>1, PolicyFacts, ForkType
  <2> HIDE DEF t
  <2> QED BY <1>0, <2>1, <2>2, OneLevel
<1>6. ASSUME NEW p \in Task, NEW nice \in NicePrio, SetUserNice(p, nice)
      PROVE  HigherLevelGoesFirst'
  <2> DEFINE old   == task[p]
             niced == [old EXCEPT !.static_prio = nice]
             other == [niced EXCEPT !.prio = effective_prio(niced)]
             new   == IF rt_policy(old.policy) THEN niced ELSE other
  <2>1. /\ task' = [task EXCEPT ![p] = new] /\ curr' = curr
        /\ need_resched => need_resched'
    BY <1>6 DEF SetUserNice
  <2>2. /\ niced.class = old.class /\ niced.on_rq = old.on_rq
        /\ niced.rt_priority = old.rt_priority /\ niced \in task_struct
    BY PolicyFacts DEF task_struct
  <2>3. other.class = niced.class /\ other.on_rq = niced.on_rq
        /\ other.rt_priority = niced.rt_priority
    <3> HIDE DEF niced
    <3> QED BY <2>2 DEF task_struct
  <2>4. new.class = old.class /\ new.on_rq = old.on_rq /\ new.rt_priority = old.rt_priority
    <3> HIDE DEF niced, other
    <3> QED BY <2>2, <2>3
  <2> HIDE DEF new
  <2> QED BY <2>1, <2>4, FieldsLevel
<1>7. ASSUME NEW p \in Task, NEW group \in {"fg", "bg"}, MoveTask(p, group)
      PROVE  HigherLevelGoesFirst'
  <2> DEFINE new == [task[p] EXCEPT !.group = group]
  <2>1. task' = [task EXCEPT ![p] = new] /\ curr' = curr /\ need_resched' = need_resched
    BY <1>7 DEF MoveTask
  <2>2. /\ new.class = task[p].class /\ new.on_rq = task[p].on_rq
        /\ new.rt_priority = task[p].rt_priority
    BY PolicyFacts DEF task_struct
  <2> HIDE DEF new
  <2> QED BY <2>1, <2>2, FieldsLevel
<1> QED BY <1>1, <1>2, <1>4, <1>5, <1>6, <1>7

\* The order through the steps that move a thread between classes or onto the
\* run queue.
LEMMA ChangingLevels ==
    ASSUME Build = "rmlfq", PolicyInv, PolicyInv', HigherLevelGoesFirst, ~EntersWrr(curr),
           NEW p \in Task,
           \/ Wake(p) \/ WakeUpNew(p)
           \/ \E donor \in Donors \union {NoWaiter} : RtMutexSetprio(p, donor)
           \/ \E pol \in Policies, prio \in 0 .. NPrio - 1, reset \in Resets :
                 SetScheduler(p, pol, prio, reset)
    PROVE  HigherLevelGoesFirst'
<1>0. /\ Typed(task) /\ Typed(task') /\ curr \in Threads /\ p \in Threads
      /\ task[p] \in task_struct
  BY PolicyFacts DEF PolicyInv, Inv, ThreadsOK, Leaving
<1>1. CASE Wake(p)
  <2> DEFINE t == [task[p] EXCEPT !.on_rq = TRUE, !.state = "RUNNING"]
  <2>1. /\ task' = [task EXCEPT ![p] = t] /\ curr' = curr
        /\ resched(check_preempt_curr(p, t))
    BY <1>1 DEF Wake
  <2>2. t.class = task[p].class /\ t.rt_priority = task[p].rt_priority
    BY <1>0 DEF task_struct
  <2> HIDE DEF t
  <2> QED BY <2>1, <2>2, WokenLevel
<1>2. CASE WakeUpNew(p)
  <2> DEFINE t == [task[p] EXCEPT !.on_rq = TRUE, !.state = "RUNNING", !.parent = Idle]
  <2>1. /\ task' = [task EXCEPT ![p] = t] /\ curr' = curr
        /\ resched(check_preempt_curr(p, t))
    BY <1>2 DEF WakeUpNew
  <2>2. t.class = task[p].class /\ t.rt_priority = task[p].rt_priority
    BY <1>0 DEF task_struct
  <2> HIDE DEF t
  <2> QED BY <2>1, <2>2, WokenLevel
\* A boost takes a thread out of the class, and no end of one into it.
<1>3. ASSUME NEW donor \in Donors \union {NoWaiter}, RtMutexSetprio(p, donor)
      PROVE  HigherLevelGoesFirst'
  <2> DEFINE waited  == [task[p] EXCEPT !.pi = donor]
             prio    == rt_mutex_getprio(waited)
             class   == IF rt_prio(prio) THEN "rt" ELSE "fair"
             boosted == [waited EXCEPT !.prio = prio, !.class = class]
             new     == IF prio = waited.prio THEN waited ELSE boosted
  <2>1. /\ task' = [task EXCEPT ![p] = new] /\ curr' = curr
        /\ resched(check_class_changed(p, waited, new))
    BY <1>3 DEF RtMutexSetprio
  <2>2. need_resched => need_resched'
    BY <2>1 DEF resched
  <2>3. donor \in 0 .. NoWaiter
    BY DonorAssumption, NPrioAssumption DEF NoWaiter
  <2>4. /\ waited \in task_struct /\ waited.class = task[p].class
        /\ waited.on_rq = task[p].on_rq /\ waited.rt_priority = task[p].rt_priority
    BY <1>0, <2>3 DEF task_struct
  <2>5. class # "wrr"
    OBVIOUS
  <2> HIDE DEF waited, prio, class
  <2>6. boosted.class = class
    BY <2>4 DEF task_struct
  <2> HIDE DEF boosted
  <2>7. \/ new.class # "wrr"
        \/ /\ new.class = task[p].class /\ new.on_rq = task[p].on_rq
           /\ new.rt_priority = task[p].rt_priority
    BY <2>4, <2>5, <2>6
  <2> HIDE DEF new
  <2>8. CASE new.class # "wrr"
    BY <1>0, <2>1, <2>2, <2>8, OneLevel
  <2>9. CASE /\ new.class = task[p].class /\ new.on_rq = task[p].on_rq
             /\ new.rt_priority = task[p].rt_priority
    BY <2>1, <2>2, <2>9, FieldsLevel
  <2> QED BY <2>7, <2>8, <2>9
<1>4. ASSUME NEW pol \in Policies, NEW prio \in 0 .. NPrio - 1, NEW reset \in Resets,
             SetScheduler(p, pol, prio, reset)
      PROVE  HigherLevelGoesFirst'
  <2> DEFINE named == [task[p] EXCEPT !.reset_on_fork = reset]
             new   == __setscheduler(named, pol, prio)
  <2>1. /\ task' = [task EXCEPT ![p] = new] /\ curr' = curr
        /\ resched(check_class_changed(p, task[p], new))
        /\ ~not_changing(task[p], pol, prio)
    BY <1>4 DEF SetScheduler
  <2> HIDE DEF named, new
  <2>2. PICK b \in check_class_changed(p, task[p], new) : need_resched' = (need_resched \/ b)
    BY <2>1 DEF resched
  <2>3. /\ task'[p] = new /\ new \in task_struct /\ Kept(new) /\ Kept(task[p])
        /\ new.policy = pol
    BY <1>0, <1>4, <2>1, PolicyFacts, SetSchedulerPolicy DEF Typed, AllKept
  <2>4. task[p].class = "wrr" => new.class # "wrr"
    BY <2>1, <2>3 DEF Kept, not_changing, rt_policy
  <2>5. p = curr => new.class # "wrr"
    BY <2>3, <2>4 DEF EntersWrr
  <2>6. ASSUME p # curr, new.on_rq, new.class = "wrr", wrr_se_prio(new.rt_priority) < level(curr)
        PROVE  need_resched'
    <3>1. check_class_changed(p, task[p], new) = switched_to(p, new)
      BY <2>4, <2>6 DEF check_class_changed
    <3>2. switched_to(p, new) = {p # curr /\ switched_to_wrr(new, task[curr])}
      BY <2>6, Zenon DEF switched_to
    <3>3. switched_to_wrr(new, task[curr])
      BY <2>6 DEF switched_to_wrr, RMLFQ!switched_to_wrr, level, wrr_se_prio, RMLFQ!wrr_se_prio
    <3>4. b = (p # curr /\ switched_to_wrr(new, task[curr]))
      BY <2>2, <3>1, <3>2
    <3> QED BY <2>2, <2>6, <3>3, <3>4
  <2> QED BY <1>0, <2>1, <2>2, <2>5, <2>6, OneLevel
<1> QED BY <1>1, <1>2, <1>3, <1>4

\* Of the feedback class: the order of the levels is only ever lost where the
\* current thread moves into the class (check_preempt_curr_wrr, switched_to_wrr
\* and the reschedule of task_tick_wrr of wrr_RMLFQ.c).
THEOREM LevelsKept ==
    ASSUME Build = "rmlfq"
    PROVE  Spec => LevelOrderKept
<1> DEFINE Kpt == HigherLevelGoesFirst /\ ~EntersWrr(curr) => HigherLevelGoesFirst'
<1>1. ASSUME PolicyInv, Next, HigherLevelGoesFirst, ~EntersWrr(curr)
      PROVE  HigherLevelGoesFirst'
  <2>0. PolicyInv'
    BY <1>1, NextPolicy
  <2>1. ASSUME Schedule \/ PreemptSchedule \/ Yield
        PROVE  HigherLevelGoesFirst'
    <3>1. \E T, q : Switches(T, q)
      BY <1>1, <2>1, ScheduleSwitches, PreemptSwitches, YieldSwitches DEF PolicyInv
    <3> QED BY <1>1, <2>0, <3>1, SwitchLevelOrder
  <2>2. ASSUME \/ TickWrr \/ TickOther \/ SetSleeping \/ SetRunning \/ Exit
               \/ \E p \in Task : \/ Fork(p)
                                  \/ \E nice \in NicePrio : SetUserNice(p, nice)
                                  \/ \E group \in {"fg", "bg"} : MoveTask(p, group)
        PROVE  HigherLevelGoesFirst'
    BY <1>1, <2>0, <2>2, QuietLevels
  <2>3. ASSUME NEW p \in Task,
               \/ Wake(p) \/ WakeUpNew(p)
               \/ \E donor \in Donors \union {NoWaiter} : RtMutexSetprio(p, donor)
               \/ \E pol \in Policies, prio \in 0 .. NPrio - 1, reset \in Resets :
                     SetScheduler(p, pol, prio, reset)
        PROVE  HigherLevelGoesFirst'
    BY <1>1, <2>0, <2>3, ChangingLevels
  <2> QED BY <1>1, <2>1, <2>2, <2>3, Zenon DEF Next, Kernel
<1>2. PolicyInv /\ [Next]_vars => [Kpt]_vars
  BY <1>1
<1> QED BY <1>2, PolicyInvAlways, PTL DEF Spec, LevelOrderKept

\* A switch is the only step that changes curr.
LEMMA OnlySwitches ==
    ASSUME PolicyInv, Next, curr' # curr
    PROVE  \E T, q : Switches(T, q)
<1>1. Schedule \/ PreemptSchedule \/ Yield
  <2>1. TickWrr \/ TickOther \/ SetSleeping \/ SetRunning \/ Exit => curr' = curr
    BY DEF TickWrr, TickOther, SetSleeping, SetRunning, Exit
  <2>2. ASSUME NEW p \in Task,
               \/ Wake(p) \/ Fork(p) \/ WakeUpNew(p)
               \/ \E nice \in NicePrio : SetUserNice(p, nice)
               \/ \E donor \in Donors \union {NoWaiter} : RtMutexSetprio(p, donor)
               \/ \E group \in {"fg", "bg"} : MoveTask(p, group)
               \/ \E pol \in Policies, prio \in 0 .. NPrio - 1, reset \in Resets :
                     SetScheduler(p, pol, prio, reset)
        PROVE  curr' = curr
    BY <2>2, Zenon DEF Wake, Fork, WakeUpNew, SetUserNice, RtMutexSetprio, MoveTask, SetScheduler
  <2> QED BY <2>1, <2>2, Zenon DEF Next, Kernel
<1> QED BY <1>1, ScheduleSwitches, PreemptSwitches, YieldSwitches DEF PolicyInv

\* Of the feedback class: no thread that pick_next_task_wrr passes over would, on
\* waking, preempt the one it takes (check_preempt_curr_wrr).
THEOREM PickAgrees ==
    ASSUME Build = "rmlfq"
    PROVE  Spec => PickAgreesWithPreempt
<1> DEFINE Agrees == curr' # curr /\ task'[curr'].class = "wrr" =>
                       \A p \in Queued(task', "wrr") :
                          ~check_preempt_curr_wrr(task'[p], task'[curr'])
<1>1. ASSUME PolicyInv, Next, curr' # curr, task'[curr'].class = "wrr",
             NEW p \in Queued(task', "wrr")
      PROVE  ~check_preempt_curr_wrr(task'[p], task'[curr'])
  <2>1. \E T, q : Switches(T, q)
    BY <1>1, OnlySwitches
  <2>2. curr' \in Task /\ level(curr)' <= wrr_se_prio(task'[p].rt_priority) /\ p \in Task
    BY <1>1, <2>1, SwitchLevel DEF Queued
  <2>3. PolicyInv'
    BY <1>1, NextPolicy
  <2>4. task'[p] \in task_struct /\ task'[curr'] \in task_struct
    BY <2>2, <2>3 DEF PolicyInv, Inv, ThreadsOK, Leaving, Typed, Threads
  <2>5. ~(wrr_se_prio(task'[p].rt_priority) < wrr_se_prio(task'[curr'].rt_priority))
    BY <2>2, <2>4, LevelsCompare DEF level
  <2> QED BY <2>5 DEF check_preempt_curr_wrr, RMLFQ!check_preempt_curr_wrr,
                      wrr_se_prio, RMLFQ!wrr_se_prio
<1>2. PolicyInv /\ [Next]_vars => [Agrees]_vars
  BY <1>1
<1> QED BY <1>2, PolicyInvAlways, PTL DEF Spec, PickAgreesWithPreempt

\* list_move_tail puts an entry behind every other.
LEMMA TailIsNotHead ==
    ASSUME NEW S, NEW s, Lists(s, S), NEW p \in S, NEW x \in S, x # p
    PROVE  Head(list_move(s, p, FALSE)) # p
<1> DEFINE d == list_del_init(s, p)
<1>1. Lists(d, S \ {p})
  BY DeleteLists
<1>2. d \in Seq(S \ {p}) /\ d # <<>>
  BY <1>1, EmptyLists DEF Lists
<1>3. list_move(s, p, FALSE) = Append(d, p)
  BY DEF list_move, list_insert
<1> HIDE DEF d
<1>4. Head(Append(d, p)) = Head(d) /\ Head(d) \in S \ {p}
  <2>1. d \in Seq(S) /\ Len(d) \in Nat /\ Len(d) >= 1 /\ d[1] \in S \ {p}
    BY <1>2, EmptySeq, LenProperties, ElementOfSeq
  <2>2. Append(d, p)[1] = d[1] /\ Append(d, p) \in Seq(S) /\ Append(d, p) # <<>>
    BY <2>1
  <2> QED BY <1>2, <2>1, <2>2
<1> QED BY <1>3, <1>4

\* No thread of an array is listed before its first queue.
LEMMA NoneBefore ==
    ASSUME NEW a, NEW W \in SUBSET Task, NEW idx \in [Task -> Prio],
           ArrayOK(a, W, idx), NEW p \in W
    PROVE  first_queue(a) <= idx[p] /\ idx[p] \in Prio
BY FirstQueue, Zenon

\* Of the basic class: sched_yield gives the CPU away where another thread of
\* the class is runnable at the level of the caller or a better one, since
\* yield_task_wrr puts the caller behind it.
THEOREM YieldGives ==
    ASSUME Build = "basic"
    PROVE  Spec => YieldGivesWay
<1> DEFINE Gives == Yield /\ task[curr].class = "wrr"
                      /\ (\E p \in Queued(task, "wrr") \ {curr} : level(p) <= level(curr))
                    => curr' # curr
<1>1. ASSUME PolicyInv, Yield, task[curr].class = "wrr",
             NEW p \in Queued(task, "wrr") \ {curr}, level(p) <= level(curr), curr' = curr
      PROVE  FALSE
  <2> DEFINE W == Queued(task, "wrr")
             i == level(curr)
             a == move_in_queue(rq.wrr, curr, i, FALSE)
             q == [rq EXCEPT !.wrr = a]
  <2>1. /\ Typed(task) /\ RunQueueOK(task, rq) /\ ThreadsOK(task, curr)
        /\ curr \in Task /\ task[curr].on_rq /\ task[curr] \in task_struct
        /\ task[curr].state # "DEAD"
    BY <1>1, CurrFacts, ThreadFacts DEF PolicyInv, Yield, InUser
  <2>2. curr \in W /\ p \in W /\ W \in SUBSET Task
    BY <1>1, <2>1 DEF Queued
  <2>3. PICK r \in yield_task_wrr(rq.wrr, curr, task[curr]) :
           switch_from([task EXCEPT ![curr] = r.task], [rq EXCEPT !.wrr = r.wrr])
    BY <1>1 DEF Yield
  <2>4. r.task = task[curr] /\ r.wrr = a
    <3>1. Basic!wrr_se_prio(task[curr].rt_priority) = i
      BY DEF wrr_se_prio, level
    <3> HIDE DEF i
    <3>2. r = Basic!result(Basic!move_in_queue(rq.wrr, curr, i, FALSE), task[curr], FALSE)
      BY <2>3, <3>1, Zenon DEF yield_task_wrr, Basic!yield_task_wrr, Basic!requeue_task_wrr
    <3> QED BY <3>2, SameOperations, Zenon DEF Basic!result
  <2>5. switch_from(task, q)
    <3>1. [task EXCEPT ![curr] = task[curr]] = task
      BY <2>1 DEF Typed
    <3> QED BY <2>3, <2>4, <3>1
  <2>6. levels(task) \in [Task -> Prio] /\ levels(task)[curr] = i /\ levels(task)[p] = level(p)
    BY <2>1, <2>2, LevelsType DEF levels, level
  <2>7. ArrayOK(rq.wrr, W, levels(task)) /\ ArrayOK(a, W, levels(task)) /\ q.wrr = a
    <3>1. ArrayOK(rq.wrr, W, levels(task))
      BY <2>1 DEF RunQueueOK
    <3>2. ArrayOK(a, W, levels(task))
      BY <2>2, <2>6, <3>1, MoveInOK
    <3> QED BY <2>1, <3>1, <3>2 DEF RunQueueOK
  <2> HIDE DEF W, i, q
  <2>8. a.wrr_nr_running # 0 /\ curr = pick_next_task_wrr(a)
    BY <1>1, <2>1, <2>5, <2>7, PickedByClass DEF switch_from, ThreadsOK, Leaving
  <2>9. i = first_queue(a) /\ i \in Prio
    BY <2>2, <2>6, <2>7, <2>8, PickOK DEF At
  <2>10. level(p) = i
    <3>1. levels(task) \in [Task -> Prio] /\ ArrayOK(a, W, levels(task)) /\ p \in W
      BY <2>2, <2>6, <2>7
    <3>2. first_queue(a) <= levels(task)[p] /\ levels(task)[p] \in Prio
      BY <2>2, <3>1, NoneBefore
    <3>3. level(p) <= i /\ i <= level(p)
      BY <1>1, <2>6, <2>9, <3>2 DEF i
    <3> QED BY <2>6, <2>9, <3>2, <3>3, NPrioAssumption DEF Prio
  <2>11. Lists(rq.wrr.queue[i], At(W, levels(task), i))
    BY <2>2, <2>6, <2>7, <2>9, ArrayAsLists
  <2>12. curr \in At(W, levels(task), i) /\ p \in At(W, levels(task), i) /\ p # curr
    BY <1>1, <2>2, <2>6, <2>10 DEF At
  <2>13. a.queue[i] = list_move(rq.wrr.queue[i], curr, FALSE)
    BY <2>7, <2>9 DEF move_in_queue, ArrayOK, wrr_rq
  <2>14. Head(a.queue[i]) # curr
    BY <2>11, <2>12, <2>13, TailIsNotHead
  <2> QED BY <2>8, <2>9, <2>14 DEF pick_next_task_wrr
<1>2. PolicyInv /\ [Next]_vars => [Gives]_vars
  BY <1>1
<1> QED BY <1>2, PolicyInvAlways, PTL DEF Spec, YieldGivesWay
================================================================================
