------------------------------ MODULE PrioArray ------------------------------
(* The run list of the weighted round-robin class: struct wrr_prio_array and *)
(* the counter beside it in struct wrr_rq (kernel/sched.h), with the         *)
(* operations wrr_basic.c and wrr_RMLFQ.c apply to them.                     *)
(*                                                                           *)
(* A list_head queue is a sequence of tasks, the bitmap the set of its set   *)
(* bits.  Bit NPrio (MAX_WRR_PRIO) is the delimiter init_wrr_rq sets.        *)
EXTENDS LinkedList, Integers, FiniteSets, SequencesExt

CONSTANTS
    Task,       \* the struct task_struct instances user code may schedule
    NPrio       \* MAX_WRR_PRIO = MAX_RT_PRIO, the number of priorities

ASSUME TaskAssumption  == IsFiniteSet(Task)
ASSUME NPrioAssumption == NPrio \in Nat \ {0}

Prio == 0 .. NPrio - 1

wrr_rq == [queue            : [Prio -> Seq(Task)],
           bitmap           : SUBSET (0 .. NPrio),
           wrr_nr_running   : Nat]

init_wrr_rq == [queue          |-> [i \in Prio |-> <<>>],
                bitmap         |-> {NPrio},
                wrr_nr_running |-> 0]

-----------------------------------------------------------------------------
(* <linux/bitmap.h>, as the classes use it. *)

sched_find_first_bit(bits) == CHOOSE i \in bits : \A j \in bits : i <= j

-----------------------------------------------------------------------------
\* Defect: the bit is not set.
enqueue_without_bit(a, p, i, head) ==
    [a EXCEPT !.queue[i] = list_insert(@, p, head), !.wrr_nr_running = @ + 1]

enqueue_wrr_entity(a, p, i, head) ==
    [queue          |-> [a.queue EXCEPT ![i] = list_insert(@, p, head)],
     bitmap         |-> a.bitmap \union {i},
     wrr_nr_running |-> a.wrr_nr_running + 1]

\* Defects: the bit of an emptied queue stays; every dequeue clears it.
dequeue_keeping_bit(a, p, i) ==
    [a EXCEPT !.queue[i] = list_del_init(@, p), !.wrr_nr_running = @ - 1]

dequeue_clearing_bit(a, p, i) ==
    [dequeue_keeping_bit(a, p, i) EXCEPT !.bitmap = @ \ {i}]

dequeue_wrr_entity(a, p, i) ==
    LET q == list_del_init(a.queue[i], p)
    IN  [queue          |-> [a.queue EXCEPT ![i] = q],
         bitmap         |-> IF q = <<>> THEN a.bitmap \ {i} ELSE a.bitmap,
         wrr_nr_running |-> a.wrr_nr_running - 1]

\* list_move and list_move_tail within queue i.
move_in_queue(a, p, i, head) ==
    [a EXCEPT !.queue[i] = list_move(@, p, head)]

\* list_del_init from queue i, list_add(_tail) to queue j, and the bitmap
\* update requeue_task_wrr (wrr_RMLFQ.c) makes when the two differ.
move_to_queue(a, p, i, j, head) ==
    LET q == list_del_init(a.queue[i], p)
    IN  [queue          |-> [a.queue EXCEPT ![i] = q,
                                            ![j] = list_insert(a.queue[j], p, head)],
         bitmap         |-> (IF q = <<>> THEN a.bitmap \ {i} ELSE a.bitmap) \union {j},
         wrr_nr_running |-> a.wrr_nr_running]

\* Defect: takes the last bit.
last_queue(a) ==
    CHOOSE i \in a.bitmap \ {NPrio} : \A j \in a.bitmap \ {NPrio} : j <= i

\* idx of pick_next_task_wrr, and the BUG_ON that follows it.
first_queue(a)   == sched_find_first_bit(a.bitmap)
pick_is_bug(a)   == first_queue(a) >= NPrio \/ a.queue[first_queue(a)] = <<>>
pick_next_task_wrr(a) == Head(a.queue[first_queue(a)])

-----------------------------------------------------------------------------
(* What the array means: it holds the tasks of W, each exactly once and in   *)
(* the queue of its index idx[p]; a bit is set iff its queue is not empty    *)
(* (the delimiter always is); the counter counts W.                          *)

QueuesHold(a, W, idx) ==
    /\ \A i \in Prio : \A k \in 1 .. Len(a.queue[i]) :
          a.queue[i][k] \in W /\ idx[a.queue[i][k]] = i
    /\ \A p \in W : \E k \in 1 .. Len(a.queue[idx[p]]) : a.queue[idx[p]][k] = p

NoDuplicates(a) ==
    \A i \in Prio : \A j, k \in 1 .. Len(a.queue[i]) :
        a.queue[i][j] = a.queue[i][k] => j = k

BitmapExact(a) ==
    a.bitmap = {i \in Prio : a.queue[i] # <<>>} \union {NPrio}

ArrayOK(a, W, idx) ==
    /\ a \in wrr_rq
    /\ QueuesHold(a, W, idx)
    /\ NoDuplicates(a)
    /\ BitmapExact(a)
    /\ a.wrr_nr_running = Cardinality(W)
=============================================================================
