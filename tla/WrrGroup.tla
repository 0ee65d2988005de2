------------------------------- MODULE WrrGroup -------------------------------
(* The group weighted round-robin class (Bonus/RevisedWRR/wrr_group.c) on    *)
(* one CPU, with the paths of kernel/core.c that call its hooks.             *)
(*                                                                           *)
(* A scheduling entity is a task or the entity of a task group; a group owns *)
(* a run queue (my_q), and the parents of a task's entity are those of the   *)
(* groups it is in.  wrr_rq_of_se takes task_rq() of an uninitialised        *)
(* pointer, which a build without CONFIG_SMP never follows: it is the root   *)
(* run queue of the one CPU whatever the entity.                             *)
EXTENDS Integers, FiniteSets, SequencesExt

CONSTANTS
    Task, Group,    \* task_structs; task groups below the root
    Root, Idle,     \* root_task_group; the idle task
    Parent,         \* [Group -> Group \union {Root}], tg->parent
    Background,     \* the groups whose path has a b after the slash
    NPrio,          \* MAX_WRR_PRIO
    ForeSlice, BackSlice, UMax,
    Boots,          \* the [Task -> its group and priority at the start, or <<>>] of the runs
    Changes         \* bound on forks, policy changes and moves between groups

Entity == Task \union Group

INSTANCE PrioArray WITH Task <- Entity

ASSUME Parent \in [Group -> Group \union {Root}]

VARIABLES
    wrr,            \* [Group \union {Root} -> struct wrr_rq]
    task,           \* [Task -> the fields of struct task_struct]
    curr, need_resched,
    oops,           \* a NULL pointer was followed
    changes

vars == <<wrr, task, curr, need_resched, oops, changes>>

Live == {p \in Task : task[p].state # "FREE"}
OnRq == {p \in Task : task[p].on_rq}

wrr_rq_of_se(se) == Root

\* __prio of a group's entity is read from outside the entity and not used.
wrr_se_prio(se) == task[se].rt_priority

\* for_each_sched_wrr_entity, starting at the entity of p.
RECURSIVE Above(_)
Above(tg) == IF tg = Root THEN <<>> ELSE <<tg>> \o Above(Parent[tg])
entities(p, tg) == <<p>> \o Above(tg)

on_wrr_rq(q, se) ==
    \E i \in Prio : \E k \in DOMAIN q[Root].queue[i] : q[Root].queue[i][k] = se

-----------------------------------------------------------------------------
(* Enqueue and dequeue. *)

inc_wrr_prio(r, prio) == IF prio < r.highest THEN prio ELSE r.highest

\* Defect: the level is taken to be empty, and the next one not.
dec_to_next(r, prio) == IF prio = r.highest THEN prio + 1 ELSE r.highest

dec_wrr_prio(r, prio) ==
    CASE r.wrr_nr_running = 0 -> NPrio
      [] r.wrr_nr_running > 0 /\ prio = r.highest -> sched_find_first_bit(r.bitmap)
      [] OTHER -> r.highest

\* The array operations keep no other field of the queue.
Array(r) == [queue |-> r.queue, bitmap |-> r.bitmap, wrr_nr_running |-> r.wrr_nr_running]
With(a, highest) == [queue |-> a.queue, bitmap |-> a.bitmap,
                     wrr_nr_running |-> a.wrr_nr_running, highest |-> highest]

__enqueue_wrr_entity(q, se, prio, head) ==
    LET on == wrr_rq_of_se(se)
    IN  IF se \in Group /\ q[se].wrr_nr_running = 0 THEN q
        ELSE [q EXCEPT ![on] = With(enqueue_wrr_entity(Array(@), se, prio, head),
                                    inc_wrr_prio(@, prio))]

__dequeue_wrr_entity(q, se, prio) ==
    LET on == wrr_rq_of_se(se)
        a  == dequeue_wrr_entity(Array(q[on]), se, prio)
    IN  [q EXCEPT ![on] = With(a, dec_wrr_prio(With(a, @.highest), prio))]

\* A fold from left to right: step(q, se) on every entity of es in turn.
Along(es, q, step(_, _)) ==
    LET after[k \in 0 .. Len(es)] ==
            IF k = 0 THEN q ELSE step(after[k - 1], es[k])
    IN  after[Len(es)]

\* From the top of the tree down, every entity that is queued.
dequeue_wrr_stack(q, es, prio) ==
    Along(Reverse(es), q, LAMBDA r, se :
        IF on_wrr_rq(r, se) THEN __dequeue_wrr_entity(r, se, prio) ELSE r)

enqueue_task_wrr(q, p, t, head) ==
    LET es == entities(p, t.group)
    IN  Along(es, dequeue_wrr_stack(q, es, t.rt_priority), LAMBDA r, se :
            __enqueue_wrr_entity(r, se, t.rt_priority, head))

dequeue_task_wrr(q, p, t) ==
    LET es == entities(p, t.group)
    IN  Along(es, dequeue_wrr_stack(q, es, t.rt_priority), LAMBDA r, se :
            IF se \in Group /\ r[se].wrr_nr_running > 0
            THEN __enqueue_wrr_entity(r, se, t.rt_priority, FALSE) ELSE r)

requeue_task_wrr(q, p, t, head) ==
    Along(entities(p, t.group), q, LAMBDA r, se :
        IF on_wrr_rq(r, se)
        THEN [r EXCEPT ![wrr_rq_of_se(se)] =
                 With(move_in_queue(Array(@), se, t.rt_priority, head), @.highest)]
        ELSE r)

-----------------------------------------------------------------------------
(* The other hooks. *)

_pick_next_task_wrr(q) == Head(q[Root].queue[first_queue(q[Root])])

get_rr_interval_wrr(t) == IF t.group \in Background THEN BackSlice ELSE ForeSlice

\* run_list.prev # run_list.next of some entity of p: a list of one entry and
\* its head, or an empty one, has them equal.
NotAlone(q, p, t) == Len(q[Root].queue[t.rt_priority]) > 1

\* Defect: the thread goes back to the head of its queue.
tick_to_head(p) == wrr' = requeue_task_wrr(wrr, p, task[p], TRUE)
ToTail(p) == wrr' = requeue_task_wrr(wrr, p, task[p], FALSE)

decremented(slice) == IF slice = 0 THEN UMax ELSE slice - 1

check_preempt_curr_wrr(t) == t.rt_priority > task[curr].rt_priority

\* check_preempt_curr, the answers it may give: within the class as its hook
\* says (that of the fair class is either), and over a lower class.
check_preempt_curr(t) ==
    CASE curr = Idle -> {TRUE}
      [] curr # Idle /\ t.policy # task[curr].policy -> {t.policy = "WRR"}
      [] curr # Idle /\ t.policy = task[curr].policy ->
            IF t.policy = "WRR" THEN {check_preempt_curr_wrr(t)} ELSE BOOLEAN

enqueue(q, p, t) == IF t.policy = "WRR" THEN enqueue_task_wrr(q, p, t, FALSE) ELSE q
dequeue(q, p, t) == IF t.policy = "WRR" THEN dequeue_task_wrr(q, p, t) ELSE q

-----------------------------------------------------------------------------
(* The callers in kernel/core.c. *)

InUser == curr # Idle /\ ~need_resched /\ ~oops

TickWrr ==
    /\ curr # Idle /\ ~oops
    /\ task[curr].policy = "WRR"
    /\ LET left == decremented(task[curr].time_slice)
       IN  IF left # 0
           THEN /\ task' = [task EXCEPT ![curr].time_slice = left]
                /\ UNCHANGED <<wrr, need_resched>>
           ELSE /\ task' = [task EXCEPT ![curr].time_slice = get_rr_interval_wrr(task[curr])]
                /\ IF NotAlone(wrr, curr, task[curr])
                   THEN ToTail(curr) /\ need_resched' = TRUE
                   ELSE UNCHANGED <<wrr, need_resched>>
    /\ UNCHANGED <<curr, oops, changes>>

\* pick_next_task: the class before the fair one, whose choice is any of its own.
Picked(q, t) ==
    LET fair == {p \in Task : t[p].on_rq /\ t[p].policy # "WRR"}
    IN  CASE q[Root].wrr_nr_running > 0 -> {_pick_next_task_wrr(q)}
          [] q[Root].wrr_nr_running = 0 /\ fair # {} -> fair
          [] OTHER -> {Idle}

\* Preemption, and the idle loop.
Schedule ==
    /\ need_resched /\ ~oops
    /\ curr' \in Picked(wrr, task)
    /\ need_resched' = FALSE
    /\ UNCHANGED <<wrr, task, oops, changes>>

\* A task_struct that is not in use.
blank == [policy |-> "NORMAL", rt_priority |-> 0, time_slice |-> 0, group |-> Root,
          state |-> "FREE", on_rq |-> FALSE]

\* schedule() of a thread that waits, or has exited.
Leave(t) ==
    /\ InUser
    /\ task' = [task EXCEPT ![curr] = t]
    /\ wrr' = dequeue(wrr, curr, task[curr])
    /\ curr' \in Picked(wrr', task')
    /\ UNCHANGED <<need_resched, oops, changes>>

Yield ==
    /\ InUser
    /\ wrr' = IF task[curr].policy = "WRR" THEN requeue_task_wrr(wrr, curr, task[curr], FALSE)
              ELSE wrr
    /\ curr' \in Picked(wrr', task)
    /\ UNCHANGED <<task, need_resched, oops, changes>>

\* try_to_wake_up and wake_up_new_task.
Wake(p) ==
    /\ ~oops
    /\ task[p].state \in {"SLEEPING", "NEW"}
    /\ task' = [task EXCEPT ![p].state = "RUNNING", ![p].on_rq = TRUE]
    /\ wrr' = enqueue(wrr, p, task[p])
    /\ \E preempts \in check_preempt_curr(task[p]) : need_resched' = (need_resched \/ preempts)
    /\ UNCHANGED <<curr, oops, changes>>

\* sched_fork; task_fork_wrr reads the slice of the entity of the parent's
\* group, which is never set, and through no pointer in the root group.
Fork(c) ==
    /\ InUser /\ changes < Changes
    /\ task[c].state = "FREE"
    /\ IF task[curr].policy = "WRR" /\ task[curr].group = Root
       THEN oops' = TRUE /\ UNCHANGED task
       ELSE /\ task' = [task EXCEPT ![c] =
                  [task[curr] EXCEPT !.state = "NEW", !.on_rq = FALSE,
                     !.time_slice = IF task[curr].policy = "WRR" THEN 0 ELSE @]]
            /\ UNCHANGED oops
    /\ changes' = changes + 1
    /\ UNCHANGED <<wrr, curr, need_resched>>

\* dequeue_task, the change, enqueue_task.
change_task(p, new) ==
    IF task[p].on_rq THEN enqueue(dequeue(wrr, p, task[p]), p, new) ELSE wrr

\* A priority goes with the policy of the class or with a real-time one; the
\* class takes a priority of 0 too.
valid_request(pol, prio) == pol = "WRR" \/ prio = 0

\* The policy that is already set, and no real-time one: nothing is done, with
\* another priority either.
not_changing(p, pol) == pol = task[p].policy

__setscheduler(t, pol, prio) ==
    LET set == [t EXCEPT !.policy = pol, !.rt_priority = prio]
    IN  IF pol = "WRR" THEN [set EXCEPT !.time_slice = get_rr_interval_wrr(set)] ELSE set

\* Whether curr is to be rescheduled when p, now as t, has entered its class.
switched_to_wrr(p, t) ==
    {t.on_rq /\ p # curr /\ t.rt_priority > task[curr].rt_priority}
switched_to_fair(p, t) ==
    CASE ~t.on_rq -> {FALSE}
      [] t.on_rq /\ p = curr -> {TRUE}
      [] OTHER -> check_preempt_curr(t)

SetScheduler(p, pol, prio) ==
    LET new == __setscheduler(task[p], pol, prio)
    IN  /\ InUser /\ changes < Changes
        /\ task[p].state # "FREE"
        /\ valid_request(pol, prio) /\ ~not_changing(p, pol)
        /\ task' = [task EXCEPT ![p] = new]
        /\ wrr' = change_task(p, new)
        /\ need_resched' \in IF pol = "WRR" THEN switched_to_wrr(p, new)
                             ELSE switched_to_fair(p, new)
        /\ changes' = changes + 1
        /\ UNCHANGED <<curr, oops>>

\* sched_move_task
MoveTask(p, tg) ==
    LET new == [task[p] EXCEPT !.group = tg]
    IN  /\ InUser /\ changes < Changes
        /\ task[p].state \in {"RUNNING", "SLEEPING"}
        /\ tg # task[p].group
        /\ task' = [task EXCEPT ![p] = new]
        /\ wrr' = change_task(p, new)
        /\ changes' = changes + 1
        /\ UNCHANGED <<curr, need_resched, oops>>

-----------------------------------------------------------------------------
\* A thread that sleeps in its group, after a request for the class.
booted(b) ==
    IF b = <<>> THEN blank
    ELSE [__setscheduler([blank EXCEPT !.group = b[1]], "WRR", b[2])
             EXCEPT !.state = "SLEEPING"]

Init ==
    /\ wrr = [g \in Group \union {Root} |-> With(init_wrr_rq, NPrio)]
    /\ \E boot \in Boots : task = [p \in Task |-> booted(boot[p])]
    /\ curr = Idle
    /\ need_resched = FALSE /\ oops = FALSE
    /\ changes = 0

Next ==
    \/ TickWrr
    \/ Schedule
    \/ Leave([task[curr] EXCEPT !.state = "SLEEPING", !.on_rq = FALSE])
    \/ Leave(blank)
    \/ Yield
    \/ \E p \in Task :
          \/ Wake(p)
          \/ Fork(p)
          \/ \E pol \in {"NORMAL", "WRR"}, prio \in 0 .. NPrio - 1 : SetScheduler(p, pol, prio)
          \/ \E tg \in Group \union {Root} : MoveTask(p, tg)

Spec == Init /\ [][Next]_vars

FairSpec == Spec /\ WF_vars(TickWrr) /\ WF_vars(Schedule)

-----------------------------------------------------------------------------
Queued == {p \in OnRq : task[p].policy = "WRR"}

\* Every runnable thread of the class is on the root's run list once, at its
\* priority, whatever groups it moves through; the counter, the bitmap and the
\* cached highest_prio.curr agree with the list (dec_wrr_prio recomputes it only
\* when the priority that left is the cached one), and no group is ever queued.
QueueExact ==
    /\ ArrayOK(Array(wrr[Root]), Queued, [p \in Task |-> task[p].rt_priority])
    /\ wrr[Root].highest = first_queue(wrr[Root])
    /\ \A g \in Group : wrr[g].wrr_nr_running = 0

\* The slices a tick can use up.
Expires(p) == task[p].time_slice \in 1 .. ForeSlice

\* p is at the level the class picks from and curr runs at (a thread alone at a
\* worse level keeps the CPU, as in wrr_basic.c), and no thread of that level is
\* a child whose slice of 0 (task_fork_wrr) wraps at its first tick.
WaitsItsTurn(p) ==
    /\ {p, curr} \subseteq Queued /\ ~oops
    /\ task[p].rt_priority = first_queue(wrr[Root])
    /\ task[p].rt_priority = task[curr].rt_priority
    /\ \A q \in Queued : task[q].rt_priority = task[p].rt_priority => Expires(q)

\* Such a thread runs, unless it stops waiting: threads of other groups and
\* those that move between groups, yield or wake do not keep it from its turn.
TurnComes == \A p \in Task : WaitsItsTurn(p) ~> (curr = p \/ ~WaitsItsTurn(p))
=============================================================================
