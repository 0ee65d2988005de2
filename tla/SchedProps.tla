------------------------------ MODULE SchedProps ------------------------------
(* What the scheduler core promises: the properties of SchedCore. *)
EXTENDS SchedCore

Runnable == {p \in Task : task[p].on_rq}

level(p) == wrr_se_prio(task[p].rt_priority)

-----------------------------------------------------------------------------
(* The run queue and the threads on it. *)

\* The types of the variables.
TypeOK ==
    /\ task \in [Threads -> task_struct]
    /\ rq \in [nr_running : Nat, wrr : wrr_rq]
    /\ curr \in Threads
    /\ need_resched \in BOOLEAN

\* The run list agrees with the threads whatever sequence of wake-ups, ticks,
\* class changes, boosts and group moves went before: every runnable thread of
\* the class is queued once, at the level of its present rt_priority, the
\* bitmap shows the levels in use and both counters count (enqueue_wrr_entity,
\* dequeue_wrr_entity, requeue_task_wrr and their callers in core.c).
QueueInv ==
    /\ rq.nr_running = Cardinality(Runnable)
    /\ ArrayOK(rq.wrr, Queued(task, "wrr"), [p \in Task |-> level(p)])

\* BUG_ON(idx >= MAX_WRR_PRIO) of pick_next_task_wrr cannot fire, and the list
\* head it goes on to dereference heads a list with a task on it.
NoPickBug == rq.wrr.wrr_nr_running # 0 => ~pick_is_bug(rq.wrr)

\* No wake-up is lost between set_current_state and schedule(): a thread marked
\* TASK_RUNNING is on the run queue, the thread that runs is too, and nothing
\* that has not started or is gone is.
RunnableIsQueued ==
    /\ \A p \in Task : task[p].state = "RUNNING" => task[p].on_rq
    /\ \A p \in Task : task[p].on_rq => task[p].state \notin {"FREE", "NEW"}
    /\ \A p \in Task : task[p].state = "DEAD" => p = curr
    /\ curr # Idle => task[curr].on_rq

\* The unsigned --time_slice of task_tick_wrr never wraps: whatever way a thread
\* came into the class (setscheduler, fork) it has a tick left, and never more
\* than the longest slice.
SliceLeft ==
    \A p \in Task : task[p].class = "wrr" =>
        task[p].time_slice \in 1 .. ForeSlice * ((NPrio - 1) \div StageWidth + 1) + BackSlice

\* p->times of wrr_RMLFQ.c, which the thresholds of requeue_task_wrr take from
\* 5 + prio/20 on an unsigned int, never passes that sum: a thread leaves its
\* level before the subtraction wraps a second time, whatever it is by then
\* forked from or requeued by.
TimesBounded ==
    \A p \in Queued(task, "wrr") : task[p].times <= 5 + RMLFQ!bonus(level(p))

-----------------------------------------------------------------------------
(* Preemption: whoever should run next has TIF_NEED_RESCHED set for it. *)

\* A runnable thread of a better class than curr's has a reschedule coming
\* (check_preempt_curr, check_class_changed).
HigherClassGoesFirst ==
    \A p \in Runnable :
        rank(task[p].class) < rank(task[curr].class) => need_resched

EntersWrr(p) == task[p].class # "wrr" /\ task'[p].class = "wrr"

BoostedWrr == task[curr].class = "wrr" /\ rt_prio(task[curr].prio)

\* The class order is only ever lost in a step that moves a thread into the
\* weighted round-robin class (switched_to_wrr), or while a thread runs in that
\* class with the priority of a real-time waiter (switched_to_rt compares prio).
ClassOrderKept ==
    [][HigherClassGoesFirst /\ ~BoostedWrr /\ (\A p \in Task : ~EntersWrr(p))
         => HigherClassGoesFirst']_vars

\* In the class itself a runnable thread at a better level than curr's has a
\* reschedule coming (check_preempt_curr_wrr, task_tick_wrr of wrr_RMLFQ.c).
HigherLevelGoesFirst ==
    \A p \in Queued(task, "wrr") :
        task[curr].class = "wrr" /\ level(p) < level(curr) => need_resched

\* That order is only lost when curr itself moves into the class.
LevelOrderKept ==
    [][HigherLevelGoesFirst /\ ~EntersWrr(curr) => HigherLevelGoesFirst']_vars

\* pick_next_task_wrr chooses as check_preempt_curr_wrr compares: no thread it
\* passes over would, on waking, preempt the one it takes.
PickAgreesWithPreempt ==
    [][curr' # curr /\ task'[curr'].class = "wrr" =>
         \A p \in Queued(task', "wrr") :
             ~check_preempt_curr_wrr(task'[p], task'[curr'])]_vars

\* sched_yield gives the CPU to another thread where one of the class is
\* runnable at the level of the caller or a better one.
YieldGivesWay ==
    [][Yield /\ task[curr].class = "wrr"
             /\ (\E p \in Queued(task, "wrr") \ {curr} : level(p) <= level(curr))
         => curr' # curr]_vars

\* p is queued in the class at the level of curr, and no thread at a better one.
InLine(p) ==
    /\ {p, curr} \subseteq Queued(task, "wrr")
    /\ level(p) = level(curr)
    /\ \A q \in Queued(task, "wrr") : level(p) <= level(q)

\* No living thread is dequeued and enqueued with a changed nice value, group,
\* policy or boost (set_user_nice, sched_move_task, rt_mutex_setprio and
\* __sched_setscheduler put the thread at the tail of its level).  A fork, which
\* fills a task_struct, and the end of an exit, which frees one, are no such step.
Stays ==
    \A p \in Task : task[p].state # "FREE" /\ task'[p].state # "FREE" =>
        UNCHANGED <<task[p].static_prio, task[p].group, task[p].policy, task[p].pi>>

\* Once that is so for good, a thread in line gets its turn, though the others
\* sleep, wake, yield, fork and exit for ever (the requeue to the tail of the
\* level in task_tick_wrr and yield_task_wrr).
EveryoneGetsATurn ==
    <>[][Stays]_vars => \A p \in Task : InLine(p) ~> (curr = p \/ ~InLine(p))

-----------------------------------------------------------------------------
(* Policies, classes and priorities. *)

class_of(t) == CASE rt_policy(t.policy)  -> "rt"
                 [] wrr_policy(t.policy) -> "wrr"
                 [] OTHER                -> "fair"

\* The policy sched_getscheduler reports is the class the thread is scheduled
\* in, unless a waiter on a lock it holds boosts it: a boost ends without
\* trace, and a child does not inherit one (rt_mutex_setprio, sched_fork).
\* This of the policies but SCHED_WRR ...
PolicyNamesClass ==
    \A p \in Task : task[p].pi = NoWaiter /\ ~wrr_policy(task[p].policy)
        => task[p].class = class_of(task[p])

\* ... and of SCHED_WRR: "get the policy (scheduling class) of a thread"
\* (sys_sched_getscheduler).  The code does not keep it: rt_mutex_setprio leaves
\* the thread in the fair class.
WrrPolicyNamesClass ==
    \A p \in Task : task[p].pi = NoWaiter /\ wrr_policy(task[p].policy)
        => task[p].class = class_of(task[p])

Forked(c)  == task[c].state = "FREE" /\ task'[c].state = "NEW"
Default(t) == t.policy = "NORMAL" /\ t.rt_priority = 0

\* Where SCHED_RESET_ON_FORK was asked for, a child starts with the default
\* policy and priority (sched_fork).  This of a parent with a policy but
\* SCHED_WRR ...
ForkResets ==
    [][\A c \in Task :
         Forked(c) /\ task[curr].reset_on_fork /\ ~wrr_policy(task[curr].policy)
           => Default(task'[c])]_vars

\* ... and of SCHED_WRR: "Revert to default priority/policy on fork if
\* requested" (sched_fork).  The code does not keep it: sched_fork looks for
\* SCHED_FIFO and SCHED_RR only.
WrrForkResets ==
    [][\A c \in Task :
         Forked(c) /\ task[curr].reset_on_fork /\ wrr_policy(task[curr].policy)
           => Default(task'[c])]_vars

\* "Valid priorities for SCHED_FIFO and SCHED_RR are 1..MAX_USER_RT_PRIO-1,
\* valid priority for SCHED_NORMAL, SCHED_BATCH and SCHED_IDLE is 0"
\* (__sched_setscheduler).  The code does not keep it: its test lets SCHED_FIFO
\* and SCHED_RR with 0 pass.
ValidPriorities ==
    \A p \in Task : /\ rt_policy(task[p].policy) => task[p].rt_priority # 0
                    /\ task[p].policy = "NORMAL" => task[p].rt_priority = 0

-----------------------------------------------------------------------------
(* The jumps of wrr_RMLFQ.c. *)

\* The random numbers with which p would now jump to the lower stage.
Falls(p) == {r \in 0 .. UMax : RMLFQ!goes_low(r, task[p], level(p))}

\* "A process in a higher stage will have more probability to jump to a lower
\* stage" (report on wrr_RMLFQ.c, page 8): of two threads that stayed equally
\* often, the one with the larger prio/20 falls for more of the numbers that
\* getRand may return.  The code does not keep it: the thresholds of
\* requeue_task_wrr are products modulo 2^32.
HigherStageFallsMore ==
    \A p, q \in Queued(task, "wrr") :
        /\ task[p].times = task[q].times
        /\ RMLFQ!bonus(level(p)) < RMLFQ!bonus(level(q))
        => Cardinality(Falls(p)) < Cardinality(Falls(q))
=============================================================================
