------------------------------ MODULE SchedCore ------------------------------
(* The scheduler core of kernel/core.c on one CPU: which thread runs, which  *)
(* are on the run queue, and every operation that moves a thread between     *)
(* scheduling classes, over the weighted round-robin class of either build   *)
(* (Basic/wrr_basic.c, Bonus/RevisedWRR/wrr_RMLFQ.c).                        *)
(*                                                                           *)
(* An action is one section of code under rq->lock.  The real-time and fair  *)
(* classes are modelled by the queue they keep (a set of threads, the        *)
(* real-time one ordered by prio) and by what their hooks do to              *)
(* TIF_NEED_RESCHED; what they decide from time is a free choice.            *)
EXTENDS PrioArray

CONSTANTS
    ForeSlice, BackSlice, UMax,        \* see WrrBasic
    StageWidth, WideLiteral,           \* see WrrRMLFQ
    Idle,       \* the idle thread, rq->idle
    Build,      \* "basic" or "rmlfq": the wrr.c the kernel is built with
    Policies,   \* the policies sched_setscheduler is called with
    Resets,     \* with SCHED_RESET_ON_FORK or without (subset of BOOLEAN)
    Donors,     \* the priorities waiters on an rt_mutex donate
    Boot,       \* <<policy, rt_priority, group>> of the threads at the start
    Ops         \* the operations the environment uses

Basic == INSTANCE WrrBasic
RMLFQ == INSTANCE WrrRMLFQ

Policy    == {"NORMAL", "FIFO", "RR", "WRR"}
Operation == {"fork", "yield", "setscheduler", "nice", "pi", "group"}

ASSUME IdleAssumption   == Idle \notin Task
ASSUME SliceAssumption  == ForeSlice \in Nat \ {0} /\ BackSlice \in Nat \ {0}
ASSUME StageAssumption  == StageWidth \in 1 .. NPrio /\ WideLiteral \in BOOLEAN
\* Every slice (of every stage) is an unsigned int.
ASSUME UMaxAssumption   ==
    /\ UMax \in Nat
    /\ {ForeSlice, BackSlice} \subseteq 0 .. UMax
    /\ \A i \in Prio : ForeSlice * (i \div StageWidth + 1) <= UMax
ASSUME BuildAssumption  == Build \in {"basic", "rmlfq"}
ASSUME PolicyAssumption == Policies \subseteq Policy
ASSUME ResetAssumption  == Resets \subseteq BOOLEAN
ASSUME DonorAssumption  == Donors \subseteq 0 .. NPrio + 1
\* Threads start as a request of __sched_setscheduler made them.
ASSUME BootAssumption   ==
    /\ Boot \subseteq Policy \X (0 .. NPrio - 1) \X {"fg", "bg"}
    /\ \A b \in Boot : b[1] = "NORMAL" => b[2] = 0
ASSUME OpsAssumption    == Ops \subseteq Operation

VARIABLES
    task,           \* struct task_struct of every thread
    rq,             \* struct rq: nr_running and the wrr run list
    curr,           \* rq->curr
    need_resched    \* TIF_NEED_RESCHED of rq->curr (no other thread has it set)

vars == <<task, rq, curr, need_resched>>

-----------------------------------------------------------------------------
(* Priorities.  Real-time ones are 0 .. NPrio-1; of the 40 nice levels above *)
(* them there are two, the default and a better one.                         *)

NiceBetter  == NPrio
NiceDefault == NPrio + 1
NicePrio    == {NiceBetter, NiceDefault}
NoWaiter    == NPrio + 2     \* no waiter on a lock the thread holds

rt_prio(prio)   == prio < NPrio
rt_policy(pol)  == pol \in {"FIFO", "RR"}
wrr_policy(pol) == pol = "WRR"

normal_prio(t) ==
    IF rt_policy(t.policy) THEN NPrio - 1 - t.rt_priority ELSE t.static_prio

effective_prio(t) == IF rt_prio(t.prio) THEN t.prio ELSE normal_prio(t)

\* kernel/rtmutex.c: the better of normal_prio and the top waiter's priority.
rt_mutex_getprio(t) == IF t.pi < normal_prio(t) THEN t.pi ELSE normal_prio(t)

-----------------------------------------------------------------------------
(* Threads. *)

Threads == Task \union {Idle}

State == {"FREE",       \* no such thread
          "NEW",        \* forked, wake_up_new_task still to come
          "RUNNING",    \* TASK_RUNNING
          "SLEEPING",   \* TASK_INTERRUPTIBLE
          "DEAD"}       \* TASK_DEAD

task_struct ==
    [policy : Policy, class : {"rt", "wrr", "fair", "idle"},
     rt_priority : 0 .. NPrio - 1, prio : 0 .. NPrio + 1,
     static_prio : NicePrio, pi : 0 .. NoWaiter,
     state : State, on_rq : BOOLEAN,
     time_slice : 0 .. UMax, times : 0 .. UMax,
     group : {"fg", "bg"}, reset_on_fork : BOOLEAN, parent : Threads]

blank == [policy |-> "NORMAL", class |-> "fair", rt_priority |-> 0,
          prio |-> NiceDefault, static_prio |-> NiceDefault, pi |-> NoWaiter,
          state |-> "FREE", on_rq |-> FALSE, time_slice |-> 0, times |-> 0,
          group |-> "fg", reset_on_fork |-> FALSE, parent |-> Idle]

idle_task == [blank EXCEPT !.class = "idle", !.state = "RUNNING"]

Queued(T, class) == {p \in Task : T[p].on_rq /\ T[p].class = class}

\* for_each_class: stop, rt, wrr, fair, idle
rank(class) == CASE class = "rt" -> 1 [] class = "wrr" -> 2
                 [] class = "fair" -> 3 [] class = "idle" -> 4

-----------------------------------------------------------------------------
(* The weighted round-robin hooks of the build. *)

wrr_se_prio(rtp) == IF Build = "basic" THEN Basic!wrr_se_prio(rtp)
                                       ELSE RMLFQ!wrr_se_prio(rtp)
get_rr_interval_wrr(t) == IF Build = "basic" THEN Basic!get_rr_interval_wrr(t)
                                             ELSE RMLFQ!get_rr_interval_wrr(t)
task_tick_wrr(a, p, t) == IF Build = "basic" THEN Basic!task_tick_wrr(a, p, t)
                                             ELSE RMLFQ!task_tick_wrr(a, p, t)
yield_task_wrr(a, p, t) == IF Build = "basic" THEN Basic!yield_task_wrr(a, p, t)
                                              ELSE RMLFQ!yield_task_wrr(a, p, t)
check_preempt_curr_wrr(t, c) ==
    IF Build = "basic" THEN Basic!check_preempt_curr_wrr(t, c)
                       ELSE RMLFQ!check_preempt_curr_wrr(t, c)
switched_to_wrr(t, c) == IF Build = "basic" THEN Basic!switched_to_wrr(t, c)
                                            ELSE RMLFQ!switched_to_wrr(t, c)

-----------------------------------------------------------------------------
(* The run queue. *)

\* Defect: the class does not count its threads in rq->nr_running.
enqueue_uncounted(q, p, t, head) ==
    IF t.class = "wrr"
    THEN [q EXCEPT !.wrr = enqueue_wrr_entity(@, p, wrr_se_prio(t.rt_priority), head)]
    ELSE [q EXCEPT !.nr_running = @ + 1]

enqueue_task(q, p, t, head) ==
    [nr_running |-> q.nr_running + 1,
     wrr |-> IF t.class = "wrr"
             THEN enqueue_wrr_entity(q.wrr, p, wrr_se_prio(t.rt_priority), head)
             ELSE q.wrr]

dequeue_task(q, p, t) ==
    [nr_running |-> q.nr_running - 1,
     wrr |-> IF t.class = "wrr"
             THEN dequeue_wrr_entity(q.wrr, p, wrr_se_prio(t.rt_priority))
             ELSE q.wrr]

\* "if (on_rq) dequeue_task; ... change p ...; if (on_rq) enqueue_task"
change_task(q, p, old, new, head) ==
    IF old.on_rq THEN enqueue_task(dequeue_task(q, p, old), p, new, head) ELSE q

\* The threads pick_next_task may return.
pick_next_task(T, q) ==
    LET fair == Queued(T, "fair")
        rt   == Queued(T, "rt")
    IN  CASE q.nr_running = Cardinality(fair) /\ fair # {} -> fair
          [] OTHER ->
             CASE rt # {} -> {p \in rt : \A r \in rt : T[p].prio <= T[r].prio}
               [] rt = {} /\ q.wrr.wrr_nr_running # 0 -> {pick_next_task_wrr(q.wrr)}
               [] rt = {} /\ q.wrr.wrr_nr_running = 0 /\ fair # {} -> fair
               [] OTHER -> {Idle}

-----------------------------------------------------------------------------
(* Does an event of thread p, now with fields t, make rq->curr reschedule?   *)
(* The set of the possible answers.                                          *)

\* Defect: only threads of curr's class preempt it.
preempt_in_class(p, t) ==
    IF t.class = task[curr].class THEN {t.prio < task[curr].prio} ELSE {FALSE}

check_preempt_curr(p, t) ==
    LET c == IF p = curr THEN t ELSE task[curr]
    IN  CASE t.class # c.class -> {rank(t.class) < rank(c.class)}
          [] t.class = c.class /\ t.class = "wrr"  -> {check_preempt_curr_wrr(t, c)}
          [] t.class = c.class /\ t.class = "rt"   -> {t.prio < c.prio}
          [] t.class = c.class /\ t.class = "fair" ->
                 IF p = curr THEN {FALSE} ELSE BOOLEAN

\* Defect: switched_to_rt asks for nothing.
switched_without_rt(p, t) ==
    {t.on_rq /\ t.class = "fair" /\ p = curr}

switched_to(p, t) ==
    LET c == task[curr]
    IN  CASE ~t.on_rq -> {FALSE}
          [] t.on_rq /\ t.class = "wrr" -> {p # curr /\ switched_to_wrr(t, c)}
          [] t.on_rq /\ t.class = "rt"  -> {p # curr /\ t.prio < c.prio}
          [] t.on_rq /\ t.class = "fair" ->
                 IF p = curr THEN {TRUE} ELSE check_preempt_curr(p, t)

prio_changed(p, t, oldprio) ==
    CASE ~t.on_rq \/ t.class = "wrr" -> {FALSE}
      [] t.on_rq /\ t.class = "rt" ->
             {IF p = curr THEN oldprio < t.prio ELSE t.prio < task[curr].prio}
      [] t.on_rq /\ t.class = "fair" ->
             IF p = curr THEN {oldprio < t.prio} ELSE check_preempt_curr(p, t)

check_class_changed(p, old, new) ==
    CASE old.class # new.class -> switched_to(p, new)
      [] old.class = new.class /\ old.prio # new.prio ->
             prio_changed(p, new, old.prio)
      [] OTHER -> {FALSE}

resched(answers) == \E b \in answers : need_resched' = (need_resched \/ b)

-----------------------------------------------------------------------------
(* Time: scheduler_tick.  The idle class ignores ticks.                      *)

TickWrr ==
    /\ task[curr].class = "wrr"
    /\ \E r \in task_tick_wrr(rq.wrr, curr, task[curr]) :
          /\ task' = [task EXCEPT ![curr] = r.task]
          /\ rq'   = [rq EXCEPT !.wrr = r.wrr]
          /\ need_resched' = (need_resched \/ r.resched)
    /\ UNCHANGED curr

\* A tick on which task_tick_fair or task_tick_rt ends curr's turn.
TickOther ==
    /\ \/ task[curr].class = "fair"
       \/ task[curr].class = "rt" /\ task[curr].policy = "RR"
    /\ \E p \in Queued(task, task[curr].class) \ {curr} :
          task[curr].class = "rt" => task[p].prio = task[curr].prio
    /\ need_resched' = TRUE
    /\ UNCHANGED <<task, rq, curr>>

-----------------------------------------------------------------------------
(* __schedule *)

\* put_prev_task, pick_next_task, context_switch and, for a dead prev, the
\* put_task_struct of finish_task_switch.
switch_from(T, q) ==
    /\ rq' = q
    /\ curr' \in pick_next_task(T, q)
    /\ task' = IF T[curr].state = "DEAD" THEN [T EXCEPT ![curr] = blank] ELSE T
    /\ need_resched' = FALSE

\* schedule(): curr blocks, exits or gives way at a point of its choosing.
Schedule ==
    \/ /\ task[curr].state = "RUNNING" /\ need_resched
       /\ switch_from(task, rq)
    \/ /\ task[curr].state = "SLEEPING"      \* signal_pending_state
       /\ switch_from([task EXCEPT ![curr].state = "RUNNING"], rq)
    \/ /\ task[curr].state \in {"SLEEPING", "DEAD"}
       /\ switch_from([task EXCEPT ![curr].on_rq = FALSE],
                      dequeue_task(rq, curr, task[curr]))

\* preempt_schedule[_irq](): PREEMPT_ACTIVE keeps a thread that is about to
\* sleep on the run queue.  do_exit runs with preemption disabled.
PreemptSchedule ==
    /\ need_resched
    /\ curr # Idle
    /\ task[curr].state \in {"RUNNING", "SLEEPING"}
    /\ switch_from(task, rq)

\* set_current_state: curr prepares to sleep, or finds it need not.
SetSleeping ==
    /\ curr # Idle
    /\ task[curr].state = "RUNNING"
    /\ task' = [task EXCEPT ![curr].state = "SLEEPING"]
    /\ UNCHANGED <<rq, curr, need_resched>>

SetRunning ==
    /\ task[curr].state = "SLEEPING"
    /\ task' = [task EXCEPT ![curr].state = "RUNNING"]
    /\ UNCHANGED <<rq, curr, need_resched>>

\* Defect: the remote half, without a look at on_rq.
WakeUnchecked(p) ==
    /\ task[p].state = "SLEEPING"
    /\ task' = [task EXCEPT ![p].state = "RUNNING"]
    /\ resched(check_preempt_curr(p, task[p]))
    /\ UNCHANGED <<rq, curr>>

\* try_to_wake_up, from an interrupt or from curr; the remote half
\* (ttwu_remote) when p is still on the run queue.
Wake(p) ==
    LET t == task[p]
        woken == [t EXCEPT !.on_rq = TRUE, !.state = "RUNNING"]
    IN  /\ t.state = "SLEEPING"
        /\ rq' = IF t.on_rq THEN rq ELSE enqueue_task(rq, p, woken, FALSE)
        /\ task' = [task EXCEPT ![p] = woken]
        /\ resched(check_preempt_curr(p, woken))
        /\ UNCHANGED curr

-----------------------------------------------------------------------------
(* System calls of curr. *)

InUser == /\ curr # Idle
          /\ task[curr].state = "RUNNING"
          /\ \A c \in Task : ~(task[c].state = "NEW" /\ task[c].parent = curr)

\* sched_yield: yield_task and schedule() with interrupts off throughout.
Yield ==
    /\ "yield" \in Ops
    /\ InUser
    /\ \/ /\ task[curr].class = "wrr"
          /\ \E r \in yield_task_wrr(rq.wrr, curr, task[curr]) :
                switch_from([task EXCEPT ![curr] = r.task], [rq EXCEPT !.wrr = r.wrr])
       \/ /\ task[curr].class # "wrr"
          /\ switch_from(task, rq)

Exit ==
    /\ "fork" \in Ops
    /\ InUser
    /\ task' = [task EXCEPT ![curr].state = "DEAD"]
    /\ UNCHANGED <<rq, curr, need_resched>>

\* Defects: the child keeps the priority its parent is boosted to; a reset
\* leaves rt_priority.
fork_boosted(t) ==
    [t EXCEPT !.class = IF rt_prio(t.prio) THEN @ ELSE "fair",
              !.on_rq = FALSE, !.pi = NoWaiter, !.state = "NEW", !.parent = curr]

fork_with_rt_priority(t) ==
    [t EXCEPT !.policy = IF t.reset_on_fork THEN "NORMAL" ELSE @,
              !.prio = IF t.reset_on_fork THEN NiceDefault ELSE normal_prio(t),
              !.class = IF t.reset_on_fork THEN "fair" ELSE @,
              !.reset_on_fork = FALSE,
              !.on_rq = FALSE, !.pi = NoWaiter, !.state = "NEW", !.parent = curr]

sched_fork(t) ==
    LET kept  == [t EXCEPT !.prio = normal_prio(t)]
        plain == IF rt_policy(t.policy)
                 THEN [t EXCEPT !.policy = "NORMAL", !.static_prio = NiceDefault,
                                !.rt_priority = 0]
                 ELSE [t EXCEPT !.static_prio = NiceDefault]
        child == IF t.reset_on_fork
                 THEN [plain EXCEPT !.prio = plain.static_prio, !.reset_on_fork = FALSE]
                 ELSE kept
    IN  [child EXCEPT !.class = CASE child.policy = "WRR" -> "wrr"
                                  [] child.policy # "WRR" /\ ~rt_prio(child.prio) -> "fair"
                                  [] OTHER -> @,
                      !.on_rq = FALSE, !.pi = NoWaiter,
                      !.state = "NEW", !.parent = curr]

Fork(c) ==
    /\ "fork" \in Ops
    /\ InUser
    /\ task[c].state = "FREE"
    /\ task' = [task EXCEPT ![c] = sched_fork(task[curr])]
    /\ UNCHANGED <<rq, curr, need_resched>>

\* wake_up_new_task, the end of curr's do_fork
WakeUpNew(c) ==
    LET woken == [task[c] EXCEPT !.on_rq = TRUE, !.state = "RUNNING", !.parent = Idle]
    IN  /\ task[c].state = "NEW" /\ task[c].parent = curr
        /\ task[curr].state = "RUNNING"
        /\ rq' = enqueue_task(rq, c, woken, FALSE)
        /\ task' = [task EXCEPT ![c] = woken]
        /\ resched(check_preempt_curr(c, woken))
        /\ UNCHANGED curr

-----------------------------------------------------------------------------
__setscheduler(t, pol, prio) ==
    LET s == [t EXCEPT !.policy = pol, !.rt_priority = prio]
        u == [s EXCEPT !.prio = rt_mutex_getprio(s)]
    IN  CASE wrr_policy(pol) ->
                 [u EXCEPT !.class = "wrr", !.times = 1,
                           !.time_slice = get_rr_interval_wrr(u)]
          [] ~wrr_policy(pol) /\ rt_prio(u.prio)  -> [u EXCEPT !.class = "rt"]
          [] ~wrr_policy(pol) /\ ~rt_prio(u.prio) -> [u EXCEPT !.class = "fair"]

\* The requests __sched_setscheduler accepts of a privileged caller ...
valid_request(pol, prio) ==
    \/ rt_policy(pol)  <=> prio # 0
    \/ wrr_policy(pol) <=> prio # 0

\* Defect: priorities are not compared.
same_policy(t, pol, prio) == pol = t.policy

\* ... and of these, those it takes for "not changing anything".
not_changing(t, pol, prio) ==
    pol = t.policy /\ (~rt_policy(pol) \/ prio = t.rt_priority)

SetScheduler(p, pol, prio, reset) ==
    LET old == task[p]
        new == __setscheduler([old EXCEPT !.reset_on_fork = reset], pol, prio)
    IN  /\ "setscheduler" \in Ops
        /\ InUser
        /\ old.state # "FREE"
        /\ valid_request(pol, prio)
        /\ ~not_changing(old, pol, prio)
        /\ task' = [task EXCEPT ![p] = new]
        /\ rq' = change_task(rq, p, old, new, FALSE)
        /\ resched(check_class_changed(p, old, new))
        /\ UNCHANGED curr

\* set_user_nice
SetUserNice(p, nice) ==
    LET old   == task[p]
        niced == [old EXCEPT !.static_prio = nice]
        new   == IF rt_policy(old.policy) THEN niced
                 ELSE [niced EXCEPT !.prio = effective_prio(niced)]
        better == new.prio < old.prio
        worse  == new.prio > old.prio
    IN  /\ "nice" \in Ops
        /\ InUser
        /\ old.state # "FREE"
        /\ nice # old.static_prio
        /\ task' = [task EXCEPT ![p] = new]
        /\ rq' = IF rt_policy(old.policy) THEN rq
                 ELSE change_task(rq, p, old, new, FALSE)
        /\ need_resched' = (need_resched \/
                               (old.on_rq /\ (better \/ (worse /\ p = curr))))
        /\ UNCHANGED curr

\* rt_mutex_setprio, called by __rt_mutex_adjust_prio (kernel/rtmutex.c) when
\* the waiters on p's locks change and p's priority with them.
RtMutexSetprio(p, donor) ==
    LET waited == [task[p] EXCEPT !.pi = donor]
        prio   == rt_mutex_getprio(waited)
        new    == IF prio = waited.prio THEN waited
                  ELSE [waited EXCEPT !.prio = prio,
                                      !.class = IF rt_prio(prio) THEN "rt" ELSE "fair"]
    IN  /\ "pi" \in Ops
        /\ curr # Idle
        /\ task[p].state \in {"RUNNING", "SLEEPING"}
        /\ donor # task[p].pi
        /\ task' = [task EXCEPT ![p] = new]
        /\ rq' = IF prio = waited.prio THEN rq
                 ELSE change_task(rq, p, waited, new, waited.prio < prio)
        /\ resched(check_class_changed(p, waited, new))
        /\ UNCHANGED curr

\* sched_move_task
MoveTask(p, group) ==
    LET old == task[p]
        new == [old EXCEPT !.group = group]
    IN  /\ "group" \in Ops
        /\ InUser
        /\ old.state \notin {"FREE", "NEW"}
        /\ group # old.group
        /\ task' = [task EXCEPT ![p] = new]
        /\ rq' = change_task(rq, p, old, new, FALSE)
        /\ UNCHANGED <<curr, need_resched>>

-----------------------------------------------------------------------------
\* Threads asleep as __setscheduler left them, or yet to be forked.
booted(b) ==
    [__setscheduler([blank EXCEPT !.group = b[3]], b[1], b[2])
        EXCEPT !.state = "SLEEPING"]

Init ==
    /\ \E first \in [Task -> Boot \union IF "fork" \in Ops THEN {<<>>} ELSE {}] :
          task = [p \in Threads |->
                     CASE p = Idle -> idle_task
                       [] p # Idle /\ first[p] = <<>> -> blank
                       [] OTHER -> booted(first[p])]
    /\ rq = [nr_running |-> 0, wrr |-> init_wrr_rq]
    /\ curr = Idle
    /\ need_resched = FALSE

\* Everything but sched_setscheduler.
Kernel ==
    \/ TickWrr
    \/ TickOther
    \/ Schedule
    \/ PreemptSchedule
    \/ SetSleeping
    \/ SetRunning
    \/ Yield
    \/ Exit
    \/ \E p \in Task :
          \/ Wake(p)
          \/ Fork(p)
          \/ WakeUpNew(p)
          \/ \E nice \in NicePrio : SetUserNice(p, nice)
          \/ \E donor \in Donors \union {NoWaiter} : RtMutexSetprio(p, donor)
          \/ \E group \in {"fg", "bg"} : MoveTask(p, group)

Next ==
    \/ Kernel
    \/ \E p \in Task, pol \in Policies, prio \in 0 .. NPrio - 1, reset \in Resets :
          SetScheduler(p, pol, prio, reset)

Spec == Init /\ [][Next]_vars

\* The timer interrupts, and a reschedule asked for (or a call of schedule()
\* begun) is carried out: preemption is never off for ever.
Fairness == WF_vars(TickWrr) /\ WF_vars(Schedule \/ PreemptSchedule)

FairSpec == Spec /\ Fairness
=============================================================================
