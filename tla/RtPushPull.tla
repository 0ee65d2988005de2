----------------------------- MODULE RtPushPull -----------------------------
(***************************************************************************)
(* kernel/rt.c on several CPUs: which CPU a real-time thread runs on.      *)
(* A waking thread chooses a CPU, a CPU pushes away what it cannot run,    *)
(* and pulls when its own priority falls.  Priorities as in task->prio:    *)
(* less is better, and MAX_RT_PRIO stands for every thread of the fair     *)
(* class.                                                                  *)
(*                                                                         *)
(* A step is what runs between two points where rq->lock may be dropped:   *)
(* pc[e] says what CPU e has to do when double_lock_balance returns.  A    *)
(* context switch keeps the lock, so task_running is being rq->curr.  Run  *)
(* lists are sets: any of the best threads may be at the head.             *)
(***************************************************************************)
EXTENDS Integers, FiniteSets, FiniteSetsExt

CONSTANTS
    CPU, Thread, Idle,
    MAX_RT_PRIO,
    Masks,          \* the affinity masks that are set
    Changes,        \* how many priorities, masks and CPUs change: a bound
    Hotplug         \* the CPUs that may be unplugged

ASSUME PushPullAssumption ==
    /\ CPU \subseteq Nat /\ IsFiniteSet(CPU) /\ IsFiniteSet(Thread) /\ Idle \notin Thread
    /\ MAX_RT_PRIO \in Nat \ {0} /\ Changes \in Nat /\ Masks \subseteq SUBSET CPU /\ Hotplug \subseteq CPU

RT_MAX_TRIES == 3

VARIABLES
    m,      \* the threads, run queues and root domain, see Machine
    pc,     \* what a CPU does
    changes \* how many changes there were

vars == <<m, pc, changes>>

Run == [in |-> "run"]

Change == changes < Changes /\ changes' = changes + 1
Same   == UNCHANGED changes

Machine == [
    prio: [Thread -> 1 .. MAX_RT_PRIO], allowed: [Thread -> SUBSET CPU],
    cpu: [Thread -> CPU], on_rq: SUBSET Thread,
    curr: [CPU -> Thread \cup {Idle}], resched: SUBSET CPU, online: SUBSET CPU,
    pushable: [CPU -> SUBSET Thread],       \* rt_rq->pushable_tasks
    migratory: [CPU -> Int],                \* rt_rq->rt_nr_migratory
    overloaded: SUBSET CPU,                 \* rt_rq->overloaded
    rto: SUBSET CPU,                        \* rd->rto_mask
    cpupri: [CPU -> 0 .. MAX_RT_PRIO]]      \* rd->cpupri, 0 for CPUPRI_INVALID

-----------------------------------------------------------------------------
(* The state of a run queue. *)

rt_task(s, p)   == p # Idle /\ s.prio[p] < MAX_RT_PRIO
PrioOf(s, p)    == IF p = Idle THEN MAX_RT_PRIO ELSE s.prio[p]
Active(s, c)    == {p \in s.on_rq : s.cpu[p] = c /\ rt_task(s, p)}
Many(s, p)      == Cardinality(s.allowed[p]) > 1
Best(s, P)      == {p \in P : \A q \in P : s.prio[p] <= s.prio[q]}
highest_curr(s, c) == Min({s.prio[p] : p \in Active(s, c)} \cup {MAX_RT_PRIO})
highest_next(s, c) == Min({s.prio[p] : p \in s.pushable[c]} \cup {MAX_RT_PRIO})

resched_task(s, c) == [s EXCEPT !.resched = @ \cup {c}]

\* Defect: the root domain is told of an overload, never of its end.
overload_sticks(s, c) ==
    LET now == s.migratory[c] > 0 /\ Cardinality(Active(s, c)) > 1
    IN  IF now => c \in s.overloaded THEN s
        ELSE [s EXCEPT !.overloaded = @ \cup {c}, !.rto = IF c \in s.online THEN @ \cup {c} ELSE @]

update_rt_migration(s, c) ==
    LET now    == s.migratory[c] > 0 /\ Cardinality(Active(s, c)) > 1
        put(S) == IF now THEN S \cup {c} ELSE S \ {c}
    IN  IF now <=> c \in s.overloaded THEN s
        ELSE [s EXCEPT !.overloaded = put(@), !.rto = IF c \in s.online THEN put(@) ELSE @]

\* inc_rt_prio_smp and dec_rt_prio_smp.
cpupri_set(s, c) == IF c \in s.online THEN [s EXCEPT !.cpupri[c] = highest_curr(s, c)] ELSE s

enqueue_pushable_task(s, c, p) == [s EXCEPT !.pushable[c] = @ \cup {p}]
dequeue_pushable_task(s, c, p) == [s EXCEPT !.pushable[c] = @ \ {p}]

enqueue_task_rt(s, c, p) ==
    LET t == cpupri_set(update_rt_migration([s EXCEPT !.on_rq = @ \cup {p}, !.cpu[p] = c,
                                                      !.migratory[c] = IF Many(s, p) THEN @ + 1 ELSE @], c), c)
    IN  IF s.curr[c] # p /\ Many(s, p) THEN enqueue_pushable_task(t, c, p) ELSE t

dequeue_task_rt(s, c, p) ==
    dequeue_pushable_task(
        cpupri_set(update_rt_migration([s EXCEPT !.on_rq = @ \ {p},
                                                 !.migratory[c] = IF Many(s, p) THEN @ - 1 ELSE @], c), c), c, p)

activate_task(s, c, p) ==
    IF rt_task(s, p) THEN enqueue_task_rt(s, c, p) ELSE [s EXCEPT !.on_rq = @ \cup {p}, !.cpu[p] = c]

deactivate_task(s, p) ==
    IF rt_task(s, p) THEN dequeue_task_rt(s, s.cpu[p], p) ELSE [s EXCEPT !.on_rq = @ \ {p}]

-----------------------------------------------------------------------------
(* Where a thread may go. *)

\* cpupri_find: the CPUs of the least priority, if that is below p's.
cpupri_find(s, p) ==
    LET C == {c \in s.allowed[p] : s.cpupri[c] > s.prio[p]}
    IN  {c \in C : \A d \in C : s.cpupri[c] >= s.cpupri[d]}

\* The CPU of p if it is among them, else any, by the domains of the machine.
find_lowest_rq(s, p) ==
    IF ~Many(s, p) THEN {} ELSE IF s.cpu[p] \in cpupri_find(s, p) THEN {s.cpu[p]} ELSE cpupri_find(s, p)

\* The head of rq->rt.pushable_tasks.
pick_next_pushable_task(s, c) == Best(s, s.pushable[c])

check_preempt_equal_prio(s, c, p) ==
    IF /\ Many(s, s.curr[c]) /\ cpupri_find(s, s.curr[c]) # {}
       /\ Many(s, p) => cpupri_find(s, p) = {}
    THEN resched_task(s, c) ELSE s

check_preempt_curr(s, c, p) ==
    CASE s.curr[c] = Idle                        -> resched_task(s, c)
      [] PrioOf(s, p) < PrioOf(s, s.curr[c])     -> resched_task(s, c)
      [] rt_task(s, p) /\ PrioOf(s, p) = PrioOf(s, s.curr[c]) /\ c \notin s.resched
                                                 -> check_preempt_equal_prio(s, c, p)
      [] OTHER                                   -> s

select_task_rq_rt(s, p) ==
    LET curr == s.curr[s.cpu[p]]
    IN  IF /\ Many(s, p) /\ rt_task(s, curr) /\ find_lowest_rq(s, p) # {}
           /\ ~Many(s, curr) \/ s.prio[curr] <= s.prio[p]
        THEN find_lowest_rq(s, p) ELSE {s.cpu[p]}

\* The machine and the CPU it gives: one that p may use, or any, with a mask of
\* all CPUs, where p may use none that is online.
select_fallback_rq(s, p) ==
    LET may == s.allowed[p] \cap s.online
    IN  IF may # {} THEN {s} \X may ELSE {[s EXCEPT !.allowed[p] = CPU]} \X s.online

\* The choice of the class (any CPU, of the fair one), where p may use it.
select_task_rq(s, p) ==
    UNION {IF c \in s.allowed[p] \cap s.online THEN {<<s, c>>} ELSE select_fallback_rq(s, p) :
              c \in IF rt_task(s, p) THEN select_task_rq_rt(s, p) ELSE CPU}

-----------------------------------------------------------------------------
(* What a CPU goes on with when it holds rq's lock in state s: a set of     *)
(* <<s, pc>>.  A push is for p where switched_to_rt of p asked for it, and  *)
(* for Idle where push_rt_tasks calls push_rt_task until it fails.          *)

\* The end of switched_to_rt.
check_resched(s, rq, p) ==
    IF s.prio[p] < PrioOf(s, s.curr[rq]) THEN resched_task(s, rq) ELSE s

NotPushed(s, rq, for) == {<<IF for = Idle THEN s ELSE check_resched(s, rq, for), Run>>}

\* double_lock_balance, for the n-th time for p.
Pushing(rq, p, c, for, n) == [in |-> "push", rq |-> rq, task |-> p, to |-> c, for |-> for, tries |-> n]

\* push_rt_task with a candidate, up to the lock of the other run queue: with
\* nowhere to go it is still first, and not tried again.
TryPush(s, rq, p, for) ==
    IF PrioOf(s, p) < PrioOf(s, s.curr[rq])
    THEN NotPushed(resched_task(s, rq), rq, for)
    ELSE LET to == find_lowest_rq(s, p) \ {rq}
         IN  IF to = {} THEN NotPushed(s, rq, for)
             ELSE {<<s, Pushing(rq, p, c, for, 1)>> : c \in to}

push_rt_task(s, rq, for) ==
    IF rq \notin s.overloaded \/ s.pushable[rq] = {} THEN NotPushed(s, rq, for)
    ELSE UNION {TryPush(s, rq, p, for) : p \in pick_next_pushable_task(s, rq)}

\* The thread has gone, or may not be pushed any more.
Gone(s, w) ==
    s.cpu[w.task] # w.rq \/ w.to \notin s.allowed[w.task] \/ s.curr[w.rq] = w.task \/ w.task \notin s.on_rq

\* The candidate goes to w.to.
Pushed(s, w) ==
    LET t == resched_task(activate_task(deactivate_task(s, w.task), w.to, w.task), w.to)
    IN  IF w.for = Idle THEN push_rt_task(t, w.rq, Idle)
        ELSE {<<IF t.cpu[w.for] = w.rq THEN check_resched(t, w.rq, w.for) ELSE t, Run>>}

\* Defect: the thread is moved without another look at it.
trust_the_choice(s, w) == Pushed(s, w)

\* Both locks are held: the rest of find_lock_lowest_rq and push_rt_task.
PushLocked(s, w) ==
    LET fits == highest_curr(s, w.to) > s.prio[w.task]
        to   == IF w.tries < RT_MAX_TRIES THEN find_lowest_rq(s, w.task) \ {w.rq} ELSE {}
    IN  CASE ~Gone(s, w) /\ fits -> Pushed(s, w)
          [] ~Gone(s, w) /\ ~fits /\ to # {} ->
                {<<s, Pushing(w.rq, w.task, c, w.for, w.tries + 1)>> : c \in to}
          [] OTHER ->
                IF s.pushable[w.rq] = {} THEN NotPushed(s, w.rq, w.for)
                ELSE UNION {IF p = w.task THEN NotPushed(s, w.rq, w.for) ELSE TryPush(s, w.rq, p, w.for) :
                               p \in pick_next_pushable_task(s, w.rq)}

\* The best thread of src that may run on c, never its running one.
pick_next_highest_task_rt(s, src, c) ==
    Best(s, {p \in Active(s, src) : s.curr[src] # p /\ c \in s.allowed[p] /\ Many(s, p)})

\* One round of pull_rt_task, with both locks.
Pull(s, rq, src) ==
    LET P == {p \in pick_next_highest_task_rt(s, src, rq) :
                 /\ s.prio[p] < highest_curr(s, rq)
                 /\ PrioOf(s, p) >= PrioOf(s, s.curr[src])}
    IN  IF Cardinality(Active(s, src)) <= 1 \/ P = {} THEN {s}
        ELSE {activate_task(deactivate_task(s, p), rq, p) : p \in P}

put_prev_task(s, c) ==
    LET prev == s.curr[c]
    IN  IF rt_task(s, prev) /\ prev \in s.on_rq /\ Many(s, prev) THEN enqueue_pushable_task(s, c, prev) ELSE s

\* Whom pick_next_task may choose: a thread of the fair class where there is
\* no better one.
Eligible(s, c) ==
    IF Active(s, c) # {} THEN Best(s, Active(s, c)) ELSE {p \in s.on_rq : s.cpu[p] = c /\ ~rt_task(s, p)}

Switch(s, c, p) == [s EXCEPT !.curr[c] = p, !.resched = @ \ {c}]

\* put_prev_task, pick_next_task and the switch.
Pick(s, c) ==
    LET put == put_prev_task(s, c)
    IN  IF Active(s, c) # {}
        THEN {LET t == dequeue_pushable_task(Switch(put, c, p), c, p)
              IN  <<t, IF t.pushable[c] = {} THEN Run ELSE [in |-> "post"]>> : p \in Eligible(s, c)}
        ELSE {<<Switch(put, c, p), Run>> : p \in IF Eligible(s, c) = {} THEN {Idle} ELSE Eligible(s, c)}

\* The end of prio_changed_rt.
PrioChanged(s, c, p) ==
    {<<IF s.curr[c] = p /\ s.prio[p] > highest_curr(s, c) THEN resched_task(s, c) ELSE s, Run>>}

\* switched_to_fair, of the fair class.
SwitchedToFair(s, c, p) ==
    {<<CASE p \notin s.on_rq     -> s
         [] s.curr[c] = p        -> resched_task(s, c)
         [] OTHER                -> check_preempt_curr(s, c, p), Run>>}

\* pull_rt_task: on to the next CPU worth locking, then to what called it.
Pulling(s, w, from) ==
    LET left == {d \in s.rto : d >= from /\ d # w.rq /\ highest_next(s, d) < highest_curr(s, w.rq)}
    IN  CASE left # {}          -> {<<s, [in |-> "pull", rq |-> w.rq, src |-> Min(left), then |-> w.then, task |-> w.task]>>}
          [] left = {} /\ w.then = "pick" -> Pick(s, w.rq)
          [] left = {} /\ w.then = "prio" -> PrioChanged(s, w.rq, w.task)
          [] OTHER              -> SwitchedToFair(s, w.rq, w.task)

pull_rt_task(s, rq, then, p) == Pulling(s, [rq |-> rq, then |-> then, task |-> p], 0)

\* The hook for p, whose priority was another one.
check_class_changed(s, c, p, oldprio) ==
    LET was_rt == oldprio < MAX_RT_PRIO
        run    == s.curr[c] = p
    IN  CASE p \notin s.on_rq -> {<<s, Run>>}
          [] p \in s.on_rq /\ was_rt /\ rt_task(s, p) /\ run ->          \* prio_changed_rt
                IF oldprio < s.prio[p] THEN pull_rt_task(s, c, "prio", p) ELSE PrioChanged(s, c, p)
          [] p \in s.on_rq /\ was_rt /\ rt_task(s, p) /\ ~run ->
                {<<IF s.prio[p] < PrioOf(s, s.curr[c]) THEN resched_task(s, c) ELSE s, Run>>}
          [] p \in s.on_rq /\ was_rt /\ ~rt_task(s, p) ->                \* switched_from_rt
                IF Active(s, c) = {} THEN pull_rt_task(s, c, "fair", p) ELSE SwitchedToFair(s, c, p)
          [] p \in s.on_rq /\ ~was_rt /\ ~run -> push_rt_task(s, c, p)                   \* switched_to_rt
          [] OTHER -> {<<s, Run>>}

-----------------------------------------------------------------------------
(* Steps. *)

Do(e, R) == \E r \in R : m' = r[1] /\ pc' = [pc EXCEPT ![e] = r[2]]

\* A CPU that goes on after double_lock_balance.
Continue(e) ==
    \/ pc[e].in = "push" /\ Do(e, PushLocked(m, pc[e]))
    \/ pc[e].in = "pull" /\ Do(e, UNION {Pulling(s, pc[e], pc[e].src + 1) : s \in Pull(m, pc[e].rq, pc[e].src)})

\* Defect: schedule does not pull, whatever it leaves.
schedule_without_pull(c, sleeps) ==
    /\ pc[c] = Run /\ c \in m.online
    /\ IF sleeps THEN m.curr[c] # Idle ELSE c \in m.resched
    /\ Do(c, Pick(IF sleeps THEN deactivate_task(m, m.curr[c]) ELSE m, c))

\* __schedule, by a thread that sleeps or one that is preempted.
Schedule(c, sleeps) ==
    /\ pc[c] = Run /\ c \in m.online
    /\ IF sleeps THEN m.curr[c] # Idle ELSE c \in m.resched
    /\ LET prev == m.curr[c]
           s    == IF sleeps THEN deactivate_task(m, prev) ELSE m
       IN  Do(c, IF rt_task(s, prev) /\ highest_curr(s, c) > s.prio[prev]
                 THEN pull_rt_task(s, c, "pick", prev) ELSE Pick(s, c))

\* post_schedule, after the switch: the class of curr may have changed.
PostSchedule(c) ==
    /\ pc[c].in = "post"
    /\ Do(c, IF rt_task(m, m.curr[c]) THEN push_rt_task(m, c, Idle) ELSE {<<m, Run>>})

\* The tick of SCHED_RR and sched_yield among equals.
Rotate(c) ==
    /\ c \in m.online /\ rt_task(m, m.curr[c]) /\ c \notin m.resched
    /\ \E p \in Active(m, c) \ {m.curr[c]} : m.prio[p] = m.prio[m.curr[c]]
    /\ m' = resched_task(m, c) /\ UNCHANGED pc

\* p->pi_lock is held: by a wake-up on its way to the lock of a run queue, or by
\* a change of p's priority that lets go of its own.
Locked(p) ==
    \E e \in CPU :
       \/ pc[e].in = "wake" /\ pc[e].task = p
       \/ pc[e].in = "pull" /\ pc[e].then # "pick" /\ pc[e].task = p
       \/ pc[e].in = "push" /\ pc[e].for = p

Wake(e, p) ==
    /\ pc[e] = Run /\ e \in m.online
    /\ p \notin m.on_rq /\ ~Locked(p) /\ \A c \in CPU : m.curr[c] # p
    /\ \E r \in select_task_rq(m, p) :
          /\ m' = r[1]
          /\ pc' = [pc EXCEPT ![e] = [in |-> "wake", task |-> p, cpu |-> r[2]]]

\* ttwu_do_activate under the lock of the CPU that was chosen.
WakeLocked(e) ==
    /\ pc[e].in = "wake"
    /\ LET p == pc[e].task
           c == pc[e].cpu
           s == check_preempt_curr(activate_task(m, c, p), c, p)
           curr == s.curr[c]
       IN  Do(e, IF /\ rt_task(s, p) /\ s.curr[c] # p /\ c \notin s.resched /\ s.pushable[c] # {}
                    /\ Many(s, p) /\ rt_task(s, curr)
                    /\ ~Many(s, curr) \/ PrioOf(s, curr) <= s.prio[p]
                 THEN push_rt_task(s, c, Idle) ELSE {<<s, Run>>})

\* __sched_setscheduler and rt_mutex_setprio with the hooks of the rt class.
SetPrio(e, p, prio) ==
    /\ Change
    /\ pc[e] = Run /\ e \in m.online /\ ~Locked(p) /\ prio # m.prio[p]
    /\ LET on == p \in m.on_rq
           s0 == IF on THEN deactivate_task(m, p) ELSE m
           s1 == [s0 EXCEPT !.prio[p] = prio]
           s  == IF on THEN activate_task(s1, m.cpu[p], p) ELSE s1
       IN  Do(e, check_class_changed(s, m.cpu[p], p, m.prio[p]))

\* do_set_cpus_allowed: of a thread that sleeps, or a mask p may stay under where
\* it is; to move one that may not is the stopper's (WakeupSMP).
set_cpus_allowed_rt(p, mask) ==
    /\ Change
    /\ ~Locked(p) /\ mask # m.allowed[p] /\ mask \cap m.online # {}
    /\ p \in m.on_rq => m.cpu[p] \in mask
    /\ LET c   == m.cpu[p]
           new == Cardinality(mask) > 1
           s   == [m EXCEPT !.allowed[p] = mask]
           t   == [s EXCEPT !.pushable[c] = IF m.curr[c] = p THEN @ ELSE IF new THEN @ \cup {p} ELSE @ \ {p},
                            !.migratory[c] = @ + (IF new THEN 1 ELSE 0) - (IF Many(m, p) THEN 1 ELSE 0)]
       IN  m' = IF rt_task(m, p) /\ p \in m.on_rq /\ Cardinality(mask) # Cardinality(m.allowed[p])
                THEN update_rt_migration(t, c) ELSE s
    /\ UNCHANGED pc

\* CPU_DYING, with every CPU in its stopper: rq_offline_rt.
CpuDying(c) ==
    /\ Change
    /\ c \in m.online \cap Hotplug /\ Cardinality(m.online) > 1 /\ \A e \in CPU : pc[e] = Run
    /\ m' = [put_prev_task(m, c) EXCEPT !.online = @ \ {c}, !.rto = @ \ {c}, !.cpupri[c] = 0,
                                        !.curr[c] = Idle, !.resched = @ \ {c}]
    /\ pc' = [pc EXCEPT ![c] = [in |-> "dying"]]

Stopped == \E c \in CPU : pc[c].in = "dying"

\* A turn of migrate_tasks, with __migrate_task.
migrate_tasks(c) ==
    /\ pc[c].in = "dying"
    /\ \/ /\ Eligible(m, c) = {}
          /\ pc' = [pc EXCEPT ![c] = Run] /\ UNCHANGED m
       \/ /\ \E p \in Eligible(m, c) : \E r \in select_fallback_rq(m, p) :
                LET t == [deactivate_task(m, p) EXCEPT !.allowed[p] = r[1].allowed[p]]
                IN  m' = check_preempt_curr(activate_task(t, r[2], p), r[2], p)
          /\ UNCHANGED pc

\* rq_online_rt.
CpuUp(c) ==
    /\ Same
    /\ c \in CPU \ m.online
    /\ m' = cpupri_set([m EXCEPT !.online = @ \cup {c}, !.rto = IF c \in m.overloaded THEN @ \cup {c} ELSE @], c)
    /\ UNCHANGED pc

-----------------------------------------------------------------------------
Init ==
    /\ \E f \in [Thread -> 1 .. MAX_RT_PRIO], a \in [Thread -> Masks], c \in [Thread -> CPU] :
          /\ \A p \in Thread : c[p] \in a[p]
          /\ m = [prio |-> f, allowed |-> a, cpu |-> c, on_rq |-> {},
                  curr |-> [d \in CPU |-> Idle], resched |-> {}, online |-> CPU,
                  pushable |-> [d \in CPU |-> {}], migratory |-> [d \in CPU |-> 0],
                  overloaded |-> {}, rto |-> {}, cpupri |-> [d \in CPU |-> MAX_RT_PRIO]]
    /\ pc = [e \in CPU |-> Run]
    /\ changes = 0

Next ==
    \/ /\ ~Stopped
       /\ \/ \E c \in CPU : /\ Schedule(c, TRUE) \/ Schedule(c, FALSE) \/ PostSchedule(c)
                                  \/ Continue(c) \/ WakeLocked(c) \/ Rotate(c)
                            /\ Same
          \/ \E e \in CPU, p \in Thread : Wake(e, p) /\ Same
          \/ \E e \in CPU, p \in Thread, prio \in 1 .. MAX_RT_PRIO : SetPrio(e, p, prio)
          \/ \E p \in Thread, mask \in Masks : set_cpus_allowed_rt(p, mask)
          \/ \E c \in CPU : CpuDying(c) \/ CpuUp(c)
    \/ \E c \in CPU : migrate_tasks(c) /\ Same

Spec == Init /\ [][Next]_vars

-----------------------------------------------------------------------------
\* What pick_next_pushable_task and push_rt_task would stop the machine or warn
\* for, whatever happened while the lock was dropped: a listed thread waits on
\* this CPU, may go elsewhere and is real-time; and every such thread is listed.
NoPushBug ==
    \A c \in CPU : m.pushable[c] = {p \in Active(m, c) : m.curr[c] # p /\ Many(m, p)}

\* What other CPUs see of a run queue is true.
RootDomainTrue ==
    \A c \in CPU :
       /\ m.migratory[c] = Cardinality({p \in Active(m, c) : Many(m, p)})
       /\ c \in m.rto <=> c \in m.online /\ m.migratory[c] > 0 /\ Cardinality(Active(m, c)) > 1
       /\ m.cpupri[c] = IF c \in m.online THEN highest_curr(m, c) ELSE 0

\* When nothing is under way a CPU runs the best thread it has.  The code does
\* not keep it: switched_from_rt pulls a thread and does not reschedule.
Quiet == m.resched = {} /\ \A e \in CPU : pc[e] = Run
BestRuns == Quiet => \A c \in m.online : PrioOf(m, m.curr[c]) <= highest_curr(m, c)

\* When nothing is under way no real-time thread waits while a CPU it may use
\* runs a worse one (push_rt_task, pull_rt_task and find_lowest_rq, from
\* schedule, wake-up and tick).  So it is on two CPUs; on three a push after a
\* dropped lock may empty a CPU that does not pull.
Balanced ==
    Quiet /\ changes = 0 => \A p \in m.on_rq : rt_task(m, p) /\ (\A c \in CPU : m.curr[c] # p)
                => \A c \in m.allowed[p] \cap m.online : PrioOf(m, m.curr[c]) <= m.prio[p]
=============================================================================
