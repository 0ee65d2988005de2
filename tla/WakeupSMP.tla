------------------------------ MODULE WakeupSMP ------------------------------
(***************************************************************************)
(* Waking, switching and migrating threads on several CPUs: try_to_wake_up *)
(* and the wake_list of kernel/core.c, the context switch as other CPUs    *)
(* see it, changes of affinity, the stopper thread and CPU hotplug.        *)
(*                                                                         *)
(* A step is a section of code that takes at most one lock, or what runs   *)
(* between two points where another CPU can see or change what the code    *)
(* reads.  Who holds which lock follows from where the CPUs are.           *)
(***************************************************************************)
EXTENDS Integers, FiniteSets

CONSTANTS
    CPU,        \* the CPUs, numbered in the order of their run queues' addresses
    Task,
    Idle, Stop, \* the idle thread and the stopper thread of a CPU
    Nobody,
    Masks,      \* the affinity masks sched_setaffinity is called with
    Execs,      \* the threads that call exec
    Wakers,     \* the CPUs on which wake-ups are made
    Hotplug,    \* the CPUs that may be unplugged
    Switches    \* the kernels built: "irqs_off", "irqs_on" while switching

ASSUME CpuAssumption    == CPU \subseteq Nat /\ IsFiniteSet(CPU) /\ CPU # {}
ASSUME NameAssumption   == {Idle, Stop, Nobody} \cap Task = {} /\ Idle # Stop /\ Idle # Nobody /\ Stop # Nobody
ASSUME MaskAssumption   == Masks \subseteq SUBSET CPU /\ Wakers \subseteq CPU /\ Execs \subseteq Task
ASSUME SwitchAssumption == Hotplug \subseteq CPU /\ Switches \subseteq {"irqs_off", "irqs_on"}

VARIABLES
    task,       \* state, on_rq, on_cpu, cpu and cpus_allowed of every thread
    loop,       \* where a thread is in its sleeping loop
    event,      \* the threads whose condition is true
    curr,       \* rq->curr of every CPU
    prev,       \* the thread a CPU is switching away from, or Nobody
    need,       \* the CPUs whose current thread has TIF_NEED_RESCHED
    at,         \* what a CPU does besides running curr
    wake_list,  \* rq->wake_list of every CPU
    ipi,        \* the CPUs with a reschedule interrupt on its way
    work,       \* the <<thread, dest_cpu>> the stopper of a CPU is to migrate
    online, active,
    dying,      \* the CPU stop_machine is to take down, or Nobody
    build       \* the kernel that runs, one of Switches

vars == <<task, loop, event, curr, prev, need, at, wake_list, ipi, work, online, active, dying, build>>
cpus == <<curr, prev, need>>
plug == <<online, active, dying, build>>

-----------------------------------------------------------------------------
(* Locks and interrupts. *)

Run      == [in |-> "run"]
On(w, p) == [in |-> w, p |-> p]

\* p->pi_lock: held through try_to_wake_up and __migrate_task.
PiFree(p) == \A c \in CPU : at[c].in \in {"remote", "spin", "queue", "migrate", "migrate2"} => at[c].p # p

\* rq->lock of d: held over the switch, unless the kernel enables interrupts
\* in it, and by a stopper that waits for the second of its two locks.
RqFree(d) ==
    /\ prev[d] # Nobody => build = "irqs_on"
    /\ \A c \in CPU : at[c].in = "migrate2" => at[c].first # d

\* CPU c can take an interrupt.
Interruptible(c) ==
    /\ c \in online /\ at[c] = Run
    /\ prev[c] # Nobody => build = "irqs_on"
    /\ curr[c] = Stop => dying = Nobody

\* CPU c runs the code of its current thread.
Current(c) == c \in online /\ at[c] = Run /\ prev[c] = Nobody

-----------------------------------------------------------------------------
(* Activation and placement. *)

\* The thread p on the queue of d.
set_task_cpu(p, d) == [p EXCEPT !.cpu = d]

\* check_preempt_curr: an idle CPU always reschedules, the stopper never does;
\* whether a thread is preempted is its class's choice.
check_preempt_curr(d, n) ==
    IF curr[d] = Idle THEN {n \cup {d}} ELSE IF curr[d] = Stop THEN {n} ELSE {n, n \cup {d}}

\* ttwu_do_activate of the threads ps on the queue of d.
ttwu_do_activate(ps, d) ==
    /\ task' = [p \in Task |-> IF p \in ps THEN [task[p] EXCEPT !.on_rq = TRUE, !.state = "running"] ELSE task[p]]
    /\ need' \in IF ps = {} THEN {need} ELSE check_preempt_curr(d, need)

-----------------------------------------------------------------------------
(* try_to_wake_up. *)

\* An interrupt or the current thread makes p's condition true, to wake it then.
Post(c, p) ==
    /\ c \in Wakers /\ Interruptible(c)
    /\ event' = event \cup {p}
    /\ at' = [at EXCEPT ![c] = On("wake", p)]
    /\ UNCHANGED <<task, loop, cpus, wake_list, ipi, work, plug>>

\* p->on_rq is read without rq->lock here, and once more under it in ttwu_remote.
TtwuLock(c) ==
    LET p == at[c].p
    IN  /\ at[c].in = "wake" /\ PiFree(p)
        /\ at' = [at EXCEPT ![c] = IF task[p].state # "sleep" THEN Run
                                   ELSE On(IF task[p].on_rq THEN "remote" ELSE "spin", p)]
        /\ UNCHANGED <<task, loop, event, cpus, wake_list, ipi, work, plug>>

\* Defect: a wake-up that finds the thread off its queue gives up.
remote_only(c) ==
    /\ at[c].in = "remote" /\ RqFree(task[at[c].p].cpu)
    /\ IF task[at[c].p].on_rq THEN ttwu_do_activate({at[c].p}, task[at[c].p].cpu) ELSE UNCHANGED <<task, need>>
    /\ at' = [at EXCEPT ![c] = Run]
    /\ UNCHANGED <<loop, event, curr, prev, wake_list, ipi, work, plug>>

ttwu_remote(c) ==
    LET p == at[c].p
        d == task[p].cpu
    IN  /\ at[c].in = "remote" /\ RqFree(d)
        /\ \/ task[p].on_rq /\ ttwu_do_activate({p}, d) /\ at' = [at EXCEPT ![c] = Run]
           \/ ~task[p].on_rq /\ at' = [at EXCEPT ![c].in = "spin"] /\ UNCHANGED <<task, need>>
        /\ UNCHANGED <<loop, event, curr, prev, wake_list, ipi, work, plug>>

\* Defect: the wake-up waits for the end of the switch in every kernel.
spin_always(c) == FALSE /\ at[c].in = "spin" /\ UNCHANGED vars

\* A kernel with interrupts on in the switch must not wait for it to end: the
\* interrupt may have hit the very CPU that switches.
ttwu_activate_remote(c) ==
    LET p == at[c].p
        d == task[p].cpu
    IN  /\ at[c].in = "spin" /\ build = "irqs_on" /\ RqFree(d)
        /\ task[p].on_cpu
        /\ ttwu_do_activate({p}, d)
        /\ at' = [at EXCEPT ![c] = Run]
        /\ UNCHANGED <<loop, event, curr, prev, wake_list, ipi, work, plug>>

\* The CPUs p may go to, each with the mask it then has: an active CPU of its
\* mask, or any active one, and then p loses its mask.
select_fallback_rq(p) ==
    IF task[p].allowed \cap active # {}
    THEN {[cpu |-> d, allowed |-> task[p].allowed] : d \in task[p].allowed \cap active}
    ELSE {[cpu |-> d, allowed |-> CPU] : d \in active}

\* The class's choice, if p may use it and it is online.
select_task_rq(p) ==
    {[cpu |-> d, allowed |-> task[p].allowed] : d \in task[p].allowed \cap online} \cup select_fallback_rq(p)

\* p has left its CPU and sleeps: it is given a CPU.
TtwuPlace(c) ==
    LET p == at[c].p
    IN  /\ at[c].in = "spin" /\ ~task[p].on_cpu
        /\ \E to \in select_task_rq(p) :
               task' = [task EXCEPT ![p] = set_task_cpu([@ EXCEPT !.state = "waking", !.allowed = to.allowed], to.cpu)]
        /\ at' = [at EXCEPT ![c].in = "queue"]
        /\ UNCHANGED <<loop, event, cpus, wake_list, ipi, work, plug>>

\* ttwu_queue, for a CPU that shares a cache or while TTWU_QUEUE is off.
TtwuQueueLocal(c) ==
    LET p == at[c].p
    IN  /\ at[c].in = "queue" /\ RqFree(task[p].cpu)
        /\ ttwu_do_activate({p}, task[p].cpu)
        /\ at' = [at EXCEPT ![c] = Run]
        /\ UNCHANGED <<loop, event, curr, prev, wake_list, ipi, work, plug>>

\* ttwu_queue, for another CPU: the first on its list sends the interrupt.
ttwu_queue_remote(c) ==
    LET p == at[c].p
        d == task[p].cpu
    IN  /\ at[c].in = "queue" /\ d # c
        /\ wake_list' = [wake_list EXCEPT ![d] = @ \cup {p}]
        /\ ipi' = IF wake_list[d] = {} THEN ipi \cup {d} ELSE ipi
        /\ at' = [at EXCEPT ![c] = Run]
        /\ UNCHANGED <<task, loop, event, cpus, work, plug>>

\* Defect: an interrupt that finds a reschedule requested leaves the list alone.
ipi_for_resched(c) ==
    /\ c \in ipi /\ Interruptible(c)
    /\ ipi' = ipi \ {c}
    /\ IF c \in need THEN UNCHANGED <<wake_list, at>>
       ELSE /\ wake_list' = [wake_list EXCEPT ![c] = {}]
            /\ at' = [at EXCEPT ![c] = IF wake_list[c] = {} THEN Run ELSE [in |-> "pending", todo |-> wake_list[c]]]
    /\ UNCHANGED <<task, loop, event, cpus, work, plug>>

scheduler_ipi(c) ==
    /\ c \in ipi /\ Interruptible(c)
    /\ ipi' = ipi \ {c}
    /\ wake_list' = [wake_list EXCEPT ![c] = {}]
    /\ at' = [at EXCEPT ![c] = IF wake_list[c] = {} THEN Run ELSE [in |-> "pending", todo |-> wake_list[c]]]
    /\ UNCHANGED <<task, loop, event, cpus, work, plug>>

sched_ttwu_pending(c) ==
    /\ at[c].in = "pending" /\ RqFree(c)
    /\ ttwu_do_activate(at[c].todo, c)
    /\ at' = [at EXCEPT ![c] = Run]
    /\ UNCHANGED <<loop, event, curr, prev, wake_list, ipi, work, plug>>

-----------------------------------------------------------------------------
(* The sleeping loop of a thread: set_current_state, test, schedule. *)

SetSleeping(c) ==
    LET t == curr[c]
    IN  /\ Current(c) /\ t \in Task /\ loop[t] = "awake"
        /\ task' = [task EXCEPT ![t].state = "sleep"]
        /\ loop' = [loop EXCEPT ![t] = "test"]
        /\ UNCHANGED <<event, cpus, at, wake_list, ipi, work, plug>>

TestCondition(c) ==
    LET t == curr[c]
    IN  /\ Current(c) /\ t \in Task /\ loop[t] = "test"
        /\ \/ /\ t \in event
              /\ event' = event \ {t}
              /\ task' = [task EXCEPT ![t].state = "running"]
              /\ loop' = [loop EXCEPT ![t] = "awake"]
           \/ /\ t \notin event
              /\ loop' = [loop EXCEPT ![t] = "schedule"]
              /\ UNCHANGED <<event, task>>
        /\ UNCHANGED <<cpus, at, wake_list, ipi, work, plug>>

-----------------------------------------------------------------------------
(* __schedule, up to the switch and after it. *)

\* The stopper first, then any thread of the queue, then the idle thread.
pick_next_task(c, tasks) ==
    LET queued == {t \in Task : tasks[t].on_rq /\ tasks[t].cpu = c}
    IN  IF work[c] # {} \/ dying # Nobody THEN {Stop} ELSE IF queued # {} THEN queued ELSE {Idle}

\* With rq->lock held throughout; the tasks are as the caller leaves them.
__schedule(c, tasks) ==
    /\ RqFree(c)
    /\ need' = need \ {c}
    /\ \E next \in pick_next_task(c, tasks) :
          \/ next = curr[c] /\ task' = tasks /\ UNCHANGED <<curr, prev>>
          \/ /\ next # curr[c]
             /\ curr' = [curr EXCEPT ![c] = next]
             /\ prev' = [prev EXCEPT ![c] = curr[c]]
             /\ task' = [t \in Task |-> IF t = next THEN [tasks[t] EXCEPT !.on_cpu = TRUE] ELSE tasks[t]]
    /\ UNCHANGED <<event, at, wake_list, ipi, work, plug>>

\* schedule(): a thread that is to sleep is dequeued, unless a signal is pending.
Schedule(c) ==
    LET t == curr[c]
    IN  /\ Current(c) /\ t \in Task /\ loop[t] = "schedule"
        /\ loop' = [loop EXCEPT ![t] = "awake"]
        /\ \/ task[t].state = "sleep" /\ __schedule(c, [task EXCEPT ![t].on_rq = FALSE])
           \/ __schedule(c, [task EXCEPT ![t].state = "running"])

\* A thread is preempted, the idle thread or the stopper gives way.
PreemptSchedule(c) ==
    /\ Current(c)
    /\ \/ c \in need
       \/ curr[c] = Stop /\ work[c] = {} /\ dying = Nobody
    /\ __schedule(c, task)
    /\ UNCHANGED loop

\* finish_lock_switch, on the stack of the next thread.
FinishSwitch(c) ==
    LET t == prev[c]
    IN  /\ at[c] = Run /\ t # Nobody
        /\ task' = IF t \in Task THEN [task EXCEPT ![t].on_cpu = FALSE] ELSE task
        /\ prev' = [prev EXCEPT ![c] = Nobody]
        /\ UNCHANGED <<loop, event, curr, need, at, wake_list, ipi, work, plug>>

-----------------------------------------------------------------------------
(* Affinity and the stopper. *)

\* set_cpus_allowed_ptr; stop_one_cpu leaves the migration to the stopper.
set_cpus_allowed_ptr(p, mask) ==
    LET src == task[p].cpu
    IN  /\ PiFree(p) /\ RqFree(src)
        /\ mask # task[p].allowed /\ mask \cap active # {}
        /\ task' = [task EXCEPT ![p].allowed = mask]
        /\ IF src \in mask \/ ~task[p].on_rq
           THEN UNCHANGED <<work, need>>
           ELSE /\ \E dest \in mask \cap active : work' = [work EXCEPT ![src] = @ \cup {<<p, dest>>}]
                /\ need' = need \cup {src}
        /\ UNCHANGED <<loop, event, curr, prev, at, wake_list, ipi, plug>>

\* sched_exec: a thread that calls exec moves to a CPU its class prefers.
sched_exec(c) ==
    LET t == curr[c]
    IN  /\ Current(c) /\ t \in Execs /\ loop[t] = "awake" /\ PiFree(t)
        /\ \E dest \in (task[t].allowed \cap active) \ {c} : work' = [work EXCEPT ![c] = @ \cup {<<t, dest>>}]
        /\ need' = need \cup {c}
        /\ UNCHANGED <<task, loop, event, curr, prev, at, wake_list, ipi, plug>>

\* Defect: the queue of the running CPU is locked first.
own_first(a, b) == a

\* double_rq_lock: the order in which the queues of a and b are locked.
lock_first(a, b) == IF a < b THEN a ELSE b

\* migration_cpu_stop: nothing is done for a destination that went down.
MigrationStop(c) ==
    /\ Current(c) /\ curr[c] = Stop
    /\ \E w \in work[c] :
          /\ work' = [work EXCEPT ![c] = @ \ {w}]
          /\ \/ w[2] \notin active /\ UNCHANGED at
             \/ /\ w[2] \in active /\ PiFree(w[1])
                /\ at' = [at EXCEPT ![c] = [in |-> "migrate", p |-> w[1], dest |-> w[2], first |-> lock_first(c, w[2])]]
    /\ UNCHANGED <<task, loop, event, cpus, wake_list, ipi, plug>>

MigrateLock(c) ==
    /\ at[c].in = "migrate" /\ RqFree(at[c].first)
    /\ at' = [at EXCEPT ![c].in = "migrate2"]
    /\ UNCHANGED <<task, loop, event, cpus, wake_list, ipi, work, plug>>

\* Defect: the mask is not looked at again.
migrate_unchecked(c) ==
    LET p == at[c].p
    IN  /\ at[c].in = "migrate2" /\ RqFree(c + at[c].dest - at[c].first)
        /\ task' = IF task[p].cpu = c /\ task[p].on_rq THEN [task EXCEPT ![p].cpu = at[c].dest] ELSE task
        /\ at' = [at EXCEPT ![c] = Run]
        /\ UNCHANGED <<loop, event, cpus, wake_list, ipi, work, plug>>

__migrate_task(c) ==
    LET p    == at[c].p
        dest == at[c].dest
    IN  /\ at[c].in = "migrate2" /\ RqFree(c + dest - at[c].first)
        /\ IF task[p].cpu = c /\ dest \in task[p].allowed /\ task[p].on_rq
           THEN /\ task' = [task EXCEPT ![p] = set_task_cpu(@, dest)]
                /\ need' \in check_preempt_curr(dest, need)
           ELSE UNCHANGED <<task, need>>
        /\ at' = [at EXCEPT ![c] = Run]
        /\ UNCHANGED <<loop, event, curr, prev, wake_list, ipi, work, plug>>

-----------------------------------------------------------------------------
(* CPU hotplug, one CPU at a time. *)

CpuDownPrepare(d) ==
    /\ d \in Hotplug \cap active /\ online = active /\ active # {d}
    /\ active' = active \ {d}
    /\ UNCHANGED <<task, loop, event, cpus, at, wake_list, ipi, work, online, dying, build>>

CpuDownFailed(d) ==
    /\ d \in online \ active /\ dying = Nobody
    /\ active' = active \cup {d}
    /\ UNCHANGED <<task, loop, event, cpus, at, wake_list, ipi, work, online, dying, build>>

StopMachine(d) ==
    /\ d \in online \ active /\ dying = Nobody
    /\ dying' = d
    /\ need' = need \cup online
    /\ UNCHANGED <<task, loop, event, curr, prev, at, wake_list, ipi, work, online, active, build>>

\* Every thread of the queue is given another CPU.
migrate_tasks(tasks, moved) ==
    \E to \in [moved -> UNION {select_fallback_rq(t) : t \in moved}] :
       /\ \A t \in moved : to[t] \in select_fallback_rq(t)
       /\ task' = [t \in Task |-> IF t \in moved THEN set_task_cpu([tasks[t] EXCEPT !.allowed = to[t].allowed], to[t].cpu)
                                 ELSE tasks[t]]

\* CPU_DYING, with every CPU in its stopper: the wake-ups on the list are done
\* first.
CpuDying ==
    LET d     == dying
        woken == [t \in Task |-> IF t \in wake_list[d] THEN [task[t] EXCEPT !.on_rq = TRUE, !.state = "running"] ELSE task[t]]
    IN  /\ d # Nobody /\ \A c \in online : Current(c) /\ curr[c] = Stop
        /\ migrate_tasks(woken, {t \in Task : woken[t].on_rq /\ woken[t].cpu = d})
        /\ curr' = [curr EXCEPT ![d] = Idle]
        /\ need' = need \ {d}
        /\ wake_list' = [wake_list EXCEPT ![d] = {}]
        /\ ipi' = ipi \ {d}
        /\ work' = [work EXCEPT ![d] = {}]
        /\ online' = online \ {d}
        /\ dying' = Nobody
        /\ UNCHANGED <<loop, event, prev, at, active, build>>

CpuUp(d) ==
    /\ d \notin online /\ online = active
    /\ online' = online \cup {d}
    /\ active' = active \cup {d}
    /\ UNCHANGED <<task, loop, event, cpus, at, wake_list, ipi, work, dying, build>>

-----------------------------------------------------------------------------
Init ==
    /\ task \in [Task -> {[state |-> "running", on_rq |-> TRUE, on_cpu |-> FALSE, cpu |-> c, allowed |-> CPU] : c \in CPU}]
    /\ loop = [t \in Task |-> "awake"]
    /\ event = {}
    /\ curr = [c \in CPU |-> Idle]
    /\ prev = [c \in CPU |-> Nobody]
    /\ need = {task[t].cpu : t \in Task}
    /\ at = [c \in CPU |-> Run]
    /\ wake_list = [c \in CPU |-> {}]
    /\ ipi = {}
    /\ work = [c \in CPU |-> {}]
    /\ online = CPU /\ active = CPU
    /\ dying = Nobody
    /\ build \in Switches

\* What a CPU does with interrupts off ends in these steps.
Busy(c) ==
    \/ TtwuLock(c) \/ ttwu_remote(c) \/ ttwu_activate_remote(c) \/ TtwuPlace(c)
    \/ TtwuQueueLocal(c) \/ ttwu_queue_remote(c) \/ sched_ttwu_pending(c)
    \/ MigrateLock(c) \/ __migrate_task(c)

Stopper(c) == MigrationStop(c) \/ PreemptSchedule(c)

Thread(c) == SetSleeping(c) \/ TestCondition(c) \/ Schedule(c) \/ sched_exec(c)

HotplugStep == CpuDying \/ \E d \in CPU : CpuDownPrepare(d) \/ CpuDownFailed(d) \/ StopMachine(d) \/ CpuUp(d)

Next ==
    \/ \E c \in CPU : \/ \E p \in Task : Post(c, p)
                      \/ Busy(c) \/ scheduler_ipi(c) \/ FinishSwitch(c) \/ Stopper(c) \/ Thread(c)
    \/ \E p \in Task, mask \in Masks : set_cpus_allowed_ptr(p, mask)
    \/ HotplugStep

Spec == Init /\ [][Next]_vars

\* Spin locks are handed over and interrupts come in between: what a CPU waits
\* for again and again it gets.  Threads need not go on.
FairSpec ==
    /\ Spec
    /\ \A c \in CPU : SF_vars(Busy(c) \/ scheduler_ipi(c)) /\ SF_vars(FinishSwitch(c))

-----------------------------------------------------------------------------
Positions ==
    {Run} \cup {On(w, p) : w \in {"wake", "remote", "spin", "queue"}, p \in Task}
    \cup {[in |-> "pending", todo |-> ps] : ps \in (SUBSET Task) \ {{}}}
    \cup {[in |-> w, p |-> p, dest |-> d, first |-> f] : w \in {"migrate", "migrate2"}, p \in Task, d \in CPU, f \in CPU}

\* The variables have their types.
TypeOK ==
    /\ task \in [Task -> [state : {"running", "sleep", "waking"}, on_rq : BOOLEAN, on_cpu : BOOLEAN,
                          cpu : CPU, allowed : (SUBSET CPU) \ {{}}]]
    /\ loop \in [Task -> {"awake", "test", "schedule"}]
    /\ event \subseteq Task
    /\ curr \in [CPU -> Task \cup {Idle, Stop}]
    /\ prev \in [CPU -> Task \cup {Idle, Stop, Nobody}]
    /\ need \subseteq CPU /\ ipi \subseteq CPU
    /\ at \in [CPU -> Positions]
    /\ wake_list \in [CPU -> SUBSET Task]
    /\ work \in [CPU -> SUBSET (Task \X CPU)]
    /\ active \subseteq online /\ online \subseteq CPU /\ active # {}
    /\ dying \in CPU \cup {Nobody}
    /\ build \in {"irqs_off", "irqs_on"}

\* ttwu_queue_remote sends an interrupt only for the first entry of a list: no
\* list may hold a thread while no interrupt is on its way, and a thread in
\* TASK_WAKING is always in the hands of exactly one CPU or list.
WakingIsDelivered ==
    /\ \A c \in CPU : wake_list[c] # {} => c \in ipi /\ c \in online
    /\ \A t \in Task : task[t].state = "waking" =>
          Cardinality({c \in CPU : t \in wake_list[c]})
            + Cardinality({c \in CPU : at[c].in = "queue" /\ at[c].p = t})
            + Cardinality({c \in CPU : at[c].in = "pending" /\ t \in at[c].todo}) = 1

\* The CPUs that hold what CPU c waits for.
WaitsFor(c) ==
    LET PiOf(p) == {d \in CPU : at[d].in \in {"remote", "spin", "queue", "migrate", "migrate2"} /\ at[d].p = p}
        RqOf(q) == {d \in CPU : \/ d = q /\ prev[d] # Nobody /\ build = "irqs_off"
                                \/ at[d].in = "migrate2" /\ at[d].first = q}
    IN  CASE at[c].in = "wake"     -> PiOf(at[c].p)
          [] at[c].in \in {"remote", "queue"} -> RqOf(task[at[c].p].cpu)
          [] at[c].in = "spin" /\ task[at[c].p].on_cpu /\ build = "irqs_off" -> {d \in CPU : at[c].p \in {prev[d], curr[d]}}
          [] at[c].in = "spin" /\ task[at[c].p].on_cpu /\ build = "irqs_on"  -> RqOf(task[at[c].p].cpu)
          [] at[c].in = "pending"  -> RqOf(c)
          [] at[c].in = "migrate"  -> RqOf(at[c].first)
          [] at[c].in = "migrate2" -> RqOf(c + at[c].dest - at[c].first)
          [] OTHER -> {}

\* Two stoppers that migrate in opposite directions, a waker and the CPU whose
\* switch it waits for, a stopper and a waker: none waits for itself, and no
\* two wait for each other.
NoCircularWait == \A c \in CPU : c \notin WaitsFor(c) /\ \A d \in WaitsFor(c) : c \notin WaitsFor(d)

\* Every move takes a thread to a CPU of the mask it has at that time, although
\* the destination of a migration is chosen long before the stopper runs.
MovesAreAllowed == [][\A t \in Task : task'[t].cpu # task[t].cpu => task'[t].cpu \in task'[t].allowed]_vars

\* A CPU that spins on on_cpu, waits for a lock or works off its wake_list
\* comes to an end (try_to_wake_up, sched_ttwu_pending, __migrate_task).
BusyEnds == \A c \in CPU : at[c] # Run ~> at[c] = Run

\* The thread whose stack CPU c is on, through the switch.
Executing(c) ==
    LET t == IF prev[c] # Nobody THEN prev[c] ELSE curr[c] IN IF t \in Task THEN t ELSE Nobody

\* What SleepWakeup knows of the CPUs and the threads.
executing == [c \in CPU |-> Executing(c)]
asleep    == {t \in Task : task[t].state = "sleep" /\ ~task[t].on_rq /\ \A c \in CPU : Executing(c) # t}

Abstract == INSTANCE SleepWakeup

\* The locks, lists and interrupts implement SleepWakeup.
SleepsAndWakes == Abstract!Spec

\* A thread on a queue outside its mask is about to be moved.  The code does not
\* keep it: set_cpus_allowed_ptr leaves a thread that is in TASK_WAKING alone.
AllowedCpu ==
    \A t \in Task : task[t].on_rq /\ task[t].cpu \notin task[t].allowed =>
       \/ \E w \in work[task[t].cpu] : w[1] = t
       \/ \E c \in CPU : at[c].in \in {"migrate", "migrate2"} /\ at[c].p = t
=============================================================================
