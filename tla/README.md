# Linux 3.4 scheduler with a weighted round-robin class: a TLA+ model

The repository is a course project on the scheduler of an Android (ARM) Linux
kernel.  It adds a scheduling class, `SCHED_WRR`, between the real-time and the
fair class, in three versions:

* `Basic/src/kernel/wrr_basic.c`: priority queues, one slice length for
  foreground and one for background threads (told apart by the cgroup path);
* `Bonus/RevisedWRR/wrr_RMLFQ.c`: the queues are split into stages; a thread that
  uses up its slice jumps to a neighbouring stage or stays, by a random number;
* `Bonus/RevisedWRR/wrr_group.c`: a hierarchical version, one queue per group.

`Basic/src/kernel/core.c`, `rt.c`, `sched.h` and `linux/sched.h` are the kernel's
files with the changes that hook the class in.  `fair.c`, `idle_task.c`,
`kernel/rtmutex.c`, `kernel/exit.c`, lists and bitmaps are not in the repository:
the model takes them to do what the code here relies on ("external" in the map).

## 1. Inventory

| component | source | state | operations | what is hard | what makes it correct |
|---|---|---|---|---|---|
| run list of the class | `sched.h` 81-84, 344-360; the three `wrr_*.c` | `queue[100]`, `bitmap`, `wrr_nr_running` | enqueue, dequeue, requeue, jump, pick | list, bit, counter and the thread's `rt_priority` change in separate statements | they agree with each other and with the threads; `BUG_ON` stays silent |
| basic class | `wrr_basic.c` | `wrr.time_slice`, group of a thread | tick, yield, preemption check, switched_to | unsigned `--`; two opposite orders of priority | slices never wrap; who is picked is who would preempt; turns |
| feedback class | `wrr_RMLFQ.c` | also `times` | the same, and the random jump | 32-bit products in the thresholds, bounds of the two directions | `times` bounded, level order, slice fits the stage |
| scheduler core | `core.c` 643-1936, 3171-3512 | `rq->curr`, `nr_running`, `TIF_NEED_RESCHED`, `state`, `on_rq` | schedule, preempt, sleep, wake, tick, fork, exit, yield | wake-up against prepare-to-sleep, preemption in between | no lost wake-up; a better class always has a reschedule coming |
| policies and priorities | `core.c` 995-1057, 3950-4049, 4172-4368, 7566-7607 | `policy`, `rt_priority`, `static_prio`, `normal_prio`, `prio`, class, reset flag | setscheduler, nice, boost, group move | five dequeue-change-enqueue sequences that must use the old key to dequeue | class follows policy; requests stay in force |
| real-time bandwidth | `rt.c` 1-1000, `core.c` 8017-8125 | `rt_time`, `rt_runtime`, `rt_throttled`, period timer | account, throttle, borrow, refill, enable and disable | timer, ticks and other CPUs between two holds of `rt_runtime_lock` | runtime neither made nor lost; a throttled queue runs again |
| real-time push and pull | `rt.c` 1000-2050 | pushable list, `rto_mask`, `cpupri`, migration count | place, push, pull | `rq->lock` is dropped to lock two queues | what other CPUs read is true; nobody waits for a CPU with less urgent work |
| group class | `wrr_group.c` | hierarchy of `wrr_rq`, `highest_prio` | as above, along `parent` | top-down removal, uninitialised `rq` (line 55) | `highest_prio` is the least set bit |
| SMP wake-up, migration, hotplug | `core.c` 1453-1642, 5119-5356 | `pi_lock`, `on_cpu`, `wake_list` | remote wake, interrupt, migrate, CPU down and up | interrupt sent once, spinning on `on_cpu`, two queue locks | every wake-up arrives, no thread on two CPUs, no deadlock |
| completions, wait queues | `core.c` 3530-3890 | `done`, wait list | complete, wait with timeout or signal | timeout or signal against completion | no completion lost or used twice |
| load average, CPU load | `core.c` 2173-2680 | `calc_load_active`, `calc_load_idle[2]` | fold, decay | two windows, idle CPUs, hotplug | every delta counted once |
| group tree, bandwidth constraints | `core.c` 655-688, 7505-8224, `wrr_group.c` 400-509 | task_group tree | create, walk, set bandwidth | groups come and go under the walk; unwinding | children fit in the parent; nothing freed is read |
| domains, accounting, sysctl, debug | `core.c` rest | - | - | - | see section 6 |

The components meet in `struct rq` and `struct task_struct`, under `rq->lock`: the
core calls a class through `p->sched_class` (`enqueue_task`, `dequeue_task`,
`pick_next_task`, `check_preempt_curr`, `task_tick`, `switched_to`,
`prio_changed`), and classes answer by setting `TIF_NEED_RESCHED` of `rq->curr`.
Interrupts (ticks, wake-ups) interleave with threads wherever the lock is free and
preempt them where preemption is on.

## 2. Modules

One CPU, the classes and their core:

| module | role |
|---|---|
| `LinkedList` | `list_del_init`, `list_insert`, `list_move` on sequences: the lists of the class and of `Completion` |
| `PrioArray` | the run list: queues as sequences, the bitmap as the set of its set bits (with the delimiter), the counter; `enqueue_wrr_entity`, `dequeue_wrr_entity`, moves, `pick_next_task_wrr`. What a good array is: `ArrayOK` |
| `WrrBasic` | hooks of `wrr_basic.c` as operators from run list and thread to the set of results |
| `WrrRMLFQ` | the same of `wrr_RMLFQ.c`; the random number is a choice, so a requeue has several results |
| `SchedCore` | the state machine: one action per section of `core.c` under `rq->lock`; the build of the class is the constant `Build`. EXTENDS `PrioArray`, INSTANCEs the two hook modules |
| `SchedProps` | the properties of `SchedCore` |
| `SchedRequests` | `SchedCore` with the last request of each thread that returned 0: `sched_setscheduler` as its caller sees it |
| `WrrGroup` | `wrr_group.c` and its callers: entities of threads and groups over `PrioArray` (INSTANCE with the entities for threads) |
| `DataProofs` | lemmas on sequences without duplicates, and on sums over finite sets |
| `SchedProofs` | the proofs about one CPU, section 5 |

Several CPUs and the rest of `core.c` and `rt.c`:

| module | role |
|---|---|
| `SleepWakeup` | abstract: a CPU executes one thread, a thread executes on one CPU and not while it sleeps, and a thread that sleeps with an event posted is woken |
| `WakeupSMP` | wake-up, switch, affinity, stopper and hotplug; implements `SleepWakeup` |
| `CountingEvent` | abstract: every signal lets one thread go, and a thread gives up only when there is none |
| `Completion` | completions and wait queues; implements `CountingEvent` |
| `RtBandwidth` | run time, throttling, borrowing, the period timer; sysctl, root domains and hotplug against them |
| `RtPushPull` | where real-time threads run: placement, push, pull, and the copies other CPUs read |
| `LoadDecay`, `LoadAvg` | the arithmetic of the load averages with the numbers of the code; the deltas that feed them |
| `GroupTree` | the tree of task groups, the walks and checks of writes to it |
| `WakeupProofs`, `CompletionProofs`, `RtPushPullProofs`, `RtBandwidthProofs`, `LoadAvgProofs`, `GroupTreeProofs` | the proofs, section 5 |

`MC*` modules give the sets, boots and cases TLC needs; every run uses one, or the
module itself.

The parts compose where the code couples them in one lock section: `SchedCore` joins
core, policies and classes; `WakeupSMP` joins wake-up, switch, migration and hotplug;
`RtBandwidth` joins accounting, timer, domains and hotplug. Between those groups the
code couples through few calls, which the other modules take as given: `WakeupSMP`
leaves the choice of a thread to its class (any of the queue), `RtPushPull` takes
wake-ups as `WakeupSMP` delivers them (a thread in `TASK_WAKING` is in one CPU's
hands), `GroupTree` takes threads without their run queues.

### State and code: one CPU

`task[p]` holds the fields of `task_struct` that scheduling reads: `policy`, `class`
(`sched_class`), `rt_priority`, `prio`, `static_prio`, `state`, `on_rq`,
`wrr.time_slice`, `times`, the group's kind and `sched_reset_on_fork`. Two fields
stand for code outside the repository or outside one action: `pi` is the priority of
the best waiter on an `rt_mutex` the thread holds (`rt_mutex_getprio` returns the
better of it and `normal_prio`), `parent` marks a child whose `do_fork` has not
reached `wake_up_new_task` yet. `rq` is `nr_running` and the class's run list, `curr`
is `rq->curr`. `need_resched` is one Boolean: only `rq->curr` ever has the flag, and
`__schedule` clears it on `prev`.

The rt and fair queues are sets (`Queued`); `pick_next_task` may return any rt thread
of the best `prio`, any fair thread, or exactly the thread `pick_next_task_wrr`
takes, after the shortcut on `nr_running` that `core.c` 3309 makes.

| action of `SchedCore` | code |
|---|---|
| `TickWrr`, `TickOther` | `scheduler_tick` with `task_tick_wrr`; with a tick of fair or SCHED_RR that ends a turn |
| `Schedule` | `schedule()` of a thread that blocks, exits, has a signal pending or was asked to reschedule |
| `PreemptSchedule` | `preempt_schedule` (`PREEMPT_ACTIVE`: no dequeue) |
| `SetSleeping`, `SetRunning` | `set_current_state` around a wait condition |
| `Wake` | `try_to_wake_up`, both the `on_rq` half and the activating half |
| `Fork`, `WakeUpNew`, `Exit` | `sched_fork`; `wake_up_new_task`; `do_exit` up to its last `schedule()`, which frees the thread in `finish_task_switch` |
| `Yield` | `sched_yield`, whose `schedule()` follows with interrupts off |
| `SetScheduler`, `SetSchedulerReturns` | `__sched_setscheduler`, and its return on "not changing anything" |
| `SetUserNice`, `RtMutexSetprio`, `MoveTask` | `set_user_nice`; `rt_mutex_setprio`; `sched_move_task` |

`WrrGroup` has the same shape with `wrr_group.c`'s hooks. `wrr_rq_of_se` (line 55) reads
a pointer it never sets: on a uniprocessor the build leaves the root's queue there,
so all threads share it and the queues of groups stay empty; the model keeps those
queues, and `QueueExact` says that no group is ever queued. `oops` marks the NULL
pointer `task_fork_wrr` follows for a thread of the root group. Requests are those of
`__sched_setscheduler`: the class with any priority, 0 included, and a request for the
class a thread has already changes nothing, its priority neither.

### State and code: several CPUs

A step is what another CPU cannot divide: a section under one lock, or what runs
between two accesses to shared words. Locks are not variables: who holds one follows
from where the CPUs are (`PiFree`, `RqFree`).

| module | state | actions |
|---|---|---|
| `WakeupSMP` | `task` (state, `on_rq`, `on_cpu`, cpu, mask), `curr`, `prev` (a switch under way), `wake_list`, `ipi`, `work` of the stopper, `at` (what a CPU does with interrupts off), `online`, `active` | `TtwuLock`, `ttwu_remote`, `ttwu_activate_remote`, `TtwuPlace`, `TtwuQueueLocal`, `ttwu_queue_remote`: `try_to_wake_up`. `scheduler_ipi`, `sched_ttwu_pending`. `Schedule`, `PreemptSchedule`, `FinishSwitch`: `__schedule` and `finish_lock_switch`. `set_cpus_allowed_ptr`, `sched_exec`, `MigrationStop`, `MigrateLock`, `__migrate_task`. `CpuDownPrepare`, `CpuDownFailed`, `StopMachine`, `CpuDying` (with `migrate_tasks`), `CpuUp` |
| `RtBandwidth` | `runtime`, `time`, `throttled` of every queue; `at` (how far `update_curr_rt` is), `timer`, `sysctl`, root domains, the notifiers still to run | `UpdateCurr`, `BalanceRuntime`, `RuntimeExceeded`: `update_curr_rt` with `rt_runtime_lock` dropped in between. `Expire`, `Visit`, `Update`, `TimerEnd`: `sched_rt_period_timer` and `do_sched_rt_period_timer`. `SysctlWrite`, `sched_rt_global_constraints`, `sched_rt_handler`. `Repartition`, `CpuDown`, `CpuUp`, `PlugStep`: notifiers in order of priority |
| `RtPushPull` | one record `m` of threads, queues and root domain, `pc` (what a CPU does when `double_lock_balance` returns) | `Schedule`, `PostSchedule`, `Continue`, `Wake` (with `select_task_rq`, `select_fallback_rq`), `WakeLocked`, `Rotate`, `SetPrio`, `set_cpus_allowed_rt`, `CpuDying` with `migrate_tasks`, `CpuUp` |
| `Completion` | `done`, the wait list, a second queue for `sleep_on`, what each thread waits in | `complete`, `complete_all`, `WaitFor`, `Resume` (a turn of the loop in `do_wait_for_common`), `Expire`, `Signal`, `try_wait_for_completion`, `sleep_on` and its return, `__wake_up` |
| `LoadAvg` | `nr_running`, `nr_uninterruptible`, `calc_load_active` and `calc_load_update` of every queue, `calc_load_tasks`, `calc_load_idle`, `calc_load_idx`; times relative to the global `calc_load_update` | ticks, entering (in two steps) and leaving NO_HZ, `DoTimer`, `calc_load_fold_idle`, `Average`, `CatchUp`, `Flip`: `calc_global_load` statement by statement; hotplug |
| `GroupTree` | `first`, `next`, `parent` as pointers, `mem`, readers a grace period waits for, bandwidths, the writes that wait for a mutex (`pending`) and the two walks | `Create`, `Destroy`, `FreeRcu`, `RtWalk` and `CfsWalk` (one group each), `WriteRt` and `WriteCfs` up to the mutex, `tg_set_rt_bandwidth` and `tg_set_cfs_bandwidth` from there, `WriteSysctl`, `CheckSysctl`, `CanAttach`, `Attach`, `SetPolicy` |

### Abstractions

* One CPU (`SchedCore`, `WrrGroup`): `CONFIG_PREEMPT`, `CONFIG_RT_MUTEXES`,
  `CONFIG_CGROUP_SCHED`. Sections under `rq->lock` with interrupts off are atomic.
* `NPrio` stands for 100, `StageWidth` for 10 (and `2 * StageWidth` for 20), `UMax`
  for 2^32-1. The thresholds `k * 4294967295 / 10` are computed modulo `UMax + 1`, as
  the kernel's 32-bit compiler does (`WideLiteral = FALSE`).
* Two of the 40 nice levels. `SCHED_BATCH` and `SCHED_IDLE` behave as `SCHED_NORMAL`.
* What fair and rt decide from time (vruntime, SCHED_RR slices) is a free choice;
  statistics, load weights and `printk` are left out.
* A request without permission, or an invalid one, changes nothing and is a stutter.
* Threads start asleep in the state `__setscheduler` leaves, or not forked yet.
* Several CPUs: accesses to shared words happen in program order (the barriers of
  the code are taken to work). Both kernels of the switch are modelled: `irqs_off`,
  and `irqs_on` for `__ARCH_WANT_INTERRUPTS_ON_CTXSW`, which ARM defined.
* `RtBandwidth` is for the build without `CONFIG_RT_GROUP_SCHED`; time advances by
  chosen amounts up to `TimeMax`. In `RtPushPull` run lists are sets, and the fair
  class is one priority below all real-time ones.
* `LoadAvg` bounds the latency of ticks: every CPU that ticks folds within a period,
  as `core.c` relies on when it waits ten ticks.

## 3. Runs

| run | instance | question | properties |
|---|---|---|---|
| `BasicThreads` | 3 WRR threads, 2 levels | life of a thread, from fork to exit, with priority inheritance; turns | `TypeOK`, `RunnableIsQueued`, `SliceLeft`, `HigherClassGoesFirst`, `YieldGivesWay`, `EveryoneGetsATurn` |
| `Requests` | 2 threads, all classes | the caller's view of `sched_setscheduler`, with boosts and forks between | `NoPickBug`, `OtherRequestsHonoured`, `PolicyNamesClass`, `ClassOrderKept`, `ForkResets` |
| `Rmlfq` | 2 threads, 3 levels, 32-bit thresholds | jumps between levels, threads entering the class, nice values, group moves | `QueueInv`, `TimesBounded`, `LevelOrderKept`, `PickAgreesWithPreempt` |
| `WrrGroup` | 3 threads, a group in a group | the hierarchical class | `QueueExact`, `TurnComes` |
| `Wakeup` | 2 threads, 2 CPUs, both kernels | sleeping loops against wake-ups | `SleepsAndWakes` (refinement), `BusyEnds` |
| `Migration` | the same, masks, exec, hotplug | moving threads against all that | `WakingIsDelivered`, `NoCircularWait`, `MovesAreAllowed` |
| `RtPushPull` | 3 threads, 2 CPUs, one change of priority, mask or CPU | does everyone run where it should | `NoPushBug`, `RootDomainTrue`, `Balanced` |
| `RtBandwidth` | 2 CPUs, period 4, runtime 2 | borrowing and throttling under administration | `Conserved`, `ThrottleEnds` |
| `RtRuntimeLeaks` | the same, hotplug only | the `BUG_ON(want)` of `__disable_runtime` | `NotLeftWanting`, violated |
| `Completion` | 3 threads, 2 `complete`, 1 `complete_all` | timeouts and signals against completions | `EntriesLive`, `WokenForDone`, `CountsEvents` (refinement) |
| `LoadAvg` | 2 CPUs, period 2, window 1 | deltas over windows, NO_HZ and hotplug | `NothingLost`, `SkipsAtMostOne`, `IdleLeavesNoMark`, `AllArrives` |
| `GroupTree` | 3 groups, 1 thread, six cases | walks against creation, destruction and writes | `WalksAllocated`, `WalksEnd`, `RtSumsFit`, `QuotasFit` |

Every property of a passing run has a mutant, an operator marked "Defect" beside the
definition it replaces, with which TLC finds the property violated.

### Bounds, and why they are enough

* Two threads suffice for what a change of policy can disturb: one that changes and one
  it may leave waiting; a second thread at the same level is the case in which a queue
  is not emptied. Three are used where an order within a queue and a thread outside it
  matter. The feedback build has three levels, so that a jump up, a jump down and both
  bounds occur. Slices of 2 and 1 ticks make both branches of the decrement occur.
  `UMax = 25` keeps the shape of the thresholds: 26 and 2^32 leave the same rest modulo
  10, so `(26 - k) / 10` and `(2^32 - k) / 10` step down at the same `k` (7 and 17) and
  are positive for every `k` that occurs. Threads are symmetric where no liveness is
  checked.
* Two CPUs are what a wake-up, a migration, a push, a pull and a borrowing each need;
  two threads are one that wakes or moves and one in its way, three real-time threads
  leave one waiting on each of two CPUs. `Migration` masks threads to CPU 0 only and
  wakes from CPU 0; the opposite direction is exercised by exec and by hotplug.
  `Wakeup` wakes from both CPUs.
* `Balanced` is a property of two CPUs, where a push has one place to go and the CPU it
  leaves is the only other. On three the code does not keep it (section 4).
* `RtPushPull`'s `Changes = 1` lets one priority, mask or CPU change at any moment of
  any behaviour; wake-ups, sleeps, rotations and CPUs coming up are not bounded.
* `RtBandwidth`: a tick takes as much as the runtime, so throttling needs two; borrowing
  takes a half of what the other has not used. `Admins` gives each behaviour one kind of
  administrator.
* `Completion`: `UMax = 7` makes `complete_all` add 3. With two of each the counter
  reaches 8, wraps to 0, and waiters that come then block (`CountsEvents` is violated), as
  with two of each, or three of `complete_all`, in the code: the reason for `Ones = 2`,
  `Alls = 1`.
* `LoadAvg`: `Events = 2` starts of threads or CPUs, in any phase of the window.
* `WrrGroup`: `Changes = 2` forks, policy changes and moves together. `Boots` starts two
  threads at the level picked first, at that and the last level, or at two other levels.
* `GroupTree`: `Cases` gives each behaviour the files it writes and what else happens, so
  that they are explored side by side and not multiplied. One write waits for each mutex
  while another walks: it has read the half it does not write (7752, 7777, 8070, 8097), which
  the walk may replace, and that is the case a second one waiting would repeat. A period of 0
  reaches `sysctl` (7871) before it is refused (7799), and group writes see it meanwhile.
  `Inf` is -1 there, as `RUNTIME_INF` is when it is compared as an `s64`.
* `CHECK_DEADLOCK FALSE` stands where the system may stop: once all threads are gone
  (`BasicThreads`, `Requests`, `Rmlfq`), after a NULL pointer (`WrrGroup`), when all
  calls have returned (`Completion`), and where `migrate_tasks` does not end (below).

### Fairness

* `BasicThreads`: weak fairness of `TickWrr` (the timer interrupts) and of
  `Schedule \/ PreemptSchedule` (a reschedule asked for is carried out on return from the
  interrupt; a thread that called `schedule()` gets there). Nothing is assumed of
  wake-ups, yields, forks or sleeps; `EveryoneGetsATurn` is of behaviours in which the nice
  value, group, policy and boost of living threads are at some time no longer changed
  (`Stays`), since every dequeue-change-enqueue puts a waiting thread at the tail; forks
  and exits may go on for ever. `WrrGroup` likewise, where `Changes` bounds them. Both properties are of threads at the
  level that is picked and runs: a thread alone at another level keeps the CPU from a
  waiting thread that `pick_next_task_wrr` would prefer, because `check_preempt_curr_wrr`
  and the tick of a lone thread do not ask for a reschedule.
* `Wakeup`: strong fairness of the steps a CPU takes with interrupts off and of the
  interrupt, and of `FinishSwitch`: spin locks are handed over and interrupts arrive,
  though others take the lock in between. Threads need not go on.
* `RtBandwidth`: strong fairness of the timer (it spins for `rq->lock` that ticks take
  again and again), weak of handlers. Nothing is assumed of threads or administrators.
* `Completion`: a thread that was woken runs on. Nothing is assumed of timeouts, signals
  or `complete`.
* `LoadAvg`: the clock goes on, CPUs tick, and a CPU with threads to run leaves NO_HZ.
  CPUs that stay idle need not.
* `GroupTree`: a writer that walks goes on.

### The refinements

`WakeupSMP!Abstract` maps: a CPU executes the thread whose stack it is on (`prev`
during a switch, else `curr`), a thread is asleep once it is off its queue in a sleeping
state and no CPU is on its stack, an event is posted until the thread has seen it.
`SleepsAndWakes` then says that dequeueing, `on_cpu`, `wake_list` and the interrupt
together never run a thread twice or in its sleep and never lose a wake-up, the liveness
part included. `Completion!Event` maps `done` to the signals and the wait list to the
waiting threads; `CountsEvents` then says that a wait that fails found no completion to
take, that one that succeeds took exactly one, and that waiters and completions do not
stay side by side.

### How the order properties are stated

`ClassOrderKept` and `LevelOrderKept` are stated as "no step loses the order" because
the code does lose it where a thread enters the class while it is on the run queue:
`switched_to_wrr` looks at `rt_priority` whatever the class of `curr`, and at nothing
when `p == curr`. The excluded steps are named (`EntersWrr`), and so is the case of a
thread that runs in the class with an inherited real-time `prio` (`BoostedWrr`), with
which `switched_to_rt` and `prio_changed_rt` compare. `Balanced` is stated of behaviours
without changes, because nobody balances after the priority or the mask of a waiting
thread changes or an idle CPU comes up; `Conserved` is about each root
domain, because runtime is only borrowed within one, and excludes hotplug for the leak
below.

## 4. Where code and documents disagree

`RtRuntimeLeaks` has the counterexample: `rt.c` 677 says "We cannot be left wanting - that
would mean some runtime leaked out of the system." A CPU that comes up has its runtime
enabled by `rq_online_rt` and again by `update_runtime` on `CPU_ONLINE`; if its queue
lent or borrowed between the two, the second sets its share back to the full one, and a
later `__disable_runtime` finds nobody to settle with.

The others have a named formula in a module, and no run of their own; TLC shows each
when the formula is added to the run named.

| formula | run | what happens |
|---|---|---|
| `SchedRequests!WrrRequestsHonoured` | `Requests` | a second `SCHED_WRR` request with another priority returns 0 and changes nothing: `core.c` 4313 compares priorities only for `rt_policy` |
| `SchedProps!WrrPolicyNamesClass` | `Requests` | `rt_mutex_setprio` (3988) knows rt and fair only: after a boost a `SCHED_WRR` thread is a fair thread, whatever `sched_getscheduler` says |
| `SchedProps!WrrForkResets` | `Requests` | `SCHED_RESET_ON_FORK` has no effect on a `SCHED_WRR` parent's child (1758) |
| `SchedProps!ValidPriorities` | `Requests` | two negated equivalences joined by `&&` (4247) accept `SCHED_FIFO`, `SCHED_RR` and `SCHED_WRR` with 0 |
| `SchedProps!PickAgreesWithPreempt` | `BasicThreads` | queue index = `rt_priority`, first bit wins: the lowest is picked, while the highest preempts (`wrr_basic.c` 176 and 196; `wrr_group.c` does the same) |
| `SchedProps!YieldGivesWay` | `Rmlfq` | `sched_yield` may move its caller to a queue that is picked next, so that it goes on although another thread was runnable beside it |
| `SchedProps!HigherStageFallsMore` | `Rmlfq` | the report (page 8) has the chance of `wrr_RMLFQ.c` to fall grow with the stage: the thresholds (185) are products modulo 2^32 |
| `WakeupSMP!AllowedCpu` | `Migration` | "the thread is moved to a valid CPU" is the promise of `set_cpus_allowed_ptr` (5140); a thread in `TASK_WAKING` is on no queue, is not moved, and is enqueued on the CPU it was given before |
| `RtPushPull!BestRuns` | `RtPushPull` | `switched_from_rt` (1874) pulls a thread and does not reschedule when the lock was dropped in between |
| `RtPushPull!Balanced` | `RtPushPull` with a third CPU | a push that failed is not retried, "since other cpus will pull from us when ready" (1658): see below |
| `GroupTree!RtTasksHaveRuntime` | `GroupTree` | `tg_has_rt_tasks` compares the group with `task_rq(p)->rt.tg`, which is always the root's: the runtime of a group with real-time threads can be set to 0; so it can between `can_attach` and `attach` |
| `GroupTree!WithinGlobal` | `GroupTree` | `sched_rt_handler` writes the sysctl before it checks it: a group write in between is checked against a limit that is then taken back |

On three CPUs (`CPU = {0, 1, 2}`, `Masks = {{0, 1}, {0, 1, 2}}`, `MAX_RT_PRIO = 2`,
`Changes = 0`, `Hotplug = {}`) TLC finds `Balanced` violated by three equal threads that only
wake and sleep. p1 runs on CPU 0 when p2 is woken there; the waking CPU 2 wants to push
p2 to itself and drops the lock. Meanwhile p1 sleeps, p2 runs and sleeps, p1 is woken on CPU 1,
p2 on CPU 0, which is idle and about to switch to it, and the push of p3 away from
CPU 1 fails, as no CPU p3 may use is free. Now CPU 2 goes on: p2 is still on that queue and
does not run (1555), so it is pushed. CPU 0 reschedules from idle to idle, which pulls nothing
(`pre_schedule_rt` is for a real-time `prev`), and p3 waits behind p1 although it may run on
CPU 0. What is missing is the look `push_rt_task` takes before the drop (1633), whether the
candidate is better than what the queue runs: with it in `Gone`, TLC finds `Balanced` kept on
three CPUs, with these masks and with more masks and two real-time priorities.

In 32 bits `k * 4294967295` wraps to `2^32 - k`, so a thread of `wrr_RMLFQ.c` falls with about
one chance in ten at every stage, and with less at a higher one. A 64-bit literal
would give what the report describes. `task_tick_wrr` of that build computes the new slice before the jump, so a thread that falls to a lower stage
keeps the longer slice of the stage it left for one turn.

Met while modelling, and part of the models:

* `task_fork_wrr` of `wrr_group.c` follows a NULL pointer for a thread of the root group
  (`oops`), and gives a child in another group the slice 0, which the next tick
  decrements to 2^32-1.
* `free_wrr_sched_group` (425) frees the arrays and not what they point to, so each group
  that is destroyed leaves its `wrr_rq` and `wrr_se` behind.
* A write of one half of a bandwidth reads the other before it takes the mutex: when it had
  to wait, it puts back the half another write has just replaced. The pair is checked as it
  is stored, so `RtSumsFit` and `QuotasFit` hold all the same.
* `migrate_tasks` (5343) picks threads from a throttled real-time queue for ever, since
  the pick returns none; `RtBandwidth` stops there.
* `start_rt_bandwidth` looks at `hrtimer_active` while the callback may be about to return
  `HRTIMER_NORESTART`: the timer may stay off with a throttled queue, which is why
  `ThrottleEnds` is stated while the timer runs.
* `calc_load_exit_idle` may set a CPU's next sample two windows ahead; `SkipsAtMostOne` is
  the bound.

## 5. Proofs

What the runs check on small instances these theorems state of every value of the
constants.

| theorem | statement | holds for |
|---|---|---|
| `SchedProofs!TypeCorrect`, `QueueCorrect`, `NoBug`, `NoLostWakeup` | `[]TypeOK`, `[]QueueInv`, `[]NoPickBug`, `[]RunnableIsQueued` | any finite set of threads, number of priorities, slices, either build, any set of operations |
| `SchedProofs!SlicesLeft`, `PolicyIsClass` | `[]SliceLeft`, `[]PolicyNamesClass` | the same |
| `SchedProofs!ForkIsReset`, `OrderKept` | the action properties `ForkResets`, `ClassOrderKept` | the same |
| `SchedProofs!RequestsHonoured` | `RSpec => []OtherRequestsHonoured` | the same |
| `SchedProofs!BetterClassFirst` | `NoneEnter => (Spec => []HigherClassGoesFirst)` | the same, where no request lets a thread into the class |
| `SchedProofs!LevelsKept`, `PickAgrees` | the action properties `LevelOrderKept`, `PickAgreesWithPreempt` | the same, `Build = "rmlfq"` |
| `SchedProofs!YieldGives` | the action property `YieldGivesWay` | the same, `Build = "basic"` |
| `SchedProofs!TimesNeverPass` | `LargeUInt => (Spec => []TimesBounded)` | either literal, unsigned ints up to at least `13 + NPrio` |
| `WakeupProofs!WakingDelivered`, `NoCircle`, `MovesAllowed` | `[]WakingIsDelivered`, `[]NoCircularWait`, `MovesAreAllowed` | any set of CPUs and threads, any masks, hotplug, kernels of both kinds |
| `WakeupProofs!WakeupImplements` | `Spec => Abstract!Safety`: every step is one of `SleepWakeup` | the same |
| `CompletionProofs!EntriesAreLive`, `EnoughAreWoken` | `[]EntriesLive`, `[]WokenForDone` | any finite set of threads, any number of calls, any width of the counter |
| `CompletionProofs!CompletionImplements` | `NoWrap => (Spec => Event!Safety)`: every step is one of `CountingEvent` | the same, where the calls together fit the counter |
| `RtPushPullProofs!PushSafe`, `DomainTrue` | `[]NoPushBug`, `[]RootDomainTrue` | any finite set of CPUs and threads, any number of priorities, masks, changes, and hotplug of any of the CPUs |
| `RtBandwidthProofs!RuntimeConserved` | `[]Conserved` | any number of CPUs, periods and runtimes, partitions and sysctls |
| `RtBandwidthProofs!NeverLeftWanting` | `[](admin # "hotplug" => NotLeftWanting)`: the violated run `RtRuntimeLeaks` needs its hotplug | the same |
| `LoadAvgProofs!DeltasConserved`, `OneSampleSkipped` | `[]NothingLost`, `[]SkipsAtMostOne` | any finite set of CPUs, window, period and jumps, any hotplug |
| `GroupTreeProofs!ChildrenFit`, `QuotasNested` | `[]RtSumsFit`, `[]QuotasFit` | any set of groups and threads, any bandwidths written, any order of creations, destructions and grace periods |
| `GroupTreeProofs!WalksOnLiveGroups` | `[]WalksAllocated` | the same |

**One CPU: where a thread is.** `QueueInv` is not inductive: a dequeue keeps the array
right only if the thread is in it, at the level of its present `rt_priority`, and whether
it is depends on the order of `state` and `on_rq` in every other action. The inductive
invariant `Inv` joins `RunQueueOK` (the run list against the threads) to `ThreadsOK`
(types; which `state` goes with which `on_rq`; the current thread is queued or idle; only
it may be `TASK_DEAD`). The argument has three layers: `DataProofs` shows what
`list_del_init`, `list_insert` and the moves do to a sequence without duplicates; part 1
of `SchedProofs` that each run list operation keeps `ArrayOK` for the right set of threads,
and lifts this to `enqueue_task`, `dequeue_task`, the dequeue-change-enqueue sequence
`change_task` and the jump of the feedback build, whatever number is drawn; part 2 has one
lemma per action.

**One CPU: what a thread is.** `PolicyInv` adds to `Inv` what policy, class, priority and
slice of each thread say of each other (`Kept`): a thread of the class has the policy; one
with the policy has between 1 and `MaxSlice` ticks left, also while a boost has taken it
out of the class; real-time priority, class and policy agree but for a boost. Each
operation that changes one of them leans on `Kept` for the thread it changes, and
`sched_fork` for the one it copies. `ForkResets` follows because no action but the fork takes a
thread out of the state "free", `OtherRequestsHonoured` because an action that is not a
request carries policy and priority of every thread over. `ClassOrderKept` needs no more
than `PolicyInv`: every action that makes a thread runnable, or changes its class, ends in
a comparison of `check_preempt_curr`, `switched_to` or `prio_changed` with the current
thread, and the cases where that comparison is not enough are the two the property names.
Under `NoneEnter` neither occurs: `PolicyInv` then also says that no thread of the class
is boosted (`Unboosted`), so the order is itself an invariant.

**One CPU: levels and jumps.** `LevelOrderKept` needs of a switch that the thread it takes
is at the least level (`FirstQueue`: the first bit of the bitmap is the first queue that is
not empty, by `ArrayOK`), of a tick that the requeued thread only stays current without a
request where no queue before its own is in use, and of a wake-up that
`check_preempt_curr_wrr` compares the levels. `PickAgreesWithPreempt` is the first of the
three; `YieldGivesWay` is that a move to the tail leaves another thread at the head of a
list of two or more. In the other build each of these is false or does not arise: the
basic class preempts by `rt_priority` and not by level, and the yield of the feedback
class draws a new level. `TimesBounded` is inductive as `Seldom`, with the number of
requeues (`Often`) after which the threshold `(2^32 - k) / 10 * times` or its 64-bit
form passes every number `rand()` can return.

**Wake-up.** `IInv` of `WakeupProofs` says whose stack a CPU is on (`StacksOK`), that a thread
off its queue sleeps or wakes (`StatesOK`), that `p->pi_lock` has one holder (`PiOK`), what a
CPU with interrupts off may rely on until its next step (`AtOK`), and that each thread in
`TASK_WAKING` is in the hands of exactly one CPU or list (`PlacesOK`), with an interrupt on its
way to each list (`IpiOK`). `NoCircularWait` follows from the order of `lock_first`: of two CPUs
that each wait for the other's lock, one holds the lower one. The simulation maps every
step to a step of `SleepWakeup` or a stutter; the liveness of `SleepWakeup` stays with the run.

**Completions.** `WokenForDone` counts entries of the wait list. What is inductive is
`EnoughAwake`, which counts threads: none of those that wait sleeps, or at least `done` of them
are awake. A signal or a timeout only adds to those awake; a thread that leaves takes one of
`done` with it, or leaves when there is none. The refinement is stated under `NoWrap`
(`Ones + Alls * (UMax \div 2) <= UMax`): with more calls the counter does wrap, and the
completions are lost. In the kernel that takes three calls of `complete_all`.

**Push and pull.** A step there is built of few operations on the machine (enqueue, dequeue,
move, switch, change of a priority or a mask). Each is shown to keep `OK`: the machine is
typed, a running thread is on the CPU it runs on, and the pushable list, migration count,
overload bit and `cpupri` of every queue are true of it. The invariant adds what `pc` may hold
after a lock was dropped: the CPU still has, in any later state, an entry of the right type,
the thread of a wake-up is at rest, and a CPU whose thread has left its queue is pulling and
will switch. It is because `PushLocked` looks again (`Gone`) that nothing else needs to be
remembered across the drop.

**Real-time bandwidth.** What is inductive is stronger than the property in two ways. The
queues of *each* root domain hold what they were given, `given` per CPU, also between the two
halves of a sysctl, where `rt_b` is already or not yet the new value (`Shared`); and the
domains in use are either the one of all CPUs or a partition whose rebuild, CPU by CPU, is in
`plug`. The loops of `do_balance_runtime` and `__disable_runtime` go over the CPUs by number
as recursive functions; the step of each moves an amount between two entries, so the sum is
kept by every prefix of the loop. Given back in full, nothing is left wanting
(`NeverLeftWanting`). The invariant says nothing of hotplug: there
`rq_online_rt` enables a queue that is enabled.

**Load average.** `NothingLost` is inductive, with the types, by the lemmas on sums: a step
changes one summand or two, or moves all of one. `Windows` is what `SkipsAtMostOne` needs:
every `calc_load_update` is a whole number of periods away from the global one, at most one
ahead, and, where the CPU ticks, behind the clock once the clock is a period ahead, so that
the catch-up of several windows cannot leave it two ahead.

**Groups.** A walk may stand on a group that was unlinked under it, and goes on from there by
the pointers `list_del_rcu` left, to groups that may have been unlinked in turn. `TreeOK` says
that what such a group points to is in the tree or waits for the same walk (`HeldOK`), and
that of the groups in the tree only the parent or one sibling points to each (`ListsOK`): this
is why taking that one pointer off is enough, and why a group is not freed while a group that
points to it can still be reached. A walk that starts after the unlinking cannot meet the group.
`WritersOK` adds that a group stays in the tree while a write to one of its files waits for the
mutex, so that the walk it starts is for a group that is there.

**Bandwidth of groups.** A write is checked by a walk that groups may leave and enter under
its feet, and is made when the walk has ended well; `RtSumsFit` and `QuotasFit` then rest on
the walk having come to every group they speak of. No step records what a walk has visited,
so `WillVisit` speaks of what is to come: there is a *trap*, two sets of positions (going
down, coming up) that the walk is in and can only leave through that group. A step of the
walk keeps the trap or visits the group; an unlinking removes a position from the trap and
leaves it a trap, because the one pointer to it is passed on; a new group is not in it.
`Reached` is that from the root there is a trap for every group of the tree. The
real-time check (`ChecksOK`) needs it for the group written and its parent, and a sum over
children (`sum_of_children`) that changes by what one child changes. The quota check
(`QuotaChecks`) also carries the set of groups visited so far, closed under parents, in which
`hierarchal_quota` is already the new one.

The assumptions on the constants are those the modules name: threads and CPUs are finitely
many, names differ, CPUs that are compared by address are numbers, slices are positive and
fit `UMax` at every stage, `StageWidth` is between 1 and `NPrio`, boot entries are policies with
priorities a request can have set. The run of each module evaluates them. Six theorems
name one more in their statement: `NoWrap`, the build, `NoneEnter` (what `BasicThreads` is an instance
of) and `LargeUInt` (in the code, 2^32 - 1 and 100 levels).

Only model-checked, and why:

* Liveness under fairness (`EveryoneGetsATurn`, `TurnComes`, `BusyEnds`, `ThrottleEnds`, `AllArrives`,
  `WalksEnd`, the fairness of both refinements): out of the proof system's reach.
* `Balanced` is not true of every number of CPUs (section 4), and what is special of two
  is in every path on which a CPU becomes worse.
* `QueueExact` of `WrrGroup`: the hierarchy is gone down by recursive operators, and
  `IdleLeavesNoMark` is about what the recursive decay of `LoadDecay` computes: neither
  can be used in a module with a proof.

## 6. Not modelled, and why

* `update_curr_wrr` and other statistics, cpuacct, irq and steal time: no decision depends
  on them. Debug files, sysctl tables, copying of arguments: I/O.
* The lock drop and recheck in `__sched_setscheduler`: split at the lock, the action
  multiplies the states of `Requests` beyond what a run can explore.
* `try_to_wake_up_local`, `wait_task_inactive`, `kick_process`, `yield_to`, mutex spinning,
  hrtick: they use the same locks in the same order as what `WakeupSMP` has.
* How scheduling domains are built from the topology: it matters to load balancing in
  `fair.c`, which is not in the repository. `normalize_rt_tasks` (sysrq).
* Chains of `rt_mutex` owners: `RtMutexSetprio` takes the result, a new top waiter.
* `CONFIG_RT_GROUP_SCHED` run queues in `RtBandwidth`: their tree is in `GroupTree`, their
  throttling repeats that of the root queue.
* Allocations of a new group that fail: one thread unwinds them before the group is in the
  tree, so that nothing the models keep depends on it.
* Tests and benchmarks: user programs whose system calls the models' environment makes.

## 7. Plan

1. `WakeupSMP` with the recheck of `__sched_setscheduler`, on one thread.
2. `RtBandwidth` over three CPUs, where a greedy borrower takes from two.
