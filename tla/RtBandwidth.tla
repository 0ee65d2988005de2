----------------------------- MODULE RtBandwidth -----------------------------
(***************************************************************************)
(* The bandwidth control of the real-time class (kernel/rt.c): the time    *)
(* each CPU's queue may use in a period, what it borrows from the others,  *)
(* throttling, the period timer, and what sched_rt_runtime_us, cpuset      *)
(* partitions and CPU hotplug do to it.                                    *)
(*                                                                         *)
(* A step is what runs under one hold of rt_runtime_lock.  rq->lock is     *)
(* held from update_curr_rt to the end of the handler that calls it.       *)
(***************************************************************************)
EXTENDS Integers, Sequences, FiniteSets, SequencesExt, Functions

CONSTANTS
    CPU,        \* 0 .. n - 1
    Period,     \* def_rt_bandwidth.rt_period, in clock units
    Runtime,    \* def_rt_bandwidth.rt_runtime at boot
    Deltas,     \* how far the clock gets between two calls of update_curr_rt
    TimeMax,    \* the bound on rt_time in this model
    Overruns,   \* the numbers of periods the timer finds elapsed
    Partitions, \* the sets of root domains cpusets may form
    Sysctls,    \* what is written to sched_rt_runtime_us
    Hotplug,    \* the CPUs that may be unplugged
    Admins      \* what administrators do: "partition", "hotplug", "sysctl"

Inf == -1       \* RUNTIME_INF, the largest u64, is -1 where it is computed with

ASSUME CpuAssumption       == IsFiniteSet(CPU) /\ CPU # {} /\ CPU = 0 .. Cardinality(CPU) - 1
ASSUME BandwidthAssumption == Period \in Nat \ {0} /\ Runtime \in 1 .. Period /\ TimeMax \in Nat
ASSUME InputAssumption     == Deltas \subseteq Nat /\ Overruns \subseteq Nat \ {0}
ASSUME AdminAssumption     ==
    /\ \A p \in Partitions : UNION p = CPU /\ \A m, n \in p : m # n => m \cap n = {}
    /\ Sysctls \subseteq (Nat \ {0}) \cup {Inf} /\ Hotplug \subseteq CPU
    /\ Admins \subseteq {"partition", "hotplug", "sysctl"}

VARIABLES
    runtime,    \* rt_rq->rt_runtime: what the queue has, lends and borrows
    time,       \* rt_rq->rt_time
    throttled,  \* the CPUs whose queue is throttled
    running,    \* the CPUs with real-time threads on their queue
    curr,       \* the CPUs that run a real-time thread
    at,         \* how far update_curr_rt is on each CPU, and what called it
    timer,      \* the period timer
    rt_b,       \* def_rt_bandwidth.rt_runtime
    sysctl,     \* sysctl_sched_rt_runtime and how far sched_rt_handler is
    doms,       \* doms_cur, the masks the domains were built for
    rd,         \* the mask the root domain of each CPU was built for, {} for def_root_domain
    online,     \* the online CPUs
    active,     \* cpu_active_mask
    rq_online,  \* the CPUs with rq->online set
    plug,       \* what is left to do of a hotplug operation or of a rebuild
    admin       \* what the administrator does in this behaviour

queue == <<runtime, time, throttled>>
tasks == <<running, curr, at>>
masks == <<doms, rd, online, active, rq_online>>
vars  == <<queue, tasks, timer, rt_b, sysctl, masks, plug, admin>>

Idle == [in |-> "run"]

\* rq->lock of c is not taken by a handler that runs update_curr_rt, nor by the timer.
RqFree(c) == at[c] = Idle /\ ~(timer.in = "update" /\ timer.next = c)

rt_bandwidth_enabled == sysctl.value # Inf

\* u64 comparisons with what may be RUNTIME_INF.
Exceeds(t, r)   == r # Inf /\ t > r
AtLeast(r, p)   == r = Inf \/ r >= p
span(c)         == {d \in CPU : rd[d] = rd[c]}

\* for_each_cpu, on a mask.
InOrder(mask) ==
    CHOOSE s \in [1 .. Cardinality(mask) -> mask] : \A i, j \in DOMAIN s : i < j => s[i] < s[j]

-----------------------------------------------------------------------------
(* Borrowing and giving back. *)

\* Defect: the whole spare time of a neighbour is taken, and it keeps it too.
lend_twice(c, r, d) ==
    LET spare == r[d] - time[d]
    IN  IF r[d] = Inf \/ spare <= 0 \/ r[c] = Period THEN r
        ELSE [r EXCEPT ![c] = @ + IF @ + spare > Period THEN Period - @ ELSE spare]

\* c takes a share of d's spare time, but no more than makes its runtime the period.
lend(c, r, d) ==
    LET spare == r[d] - time[d]
        share == spare \div Cardinality(span(c))
        diff  == IF r[c] + share > Period THEN Period - r[c] ELSE share
    IN  IF r[d] = Inf \/ spare <= 0 \/ r[c] = Period THEN r
        ELSE [r EXCEPT ![d] = @ - diff, ![c] = @ + diff]

do_balance_runtime(c) ==
    LET walk[i \in 0 .. Cardinality(CPU)] ==
            IF i = 0 THEN runtime
            ELSE IF i - 1 \in span(c) \ {c} THEN lend(c, walk[i - 1], i - 1) ELSE walk[i - 1]
    IN  walk[Cardinality(CPU)]

\* c takes back what it lent, or gives what it borrowed to the first it finds.
reclaim(st, d) ==
    LET diff == IF st.want > 0 /\ st.runtime[d] < st.want THEN st.runtime[d] ELSE st.want
    IN  IF st.runtime[d] = Inf \/ st.want = 0 THEN st
        ELSE [want |-> st.want - diff, runtime |-> [st.runtime EXCEPT ![d] = @ - diff]]

Reclaimed(c) ==
    LET walk[i \in 0 .. Cardinality(CPU)] ==
            IF i = 0 THEN [want |-> rt_b - runtime[c], runtime |-> runtime]
            ELSE IF i - 1 \in span(c) \ {c} THEN reclaim(walk[i - 1], i - 1) ELSE walk[i - 1]
    IN  IF runtime[c] \in {Inf, rt_b} THEN [want |-> 0, runtime |-> runtime] ELSE walk[Cardinality(CPU)]

__disable_runtime(c) ==
    /\ runtime' = [Reclaimed(c).runtime EXCEPT ![c] = Inf]
    /\ UNCHANGED <<time, throttled>>

__enable_runtime(c) ==
    /\ runtime' = [runtime EXCEPT ![c] = rt_b]
    /\ time' = [time EXCEPT ![c] = 0]
    /\ throttled' = throttled \ {c}

-----------------------------------------------------------------------------
(* Running threads. *)

\* What follows update_curr_rt, with the queues of thr throttled: the thread
\* runs on, its successor is picked, or it leaves the queue empty.  The switch
\* that resched_task asks for comes with the tick.
Then(c, then, thr) ==
    /\ running' = IF then = "dequeue" THEN running \ {c} ELSE running
    /\ curr' = curr \ ({c} \ (running' \ thr))
    /\ at' = [at EXCEPT ![c] = Idle]

\* start_rt_bandwidth: an active timer, its handler running included, is left alone.
start_rt_bandwidth ==
    timer' = IF rt_bandwidth_enabled /\ rt_b # Inf /\ timer.in = "off" THEN [in |-> "on"] ELSE timer

\* enqueue_task_rt of the first thread.
Enqueue(c) ==
    /\ c \in online /\ c \notin running /\ RqFree(c)
    /\ running' = running \cup {c}
    /\ start_rt_bandwidth
    /\ UNCHANGED <<queue, curr, at, rt_b, sysctl, masks, plug, admin>>

\* _pick_next_task_rt, in a switch from a thread of a lower class.
PickNext(c) ==
    /\ c \in running \ (throttled \cup curr) /\ RqFree(c)
    /\ curr' = curr \cup {c}
    /\ UNCHANGED <<queue, running, at, timer, rt_b, sysctl, masks, plug, admin>>

\* dequeue_task_rt of the last thread while it does not run.
Dequeue(c) ==
    /\ c \in running \ curr /\ RqFree(c)
    /\ running' = running \ {c}
    /\ UNCHANGED <<queue, curr, at, timer, rt_b, sysctl, masks, plug, admin>>

\* update_curr_rt, called by the tick, by a switch (put_prev_task_rt) or by
\* dequeue_task_rt, up to the point where rt_runtime_lock is dropped.
UpdateCurr(c, delta, then) ==
    /\ c \in curr /\ RqFree(c)
    /\ time[c] + delta <= TimeMax
    /\ IF rt_bandwidth_enabled /\ runtime[c] # Inf
       THEN /\ time' = [time EXCEPT ![c] = @ + delta]
            /\ IF c \notin throttled /\ ~AtLeast(runtime[c], Period) /\ Exceeds(time'[c], runtime[c])
               THEN at' = [at EXCEPT ![c] = [in |-> "balance", then |-> then]] /\ UNCHANGED <<running, curr>>
               ELSE Then(c, then, throttled)
       ELSE Then(c, then, throttled) /\ UNCHANGED time
    /\ UNCHANGED <<runtime, throttled, timer, rt_b, sysctl, masks, plug, admin>>

BalanceRuntime(c) ==
    /\ at[c].in = "balance"
    /\ runtime' = do_balance_runtime(c)
    /\ at' = [at EXCEPT ![c].in = "exceeded"]
    /\ UNCHANGED <<time, throttled, running, curr, timer, rt_b, sysctl, masks, plug, admin>>

\* sched_rt_runtime_exceeded, with rt_runtime_lock again.
RuntimeExceeded(c) ==
    /\ at[c].in = "exceeded"
    /\ throttled' = IF Exceeds(time[c], runtime[c]) /\ rt_b # 0 THEN throttled \cup {c} ELSE throttled
    /\ time' = IF Exceeds(time[c], runtime[c]) /\ rt_b = 0 THEN [time EXCEPT ![c] = 0] ELSE time
    /\ Then(c, at[c].then, throttled')
    /\ UNCHANGED <<runtime, timer, rt_b, sysctl, masks, plug, admin>>

-----------------------------------------------------------------------------
(* The period timer. *)

\* The handler goes from CPU to CPU of cpu_online_mask.
Pass(i, overrun) == [in |-> "visit", next |-> i, overrun |-> overrun, idle |-> TRUE, throttled |-> FALSE]

Expire ==
    /\ timer.in = "on"
    /\ \E overrun \in Overruns : timer' = Pass(0, overrun)
    /\ UNCHANGED <<queue, tasks, rt_b, sysctl, masks, plug, admin>>

\* rq->lock of the next CPU is taken; a throttled queue borrows first.
Visit ==
    LET c == timer.next
    IN  /\ timer.in = "visit" /\ c \in CPU
        /\ IF c \notin online THEN timer' = [timer EXCEPT !.next = @ + 1] /\ UNCHANGED runtime
           ELSE /\ RqFree(c)
                /\ timer' = [timer EXCEPT !.in = "update"]
                /\ runtime' = IF time[c] # 0 /\ c \in throttled /\ Exceeds(time[c], runtime[c])
                              THEN do_balance_runtime(c) ELSE runtime
        /\ UNCHANGED <<time, throttled, tasks, rt_b, sysctl, masks, plug, admin>>

\* Defect: the end of the throttling is decided before the time is reduced.
refill_late(t, r, overrun) ==
    [time |-> IF t < r THEN 0 ELSE t, ends |-> r = Inf \/ t < r]

\* What a period gives back, and whether that ends the throttling.
refill(t, r, overrun) ==
    LET left == IF r = Inf THEN 0 ELSE t - (IF overrun * r < t THEN overrun * r ELSE t)
    IN  [time |-> left, ends |-> r = Inf \/ left < r]

Update ==
    LET c     == timer.next
        f     == refill(time[c], runtime[c], timer.overrun)
        freed == time[c] # 0 /\ c \in throttled /\ f.ends
    IN  /\ timer.in = "update"
        /\ time' = IF time[c] # 0 THEN [time EXCEPT ![c] = f.time] ELSE time
        /\ throttled' = IF freed THEN throttled \ {c} ELSE throttled
        /\ timer' = [timer EXCEPT !.in = "visit", !.next = c + 1,
                                  !.idle = @ /\ time'[c] = 0 /\ c \notin running,
                                  !.throttled = @ \/ c \in throttled']
        /\ UNCHANGED <<runtime, tasks, rt_b, sysctl, masks, plug, admin>>

\* The handler returns, or finds that another period has gone by.
TimerEnd ==
    LET stop == timer.idle \/ (~timer.throttled /\ (~rt_bandwidth_enabled \/ rt_b = Inf))
    IN  /\ timer.in = "visit" /\ timer.next \notin CPU
        /\ \/ timer' = IF stop THEN [in |-> "off"] ELSE [in |-> "on"]
           \/ \E overrun \in Overruns : timer' = Pass(0, overrun)
        /\ UNCHANGED <<queue, tasks, rt_b, sysctl, masks, plug, admin>>

-----------------------------------------------------------------------------
(* sched_rt_handler: the value is written, given to every queue of a possible *)
(* CPU, and last to def_rt_bandwidth.                                         *)

SysctlWrite ==
    /\ admin = "sysctl" /\ sysctl.in = "no"
    /\ \E v \in Sysctls : sysctl' = [in |-> "written", value |-> v]
    /\ UNCHANGED <<queue, tasks, timer, rt_b, masks, plug, admin>>

sched_rt_global_constraints ==
    /\ sysctl.in = "written"
    /\ sysctl' = [sysctl EXCEPT !.in = "set"]
    /\ runtime' = [c \in CPU |-> sysctl.value]
    /\ UNCHANGED <<time, throttled, tasks, timer, rt_b, masks, plug, admin>>

sched_rt_handler ==
    /\ sysctl.in = "set"
    /\ sysctl' = [sysctl EXCEPT !.in = "no"]
    /\ rt_b' = sysctl.value
    /\ UNCHANGED <<queue, tasks, timer, masks, plug, admin>>

-----------------------------------------------------------------------------
(* Root domains and hotplug: notifiers in the order of their priorities. *)

Do(w, c)     == [do |-> w, cpu |-> c]
Attach(c, d) == [do |-> "attach", cpu |-> c, rd |-> d]

\* partition_sched_domains: domains that are not in new are taken down, CPU by
\* CPU, then those that are not in old are built.
partition_sched_domains(old, new) ==
    LET gone == UNION (old \ new)
        made == new \ old
    IN  [i \in 1 .. Cardinality(gone) |-> Attach(InOrder(gone)[i], {})]
        \o FlattenSeq([k \in 1 .. Cardinality(made) |->
               LET m == SetToSeq(made)[k] IN [i \in 1 .. Cardinality(m) |-> Attach(InOrder(m)[i], m)]])

Free == plug = <<>> /\ sysctl.in = "no"

\* A change of cpusets.
Repartition ==
    /\ admin = "partition" /\ Free
    /\ \E p \in Partitions \ {doms} :
          doms' = p /\ plug' = partition_sched_domains(doms, p)
    /\ UNCHANGED <<queue, tasks, timer, rt_b, sysctl, rd, online, active, rq_online, admin>>

\* CPU_DOWN_PREPARE: update_runtime, sched_cpu_inactive, cpuset_cpu_inactive;
\* then CPU_DYING, or CPU_DOWN_FAILED in the order of CPU_ONLINE.
CpuDown(d) ==
    /\ admin = "hotplug" /\ Free /\ d \in Hotplug \cap online /\ online # {d}
    /\ doms' \in {{online \ {d}}, doms}
    /\ plug' = <<Do("disable", d), Do("inactive", d)>> \o partition_sched_domains(doms, {online \ {d}})
               \o IF doms' # doms THEN <<Do("dying", d)>>
                  ELSE <<Do("active", d)>> \o partition_sched_domains({online \ {d}}, doms) \o <<Do("enable", d)>>
    /\ UNCHANGED <<queue, tasks, timer, rt_b, sysctl, rd, online, active, rq_online, admin>>

\* CPU_STARTING and CPU_ONLINE: sched_cpu_active, cpuset_cpu_active,
\* migration_call and update_runtime.
CpuUp(d) ==
    /\ admin = "hotplug" /\ Free /\ d \notin online
    /\ doms' = {online \cup {d}}
    /\ online' = online \cup {d}
    /\ plug' = <<Do("active", d)>> \o partition_sched_domains(doms, doms') \o <<Do("online", d), Do("enable", d)>>
    /\ UNCHANGED <<queue, tasks, timer, rt_b, sysctl, rd, active, rq_online, admin>>

\* rq_attach_root leaves the old root domain and joins the new one.
rq_attach_root(c, d) ==
    /\ rd' = [rd EXCEPT ![c] = d]
    /\ LET left == IF c \in rq_online THEN [Reclaimed(c).runtime EXCEPT ![c] = Inf] ELSE runtime
       IN  IF c \in active
           THEN /\ runtime' = [left EXCEPT ![c] = rt_b]
                /\ time' = [time EXCEPT ![c] = 0]
                /\ throttled' = throttled \ {c}
           ELSE runtime' = left /\ UNCHANGED <<time, throttled>>
    /\ rq_online' = IF c \in active THEN rq_online \cup {c} ELSE rq_online \ {c}
    /\ UNCHANGED <<online, active, tasks>>

\* migrate_tasks finds no thread of a throttled queue: then it does not end.
CpuDying(c) ==
    /\ rq_online' = rq_online \ {c}
    /\ IF c \in rq_online THEN __disable_runtime(c) ELSE UNCHANGED queue
    /\ c \notin throttled' \cap running
    /\ online' = online \ {c}
    /\ running' = running \ {c} /\ curr' = curr \ {c}
    /\ UNCHANGED <<rd, active, at>>

PlugStep ==
    /\ plug # <<>> /\ plug' = Tail(plug)
    /\ LET op == Head(plug)
           c  == op.cpu
       IN  /\ RqFree(c)
           /\ \/ op.do = "attach" /\ rq_attach_root(c, op.rd)
              \/ op.do = "disable" /\ __disable_runtime(c) /\ UNCHANGED <<rd, online, active, rq_online, tasks>>
              \/ op.do = "enable" /\ __enable_runtime(c) /\ UNCHANGED <<rd, online, active, rq_online, tasks>>
              \/ op.do = "inactive" /\ active' = active \ {c} /\ UNCHANGED <<queue, rd, online, rq_online, tasks>>
              \/ op.do = "active" /\ active' = active \cup {c} /\ UNCHANGED <<queue, rd, online, rq_online, tasks>>
              \/ /\ op.do = "online"
                 /\ rq_online' = rq_online \cup {c}
                 /\ IF c \in rq_online THEN UNCHANGED queue ELSE __enable_runtime(c)
                 /\ UNCHANGED <<rd, online, active, tasks>>
              \/ op.do = "dying" /\ CpuDying(c)
    /\ UNCHANGED <<timer, rt_b, sysctl, doms, admin>>

-----------------------------------------------------------------------------
Init ==
    /\ runtime = [c \in CPU |-> Runtime]
    /\ time = [c \in CPU |-> 0]
    /\ throttled = {} /\ running = {} /\ curr = {}
    /\ at = [c \in CPU |-> Idle]
    /\ timer = [in |-> "off"]
    /\ rt_b = Runtime
    /\ sysctl = [in |-> "no", value |-> Runtime]
    /\ doms = {CPU} /\ rd = [c \in CPU |-> CPU]
    /\ online = CPU /\ active = CPU /\ rq_online = CPU
    /\ plug = <<>>
    /\ admin \in Admins

Handler(c) == BalanceRuntime(c) \/ RuntimeExceeded(c)
Timer      == Expire \/ Visit \/ Update \/ TimerEnd

Next ==
    \/ \E c \in CPU : \/ Enqueue(c) \/ PickNext(c) \/ Dequeue(c) \/ Handler(c)
                      \/ \E delta \in Deltas, then \in {"run", "dequeue"} : UpdateCurr(c, delta, then)
    \/ Timer
    \/ SysctlWrite \/ sched_rt_global_constraints \/ sched_rt_handler
    \/ Repartition \/ PlugStep
    \/ \E d \in CPU : CpuDown(d) \/ CpuUp(d)

Spec == Init /\ [][Next]_vars

\* Interrupts arrive and handlers that spin for a lock get it.
FairSpec == Spec /\ SF_vars(Timer) /\ \A c \in CPU : WF_vars(Handler(c))

-----------------------------------------------------------------------------
\* The variables have their types, and only online CPUs run threads.
TypeOK ==
    /\ runtime \in [CPU -> Nat \cup {Inf}] /\ time \in [CPU -> 0 .. TimeMax]
    /\ throttled \subseteq CPU /\ running \subseteq online /\ curr \subseteq running
    /\ at \in [CPU -> {Idle} \cup [in : {"balance", "exceeded"}, then : {"run", "dequeue"}]]
    /\ timer \in {[in |-> "off"], [in |-> "on"]}
                 \cup [in : {"visit", "update"}, next : CPU \cup {Cardinality(CPU)}, overrun : Overruns,
                       idle : BOOLEAN, throttled : BOOLEAN]
    /\ rt_b \in Nat \cup {Inf}
    /\ active \subseteq online /\ rq_online \subseteq CPU /\ online \subseteq CPU

\* The runtime the queues of a root domain have together is what they were
\* given: lending and taking back move it, none is made and none is lost.
Conserved ==
    admin # "hotplug" /\ sysctl.in = "no" =>
        \A c \in CPU :
           LET enabled == {d \in span(c) : runtime[d] # Inf}
           IN  SumFunctionOnSet(runtime, enabled) = rt_b * Cardinality(enabled)

\* While the timer runs a throttled queue gets to run again: borrowing,
\* lending and repartitioning never leave it without runtime.
ThrottleEnds ==
    \A c \in CPU : c \in throttled \cap online /\ timer.in # "off" ~> c \notin throttled \cap online \/ timer.in = "off"

\* __disable_runtime: "We cannot be left wanting - that would mean some runtime
\* leaked out of the system."
NotLeftWanting ==
    \A c \in CPU :
       LET disables == {"disable"} \cup IF c \in rq_online THEN {"attach", "dying"} ELSE {}
       IN  plug # <<>> /\ Head(plug).cpu = c /\ Head(plug).do \in disables /\ RqFree(c) => Reclaimed(c).want = 0
=============================================================================
