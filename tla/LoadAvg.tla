------------------------------- MODULE LoadAvg -------------------------------
(***************************************************************************)
(* The global load average of kernel/core.c: the per-CPU deltas, the two   *)
(* idle counters of NO_HZ, and the windows in which avenrun is computed    *)
(* (LoadDecay has the averages themselves).                                *)
(*                                                                         *)
(* Times are relative to the global calc_load_update: now is jiffies and   *)
(* update[c] the calc_load_update of a run queue, minus it.  A step is one *)
(* atomic operation on what CPUs share, or what runs under rq->lock.       *)
(***************************************************************************)
EXTENDS LoadDecay, FiniteSets, Functions

CONSTANTS
    CPU,
    Threads,    \* how many threads there are
    Drift,      \* the bound on a queue's nr_uninterruptible, up and down
    Freq,       \* LOAD_FREQ
    Window,     \* the ticks a CPU has to fold its delta, 10 in the code
    Jumps,      \* how many jiffies are made up for after all CPUs were idle
    Events,     \* the bound on events
    Hotplug     \* the CPUs that may be unplugged

ASSUME LoadAssumption ==
    /\ IsFiniteSet(CPU) /\ Hotplug \subseteq CPU
    /\ Threads \in Nat /\ Events \in Nat /\ Drift \in Nat /\ Window \in Nat \ {0} /\ Freq \in Nat /\ Window < Freq
    /\ Jumps \subseteq Nat

VARIABLES
    running,    \* rq->nr_running
    blocked,    \* rq->nr_uninterruptible, of which only the sum means anything
    folded,     \* rq->calc_load_active: what the queue last contributed
    update,     \* rq->calc_load_update
    nohz,       \* the CPUs whose tick is stopped
    ticked,     \* the CPUs that have had the tick of this jiffy
    at,         \* what a CPU does with a delta it has taken
    online,
    now,        \* jiffies
    tasks,      \* calc_load_tasks
    idle,       \* calc_load_idle
    idx,        \* calc_load_idx, modulo 2
    global,     \* how far calc_global_load is
    events      \* how often a thread has started or a CPU has come up: a bound

rqs     == <<running, blocked, folded, update>>
shared  == <<tasks, idle, idx>>
vars    == <<rqs, nohz, ticked, at, online, now, shared, global, events>>

Run       == [in |-> "run"]

nr_active(c) == running[c] + blocked[c]
Sum(f)       == SumFunctionOnSet(f, CPU)

-----------------------------------------------------------------------------
(* Threads. *)

Enqueue(c) ==
    /\ events < Events /\ events' = events + 1
    /\ c \in online /\ at[c] = Run
    /\ Sum(running) + Sum(blocked) < Threads
    /\ running' = [running EXCEPT ![c] = @ + 1]
    /\ UNCHANGED <<blocked, folded, update, nohz, ticked, at, online, now, shared, global>>

\* deactivate_task, of a thread that sleeps uninterruptibly or not.
deactivate_task(c, contributes) ==
    /\ c \in online \ nohz /\ at[c] = Run /\ running[c] > 0
    /\ contributes => blocked[c] < Drift
    /\ running' = [running EXCEPT ![c] = @ - 1]
    /\ blocked' = [blocked EXCEPT ![c] = IF contributes THEN @ + 1 ELSE @]
    /\ UNCHANGED <<folded, update, nohz, ticked, at, online, now, shared, global, events>>

\* ttwu_do_activate counts down on the CPU the thread is woken on.
ttwu_do_activate(c) ==
    /\ events < Events /\ events' = events + 1
    /\ c \in online /\ at[c] = Run /\ Sum(blocked) > 0 /\ blocked[c] > -Drift
    /\ running' = [running EXCEPT ![c] = @ + 1]
    /\ blocked' = [blocked EXCEPT ![c] = @ - 1]
    /\ UNCHANGED <<folded, update, nohz, ticked, at, online, now, shared, global>>

-----------------------------------------------------------------------------
(* The delta of a CPU. *)

\* The delta since the CPU last folded.
calc_load_fold_active(c) == nr_active(c) - folded[c]

\* The tick: nobody else reads folded, so folding and adding are one step.
calc_load_account_active(c) ==
    /\ c \in online \ (nohz \cup ticked) /\ at[c] = Run /\ now >= update[c]
    /\ ticked' = ticked \cup {c}
    /\ tasks' = tasks + calc_load_fold_active(c)
    /\ folded' = [folded EXCEPT ![c] = nr_active(c)]
    /\ update' = [update EXCEPT ![c] = @ + Freq]
    /\ UNCHANGED <<running, blocked, nohz, at, online, now, idle, idx, global, events>>

\* Defect: an idle CPU keeps its delta to itself until it ticks again.
enter_without_fold(c) ==
    /\ c \in online \ nohz /\ at[c] = Run /\ running[c] = 0
    /\ nohz' = nohz \cup {c}
    /\ UNCHANGED <<rqs, ticked, at, online, now, shared, global, events>>

\* Which counter to add to, from the index and the time, read without a lock.
calc_load_write_idx == IF now < 0 THEN idx ELSE 1 - idx

\* The tick is stopped on an idle CPU.
calc_load_enter_idle(c) ==
    /\ c \in online \ nohz /\ at[c] = Run /\ running[c] = 0
    /\ nohz' = nohz \cup {c}
    /\ folded' = [folded EXCEPT ![c] = nr_active(c)]
    /\ at' = IF calc_load_fold_active(c) = 0 THEN at
             ELSE [at EXCEPT ![c] = [in |-> "add", delta |-> calc_load_fold_active(c), idx |-> calc_load_write_idx]]
    /\ UNCHANGED <<running, blocked, update, ticked, online, now, shared, global, events>>

AddIdle(c) ==
    /\ at[c].in = "add"
    /\ idle' = [idle EXCEPT ![at[c].idx] = @ + at[c].delta]
    /\ at' = [at EXCEPT ![c] = Run]
    /\ UNCHANGED <<rqs, nohz, ticked, online, now, tasks, idx, global, events>>

\* Defect: the tick starts again two windows on.
exit_late(c) ==
    /\ c \in nohz /\ at[c] = Run
    /\ nohz' = nohz \ {c}
    /\ update' = IF now < update[c] THEN update ELSE [update EXCEPT ![c] = 2 * Freq]
    /\ UNCHANGED <<running, blocked, folded, ticked, at, online, now, shared, global, events>>

\* The tick starts again; a CPU that missed its sample skips it.
calc_load_exit_idle(c) ==
    /\ c \in nohz /\ at[c] = Run
    /\ nohz' = nohz \ {c}
    /\ update' = IF now < update[c] THEN update ELSE [update EXCEPT ![c] = IF now < Window THEN Freq ELSE 0]
    /\ UNCHANGED <<running, blocked, folded, ticked, at, online, now, shared, global, events>>

-----------------------------------------------------------------------------
(* do_timer and calc_global_load, on the CPU that keeps the time. *)

\* Every CPU that ticks folds within a period: the bound on IRQ latency.
DoTimer ==
    /\ global = [in |-> "no"] /\ online # {}
    /\ \E n \in IF nohz = online THEN Jumps ELSE {1} :
          /\ \A c \in online \ (nohz \cup ticked) : now + n - update[c] < Freq
          /\ now' = now + n
    /\ ticked' = {}
    /\ global' = IF now' < Window THEN global ELSE [in |-> "fold"]
    /\ UNCHANGED <<rqs, nohz, at, online, shared, events>>

\* Defect: the old idle counter is read and not reset.
fold_idle_again ==
    /\ global.in = "fold"
    /\ global' = [in |-> "add", delta |-> idle[idx]]
    /\ UNCHANGED <<rqs, nohz, ticked, at, online, now, shared, events>>

calc_load_fold_idle ==
    /\ global.in = "fold"
    /\ global' = [in |-> "add", delta |-> idle[idx]]
    /\ idle' = [idle EXCEPT ![idx] = 0]
    /\ UNCHANGED <<rqs, nohz, ticked, at, online, now, tasks, idx, events>>

\* The global calc_load_update moves by d: all that is relative to it moves back.
Advance(d) ==
    /\ now' = now - d
    /\ update' = [c \in CPU |-> IF c \in online \ nohz \/ update[c] - d > -Freq THEN update[c] - d ELSE -Freq]

\* calc_global_load: what idle CPUs left is added and avenrun computed.
Average ==
    /\ global.in = "add"
    /\ tasks' = tasks + global.delta
    /\ Advance(Freq)
    /\ global' = [in |-> "catchup"]
    /\ UNCHANGED <<running, blocked, folded, nohz, ticked, at, online, idle, idx, events>>

\* calc_global_nohz catches up with the windows that were missed ...
CatchUp ==
    /\ global.in = "catchup"
    /\ IF now < Window THEN UNCHANGED <<now, update>> ELSE Advance(Freq * (1 + (now - Window) \div Freq))
    /\ global' = [in |-> "flip"]
    /\ UNCHANGED <<running, blocked, folded, nohz, ticked, at, online, shared, events>>

\* ... and flips the index last.
Flip ==
    /\ global.in = "flip"
    /\ idx' = 1 - idx
    /\ global' = [in |-> "no"]
    /\ UNCHANGED <<rqs, nohz, ticked, at, online, now, tasks, idle, events>>

-----------------------------------------------------------------------------
(* Hotplug: CPU_DYING runs with every CPU in its stopper. *)

CpuDying(d) ==
    /\ d \in Hotplug \cap online /\ nohz = {}
    /\ \A c \in CPU : at[c] = Run
    /\ \E to \in online \ {d} :
          /\ blocked[to] + blocked[d] \in -Drift .. Drift
          /\ running' = [running EXCEPT ![d] = 0, ![to] = @ + running[d]]
          /\ blocked' = [blocked EXCEPT ![d] = 0, ![to] = @ + blocked[d]]
    /\ tasks' = tasks - folded[d]
    /\ folded' = [folded EXCEPT ![d] = 0]
    /\ online' = online \ {d}
    /\ UNCHANGED <<update, nohz, ticked, at, now, idle, idx, global, events>>

CpuUp(d) ==
    /\ events < Events /\ events' = events + 1
    /\ d \in CPU \ online
    /\ online' = online \cup {d}
    /\ update' = [update EXCEPT ![d] = 0]
    /\ UNCHANGED <<running, blocked, folded, nohz, ticked, at, now, shared, global>>

-----------------------------------------------------------------------------
Init ==
    /\ running = [c \in CPU |-> 0] /\ blocked = [c \in CPU |-> 0] /\ folded = [c \in CPU |-> 0]
    /\ update = [c \in CPU |-> 0]
    /\ nohz = {} /\ ticked = {} /\ online = CPU
    /\ at = [c \in CPU |-> Run]
    /\ now = -1
    /\ tasks = 0 /\ idle = [i \in {0, 1} |-> 0] /\ idx = 0
    /\ global = [in |-> "no"]
    /\ events = 0

ThreadStep == \E c \in CPU : Enqueue(c) \/ ttwu_do_activate(c) \/ \E s \in BOOLEAN : deactivate_task(c, s)
CpuStep(c) == calc_load_account_active(c) \/ AddIdle(c)
Global     == DoTimer \/ calc_load_fold_idle \/ Average \/ CatchUp \/ Flip
HotplugStep == \E d \in CPU : CpuDying(d) \/ CpuUp(d)

Next ==
    \/ ThreadStep \/ HotplugStep \/ Global
    \/ \E c \in CPU : CpuStep(c) \/ calc_load_enter_idle(c) \/ calc_load_exit_idle(c)

Spec == Init /\ [][Next]_vars

\* The clock goes on, CPUs tick, and one with threads to run leaves NO_HZ.
FairSpec ==
    /\ Spec /\ WF_vars(Global)
    /\ \A c \in CPU : WF_vars(CpuStep(c)) /\ WF_vars(running[c] > 0 /\ calc_load_exit_idle(c))

-----------------------------------------------------------------------------
\* Every delta is in exactly one place, however late it comes, wherever CPUs
\* go idle, wake or die: "being late doesn't loose the delta".
NothingLost ==
    LET inHand(c) == IF at[c] = Run THEN 0 ELSE at[c].delta
    IN  tasks + idle[0] + idle[1] + Sum([c \in CPU |-> inHand(c)]) + (IF global.in = "add" THEN global.delta ELSE 0)
            = Sum(folded)

\* A CPU that ticks skips one sample at most.
SkipsAtMostOne == global.in = "no" => \A c \in online \ nohz : update[c] <= Freq

\* What a CPU missed while its tick was stopped leaves no mark on the averages:
\* decay_load_missed and calc_load_n give what one update for each tick or
\* window would have given, but for rounding, and the ticks that follow bring
\* cpu_load all the way to a load that stays (update_cpu_load).
IdleLeavesNoMark == nohz # {} => DecayIsClose /\ CatchUpIsClose /\ LoadSettles

\* When no thread starts or stops any more, the deltas all arrive, those of
\* CPUs that stay in NO_HZ too.
AllArrives == <>[](tasks = Sum(running) + Sum(blocked))
=============================================================================
