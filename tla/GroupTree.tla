------------------------------- MODULE GroupTree -------------------------------
(* The tree of task groups (kernel/core.c): groups are created and destroyed *)
(* under task_group_lock while a write to cpu.rt_runtime_us,                 *)
(* cpu.cfs_quota_us (and the _period_us files) or to the sched_rt_* sysctls  *)
(* walks the tree under RCU and a mutex, to check that the new bandwidth     *)
(* fits those above and below it.                                            *)
(*                                                                           *)
(* The children of a group are a list: first[g], then next[g].  list_del_rcu *)
(* leaves the next pointer of the entry it takes out.  A bandwidth is a pair *)
(* <<period, runtime>> of small numbers.                                     *)
EXTENDS Integers, FiniteSets, Functions

CONSTANTS
    Group, Root,    \* struct task_groups below the root (numbers); root_task_group
    None,           \* NULL, or the head of a list
    Task,           \* threads that may have a real-time policy
    Sysctls,        \* what is written to the sysctls
    Cases,          \* bounds on a behaviour: the files it writes and with what, what
                    \* else it does ("sysctl", "attach", "destroy"), and the
                    \* groups it creates
    Inf,            \* RUNTIME_INF
    Unit            \* 1 << 20, the ratio of an unlimited runtime

ASSUME NameAssumption  == Root \notin Group /\ None \notin Group \union {Root}
ASSUME GroupAssumption == IsFiniteSet(Group)
\* The files take no period of 0 (-EINVAL).  RUNTIME_INF, which is -1 in an
\* s64, is no runtime that is small, and no ratio.
ASSUME BandwidthAssumption ==
    /\ \A c \in Cases : \A b \in c.shares : b \in (Nat \ {0}) \X (Nat \union {Inf})
    /\ \A b \in Sysctls : b \in Nat \X (Nat \union {Inf})
    /\ None \notin Nat \X (Nat \union {Inf})
    /\ Unit \in Nat /\ Inf \notin Nat

VARIABLES
    bounds,         \* of Cases
    mem,            \* [Group -> "free", "linked", "unlinked" (call_rcu)]
    parent, first, next,
    readers,        \* [Group -> the walks that were on when it was unlinked]
    rt, cfs,        \* [Group -> the bandwidths]
    hierarchal_quota,
    sysctl, saved,  \* sysctl_sched_rt_*; old_* of sched_rt_handler or None
    def_period,     \* def_rt_bandwidth.rt_period
    pending,        \* ["rt", "cfs" -> <<group, bandwidth>> of a write of one half that
                    \* has read the other and waits for the mutex, or None]
    walk,           \* ["rt", "cfs" -> the walk under rt_, cfs_constraints_mutex]
    tg,             \* [Task -> sched_task_group]
    rt_task,        \* the threads with a real-time policy
    attaching       \* <<thread, group>> between can_attach and attach, or None

tree == <<mem, parent, first, next, readers>>
bandwidths == <<rt, cfs, hierarchal_quota>>
limits == <<sysctl, saved, def_period>>
tasks == <<tg, rt_task, attaching>>
vars == <<bounds, tree, bandwidths, limits, pending, walk, tasks>>

Node == Group \union {Root}
Linked == {g \in Group : mem[g] = "linked"}
Children(g) == {c \in Linked : parent[c] = g}

-----------------------------------------------------------------------------
(* Creation and destruction. *)

\* The address does not matter: as a bound, the first one that is free.
kzalloc(g) ==
    /\ g \in bounds.groups /\ mem[g] = "free"
    /\ \A h \in bounds.groups : mem[h] = "free" => g <= h

\* sched_create_group; list_add_rcu puts the group first.
Create(g, up) ==
    /\ kzalloc(g)
    /\ up \in Linked \union {Root}
    /\ mem' = [mem EXCEPT ![g] = "linked"]
    /\ parent' = [parent EXCEPT ![g] = up]
    /\ next' = [next EXCEPT ![g] = first[up]]
    /\ first' = [first EXCEPT ![g] = None, ![up] = g]
    /\ rt' = [rt EXCEPT ![g] = <<def_period, 0>>]
    /\ cfs' = [cfs EXCEPT ![g] = <<1, Inf>>]
    /\ hierarchal_quota' = [hierarchal_quota EXCEPT ![g] = 0]
    /\ UNCHANGED <<bounds, readers, limits, pending, walk, tasks>>

Walking == {w \in {"rt", "cfs"} : walk[w].at # None}

\* What call_rcu waits for.
\* Defect: nothing.
wait_for_none == {}
wait_for_readers == Walking

\* sched_destroy_group, called when nothing uses the cgroup any more: no child,
\* no thread and no open file (kernel/cgroup.c).
Destroy(g) ==
    /\ "destroy" \in bounds.ops
    /\ g \in Linked
    /\ Children(g) = {}
    /\ \A p \in Task : tg[p] # g
    /\ (attaching # None => attaching[2] # g)
    /\ \A w \in Walking : walk[w].tg # g
    /\ \A w \in {"rt", "cfs"} : pending[w] # None => pending[w][1] # g
    /\ mem' = [mem EXCEPT ![g] = "unlinked"]
    /\ IF first[parent[g]] = g
       THEN first' = [first EXCEPT ![parent[g]] = next[g]] /\ UNCHANGED next
       ELSE /\ next' = [c \in Group |-> IF c \in Linked /\ next[c] = g THEN next[g] ELSE next[c]]
            /\ UNCHANGED first
    /\ readers' = [readers EXCEPT ![g] = wait_for_readers]
    /\ UNCHANGED <<bounds, parent, bandwidths, limits, pending, walk, tasks>>

\* free_sched_group_rcu
FreeRcu(g) ==
    /\ mem[g] = "unlinked"
    /\ readers[g] = {}
    /\ mem' = [mem EXCEPT ![g] = "free"]
    /\ parent' = [parent EXCEPT ![g] = Root]
    /\ next' = [next EXCEPT ![g] = None]
    /\ first' = [first EXCEPT ![g] = None]
    /\ rt' = [rt EXCEPT ![g] = <<1, 0>>]
    /\ cfs' = [cfs EXCEPT ![g] = <<1, Inf>>]
    /\ hierarchal_quota' = [hierarchal_quota EXCEPT ![g] = 0]
    /\ UNCHANGED <<bounds, readers, limits, pending, walk, tasks>>

-----------------------------------------------------------------------------
(* The checks. *)

idle == [at |-> None, up |-> FALSE, tg |-> None, new |-> <<1, 0>>]
walk_tg_tree(g, new) == [at |-> Root, up |-> FALSE, tg |-> g, new |-> new]

\* A division by 0 gives 0 on ARM (__do_div64), after a message.
to_ratio(b) ==
    IF b[2] = Inf THEN Unit
    ELSE IF b[1] = 0 THEN 0 ELSE (b[2] * Unit) \div b[1]
valid(b) == b[2] = Inf \/ b[2] <= b[1]
rt_bandwidth_enabled == sysctl[2] # Inf

\* task_rq(p)->rt is the run queue of the CPU, so its group is always the root.
tg_has_rt_tasks(g) == g = Root /\ rt_task # {}

\* With the bandwidths r, what the children of a group have in all.
sum_of_children(r, g) == SumFunctionOnSet([c \in Node |-> to_ratio(r[c])], Children(g))

\* The bandwidths as the walk would have them.
proposed(w) == [g \in Node |-> IF g = w.tg THEN w.new ELSE rt[g]]

\* Defect: the children are taken as they are.
children_as_they_are(g, w) == to_ratio(proposed(w)[g]) >= sum_of_children(rt, g)

children_fit(g, w) == to_ratio(proposed(w)[g]) >= sum_of_children(proposed(w), g)

tg_rt_schedulable(g, w) ==
    LET b == proposed(w)[g]
    IN  /\ valid(b)
        /\ ~(rt_bandwidth_enabled /\ b[2] = 0 /\ tg_has_rt_tasks(g))
        /\ to_ratio(b) <= to_ratio(sysctl)
        /\ children_fit(g, w)

normalize_cfs_quota(g, w) ==
    LET b == IF g = w.tg THEN w.new ELSE cfs[g]
    IN  IF b[2] = Inf THEN Inf ELSE to_ratio(b)

\* Defect: a group without a limit does not pass on the one above it.
no_inheritance(quota, above) == quota
inherited(quota, above) == IF quota = Inf THEN above ELSE quota

\* The quota a group has in effect, and whether it is more than its parent's.
effective_quota(g, w) ==
    IF g = Root THEN Inf
    ELSE inherited(normalize_cfs_quota(g, w), hierarchal_quota[parent[g]])

tg_cfs_schedulable_down(g, w) ==
    g # Root =>
        LET above == hierarchal_quota[parent[g]]
            quota == normalize_cfs_quota(g, w)
        IN  quota = Inf \/ above = Inf \/ quota <= above

-----------------------------------------------------------------------------
(* walk_tg_tree_from, a group at a time. *)

\* The group after g in the walk: its first child, its next sibling, or up.
\* Defect: goto down where the code has goto up.
walk_down_again(w, g, child) ==
    CASE child # None -> [w EXCEPT !.at = child, !.up = FALSE]
      [] child = None /\ g = Root -> idle
      [] child = None /\ g # Root /\ next[g] # None -> [w EXCEPT !.at = next[g], !.up = FALSE]
      [] OTHER -> [w EXCEPT !.at = parent[g], !.up = FALSE]

walk_on(w, g, child) ==
    CASE child # None -> [w EXCEPT !.at = child, !.up = FALSE]
      [] child = None /\ g = Root -> idle
      [] child = None /\ g # Root /\ next[g] # None -> [w EXCEPT !.at = next[g], !.up = FALSE]
      [] OTHER -> [w EXCEPT !.at = parent[g], !.up = TRUE]

\* rcu_read_unlock
Ends(name) == readers' = [g \in Group |-> readers[g] \ {name}]

Moves(name) ==
    LET w == walk[name]
        on == walk_on(w, w.at, IF w.up THEN None ELSE first[w.at])
    IN  /\ walk' = [walk EXCEPT ![name] = on]
        /\ IF on = idle THEN Ends(name) ELSE UNCHANGED readers

Stops(name) == walk' = [walk EXCEPT ![name] = idle] /\ Ends(name)

Sysctl(w) == w.tg = None

\* A step of __rt_schedulable; then tg_set_rt_bandwidth or sched_rt_handler
\* stores what was asked, or the latter puts back the old values.
RtWalk ==
    LET w  == walk["rt"]
        ok == w.up \/ tg_rt_schedulable(w.at, w)
    IN  /\ w.at # None
        /\ IF ok THEN Moves("rt") ELSE Stops("rt")
        /\ IF walk'["rt"] # idle THEN UNCHANGED <<rt, limits>>
           ELSE IF Sysctl(w)
           THEN /\ sysctl' = IF ok THEN sysctl ELSE saved
                /\ def_period' = IF ok THEN sysctl[1] ELSE def_period
                /\ saved' = None
                /\ UNCHANGED rt
           ELSE /\ rt' = IF ok THEN [rt EXCEPT ![w.tg] = w.new] ELSE rt
                /\ UNCHANGED limits
        /\ UNCHANGED <<bounds, mem, parent, first, next, cfs, hierarchal_quota, pending, tasks>>

\* A step of __cfs_schedulable, and the end of tg_set_cfs_bandwidth.
CfsWalk ==
    LET w  == walk["cfs"]
        ok == w.up \/ tg_cfs_schedulable_down(w.at, w)
    IN  /\ w.at # None
        /\ IF ok THEN Moves("cfs") ELSE Stops("cfs")
        /\ hierarchal_quota' =
              IF ok /\ ~w.up THEN [hierarchal_quota EXCEPT ![w.at] = effective_quota(w.at, w)]
              ELSE hierarchal_quota
        /\ cfs' = IF ok /\ walk'["cfs"] = idle THEN [cfs EXCEPT ![w.tg] = w.new] ELSE cfs
        /\ UNCHANGED <<bounds, mem, parent, first, next, rt, limits, pending, tasks>>

-----------------------------------------------------------------------------
(* The writes. *)

\* A write of one half of a bandwidth reads the other before it waits for the
\* mutex: when it has it, old may be gone.  As a bound, one write waits at a time.
waits_for_mutex(name, g, b, old) ==
    /\ pending[name] = None
    /\ b[1] = old[1] \/ b[2] = old[2]
    /\ pending' = [pending EXCEPT ![name] = <<g, b>>]
    /\ UNCHANGED <<bounds, tree, bandwidths, limits, walk, tasks>>

mutex_lock(name) ==
    /\ pending[name] # None
    /\ walk[name] = idle
    /\ walk' = [walk EXCEPT ![name] = walk_tg_tree(pending[name][1], pending[name][2])]
    /\ pending' = [pending EXCEPT ![name] = None]
    /\ UNCHANGED <<bounds, tree, bandwidths, limits, tasks>>

\* sched_group_set_rt_runtime and sched_group_set_rt_period.
WriteRt(g, b) ==
    /\ "rt" \in bounds.ops
    /\ g \in Linked \union {Root}
    /\ waits_for_mutex("rt", g, b, rt[g])

tg_set_rt_bandwidth == mutex_lock("rt")

\* tg_set_cfs_quota and tg_set_cfs_period; the root and a quota under the
\* smallest one are refused.
WriteCfs(g, b) ==
    /\ "cfs" \in bounds.ops
    /\ g \in Linked
    /\ b[2] # 0
    /\ waits_for_mutex("cfs", g, b, cfs[g])

tg_set_cfs_bandwidth == mutex_lock("cfs")

\* sched_rt_handler: the values are in place before they are checked.  As a
\* bound, one that changes nothing is not written.
WriteSysctl(b) ==
    /\ "sysctl" \in bounds.ops
    /\ saved = None
    /\ b # sysctl /\ (b[1] = sysctl[1] \/ b[2] = sysctl[2])
    /\ saved' = sysctl
    /\ sysctl' = b
    /\ UNCHANGED <<bounds, tree, bandwidths, def_period, pending, walk, tasks>>

\* sched_rt_global_constraints
CheckSysctl ==
    /\ saved # None
    /\ ~ (walk["rt"].at # None /\ Sysctl(walk["rt"]))
    /\ IF sysctl[1] > 0 /\ valid(sysctl)
       THEN /\ walk["rt"] = idle
            /\ walk' = [walk EXCEPT !["rt"] = walk_tg_tree(None, <<1, 0>>)]
            /\ UNCHANGED limits
       ELSE sysctl' = saved /\ saved' = None /\ UNCHANGED <<def_period, walk>>
    /\ UNCHANGED <<bounds, tree, bandwidths, pending, tasks>>

-----------------------------------------------------------------------------
(* Threads. *)

\* sched_rt_can_attach
CanAttach(p, g) ==
    /\ "attach" \in bounds.ops
    /\ attaching = None
    /\ g \in Linked \union {Root}
    /\ g # tg[p]
    /\ ~(p \in rt_task /\ rt[g][2] = 0)
    /\ attaching' = <<p, g>>
    /\ UNCHANGED <<bounds, tree, bandwidths, limits, pending, walk, tg, rt_task>>

\* cpu_cgroup_attach
Attach ==
    /\ attaching # None
    /\ tg' = [tg EXCEPT ![attaching[1]] = attaching[2]]
    /\ attaching' = None
    /\ UNCHANGED <<bounds, tree, bandwidths, limits, pending, walk, rt_task>>

\* __sched_setscheduler to and from a real-time policy.
SetPolicy(p) ==
    /\ "attach" \in bounds.ops
    /\ \/ /\ p \in rt_task
          /\ rt_task' = rt_task \ {p}
       \/ /\ p \notin rt_task
          /\ ~(rt_bandwidth_enabled /\ rt[tg[p]][2] = 0)
          /\ rt_task' = rt_task \union {p}
    /\ UNCHANGED <<bounds, tree, bandwidths, limits, pending, walk, tg, attaching>>

-----------------------------------------------------------------------------
Init ==
    /\ bounds \in Cases
    /\ mem = [g \in Group |-> "free"]
    /\ parent = [g \in Group |-> Root]
    /\ first = [g \in Node |-> None]
    /\ next = [g \in Group |-> None]
    /\ readers = [g \in Group |-> {}]
    /\ sysctl \in {b \in Sysctls : b[1] > 0 /\ valid(b)}
    /\ rt = [g \in Node |-> IF g = Root THEN sysctl ELSE <<1, 0>>]
    /\ cfs = [g \in Node |-> <<1, Inf>>]
    /\ hierarchal_quota = [g \in Node |-> 0]
    /\ saved = None
    /\ def_period = sysctl[1]
    /\ pending = [w \in {"rt", "cfs"} |-> None]
    /\ walk = [w \in {"rt", "cfs"} |-> idle]
    /\ tg = [p \in Task |-> Root]
    /\ rt_task = {}
    /\ attaching = None

Walks == RtWalk \/ CfsWalk

Next ==
    \/ \E g \in Group :
          \/ \E up \in Node : Create(g, up)
          \/ Destroy(g)
          \/ FreeRcu(g)
    \/ RtWalk
    \/ CfsWalk
    \/ \E b \in bounds.shares :
          \/ \E g \in Node : WriteRt(g, b)
          \/ \E g \in Group : WriteCfs(g, b)
    \/ tg_set_rt_bandwidth
    \/ tg_set_cfs_bandwidth
    \/ \E b \in Sysctls : WriteSysctl(b)
    \/ CheckSysctl
    \/ \E p \in Task :
          \/ \E g \in Node : CanAttach(p, g)
          \/ SetPolicy(p)
    \/ Attach

Spec == Init /\ [][Next]_vars

\* A writer that walks the tree goes on.
FairSpec == Spec /\ WF_vars(Walks)

-----------------------------------------------------------------------------
\* A walk never stands on a group that is freed, nor does it go up or on to one
\* (call_rcu of sched_destroy_group, list_del_rcu).
WalksAllocated ==
    \A w \in Walking :
        /\ {walk[w].at, walk[w].tg} \intersect {g \in Group : mem[g] = "free"} = {}
        /\ walk[w].at # Root =>
              \A g \in {parent[walk[w].at], next[walk[w].at]} \intersect Group : mem[g] # "free"

\* "The sum of our children's runtime should not exceed our own", at any moment
\* and of groups created and destroyed during the checks.
RtSumsFit ==
    \A g \in Linked \union {Root} :
        sum_of_children(rt, g) <= to_ratio(rt[g])

\* The least set with the parent of g and, but for the root, of each in it.
Ancestors(g) ==
    {a \in Node : \A S \in SUBSET Node :
                     parent[g] \in S /\ (\A s \in S \ {Root} : parent[s] \in S) => a \in S}

\* A group never has more of the CPU than any group it is in, also where groups
\* without a limit lie between (hierarchal_quota).
QuotasFit ==
    \A g \in Linked : \A a \in Ancestors(g) :
        cfs[g][2] # Inf /\ cfs[a][2] # Inf => to_ratio(cfs[g]) <= to_ratio(cfs[a])

\* Every walk ends, whatever groups come and go beside it (walk_tg_tree_from).
WalksEnd == \A w \in {"rt", "cfs"} : walk[w].at # None ~> walk[w].at = None

\* "Ensure we don't starve existing RT tasks."  The code does not keep it:
\* tg_has_rt_tasks finds the tasks of the root group only.
RtTasksHaveRuntime ==
    rt_bandwidth_enabled => \A p \in rt_task : rt[tg[p]][2] # 0

\* "Nobody can have more than the global setting allows."  The code does not
\* keep it: sched_rt_handler stores the setting before it checks it.
WithinGlobal == \A g \in Linked \union {Root} : saved = None => to_ratio(rt[g]) <= to_ratio(sysctl)
=============================================================================
