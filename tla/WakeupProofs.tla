---------------------------- MODULE WakeupProofs ----------------------------
(* WakingIsDelivered, NoCircularWait and MovesAreAllowed hold of every       *)
(* number of CPUs and threads, with any affinity masks, hotplug and either   *)
(* kind of kernel, and every step of WakeupSMP is one of SleepWakeup.        *)
(*                                                                           *)
(* The inductive invariant is IInv: what curr, prev and on_cpu say of each   *)
(* other (StacksOK), who holds p->pi_lock (PiOK), what a CPU that is busy    *)
(* may rely on (AtOK), and in whose hands a waking thread is (PlacesOK).     *)
EXTENDS WakeupSMP, FiniteSetTheorems, TLAPS

HoldsPi == {"remote", "spin", "queue", "migrate", "migrate2"}
Moving  == {"migrate", "migrate2"}

\* A thread executes on one CPU at most, the one it is assigned to; on_cpu is
\* set as long as it does, and until the CPU has left its stack.
StacksOK ==
    /\ \A c \in CPU, t \in Task : t \in {curr[c], prev[c]} => task[t].cpu = c /\ task[t].on_cpu
    /\ \A t \in Task : task[t].on_cpu => t \in {curr[task[t].cpu], prev[task[t].cpu]}
    /\ \A c \in CPU : curr[c] \in Task => task[curr[c]].on_rq
    /\ \A c \in CPU : curr[c] # prev[c]

\* A thread that is off its queue sleeps or is being woken.
StatesOK ==
    /\ \A t \in Task : ~task[t].on_rq => task[t].state \in {"sleep", "waking"}
    /\ \A t \in Task : task[t].on_rq => task[t].state # "waking"

\* p->pi_lock is a lock.
PiOK == \A c, d \in CPU : at[c].in \in HoldsPi /\ at[d].in \in HoldsPi /\ at[c].p = at[d].p => c = d

\* What CPU c may rely on when it is where it is.
AtOK ==
    \A c \in CPU :
       /\ at[c] # Run => c \in online /\ (build = "irqs_off" => prev[c] = Nobody)
       /\ at[c].in = "remote" => task[at[c].p].state # "waking"
       /\ at[c].in = "spin"   => task[at[c].p].state = "sleep" /\ ~task[at[c].p].on_rq
       /\ at[c].in = "queue"  => task[at[c].p].cpu \in online
       /\ at[c].in \in Moving => /\ curr[c] = Stop /\ prev[c] = Nobody
                                 /\ at[c].dest # c /\ at[c].first = lock_first(c, at[c].dest)

\* A stopper is asked for threads that leave its CPU; a CPU that is to die is
\* not active.
WorkOK ==
    /\ \A c \in CPU : \A w \in work[c] : w[2] # c
    /\ dying # Nobody => dying \in online \ active

\* Thread t, in TASK_WAKING, is on the wake_list of c, about to be queued by c,
\* or among what c took from its wake_list.
InHands(t, c, w) ==
    \/ w = "list"    /\ t \in wake_list[c]
    \/ w = "queue"   /\ at[c].in = "queue"   /\ at[c].p = t
    \/ w = "pending" /\ at[c].in = "pending" /\ t \in at[c].todo
Hands == {"list", "queue", "pending"}

\* The threads in TASK_WAKING are those in the hands of a CPU, and of only one.
PlacesOK ==
    \A t \in Task :
       /\ task[t].state = "waking" <=> \E c \in CPU, w \in Hands : InHands(t, c, w)
       /\ \A c, d \in CPU, w, v \in Hands : InHands(t, c, w) /\ InHands(t, d, v) => c = d /\ w = v

\* The first on a list has sent the interrupt.
IpiOK == \A c \in CPU : wake_list[c] # {} => c \in ipi /\ c \in online

IInv == TypeOK /\ StacksOK /\ StatesOK /\ PiOK /\ AtOK /\ WorkOK /\ PlacesOK /\ IpiOK

-----------------------------------------------------------------------------
(* What the parts of IInv say of a CPU or of a thread. *)

\* The names of the special threads differ from each other and from any thread.
LEMMA Names ==
    /\ Idle \notin Task /\ Stop \notin Task /\ Nobody \notin Task
    /\ Idle # Stop /\ Idle # Nobody /\ Stop # Nobody
BY NameAssumption

\* The fields of a thread.
Fields == [state : {"running", "sleep", "waking"}, on_rq : BOOLEAN, on_cpu : BOOLEAN,
           cpu : CPU, allowed : (SUBSET CPU) \ {{}}]

\* The places of a CPU, by what it carries with it.
Waking   == {"wake", "remote", "spin", "queue"}
Migrant(w, p, d, f) == [in |-> w, p |-> p, dest |-> d, first |-> f]
Pending(ps)         == [in |-> "pending", todo |-> ps]

LEMMA PositionsAre ==
    ASSUME NEW x
    PROVE  x \in Positions <=>
             \/ x = Run
             \/ \E w \in Waking, p \in Task : x = On(w, p)
             \/ \E ps \in (SUBSET Task) \ {{}} : x = Pending(ps)
             \/ \E w \in Moving, p \in Task, d \in CPU, f \in CPU : x = Migrant(w, p, d, f)
BY DEF Positions, Waking, Moving, Migrant, Pending

\* The fields of a place.
LEMMA PlaceFields ==
    /\ Run.in = "run"
    /\ \A w, p : On(w, p).in = w /\ On(w, p).p = p
    /\ \A ps : Pending(ps).in = "pending" /\ Pending(ps).todo = ps
    /\ \A w, p, d, f : /\ Migrant(w, p, d, f).in = w /\ Migrant(w, p, d, f).p = p
                       /\ Migrant(w, p, d, f).dest = d /\ Migrant(w, p, d, f).first = f
BY DEF Run, On, Pending, Migrant

\* What a CPU that is somewhere carries with it.
LEMMA PositionFacts ==
    ASSUME TypeOK, NEW c \in CPU
    PROVE  /\ at[c] \in Positions
           /\ at[c].in \in {"run", "pending"} \cup Waking \cup Moving
           /\ at[c] = Run <=> at[c].in = "run"
           /\ at[c].in \in Waking \cup Moving => at[c].p \in Task
           /\ at[c].in \in Waking => at[c] = On(at[c].in, at[c].p)
           /\ at[c].in = "pending" => at[c].todo \subseteq Task /\ at[c].todo # {}
           /\ at[c].in \in Moving => /\ at[c].dest \in CPU /\ at[c].first \in CPU
                                     /\ at[c] = Migrant(at[c].in, at[c].p, at[c].dest, at[c].first)
<1>1. at[c] \in Positions
  BY DEF TypeOK
<1>2. CASE at[c] = Run
  BY <1>1, <1>2, PlaceFields DEF Waking, Moving
<1>3. CASE \E w \in Waking, p \in Task : at[c] = On(w, p)
  BY <1>1, <1>3, PlaceFields DEF Waking, Moving
<1>4. CASE \E ps \in (SUBSET Task) \ {{}} : at[c] = Pending(ps)
  BY <1>1, <1>4, PlaceFields DEF Waking, Moving
<1>5. CASE \E w \in Moving, p \in Task, d \in CPU, f \in CPU : at[c] = Migrant(w, p, d, f)
  BY <1>1, <1>5, PlaceFields DEF Waking, Moving
<1> QED BY <1>1, <1>2, <1>3, <1>4, <1>5, PositionsAre

-----------------------------------------------------------------------------
(* Init. *)

LEMMA InitInv == Init => IInv
<1> SUFFICES ASSUME Init PROVE IInv
  OBVIOUS
<1>1. /\ \A t \in Task : /\ task[t] \in Fields /\ task[t].state = "running" /\ task[t].on_rq
                         /\ ~task[t].on_cpu /\ task[t].cpu \in CPU
      /\ task \in [Task -> Fields]
  <2>1. CPU \in (SUBSET CPU) \ {{}}
    BY CpuAssumption
  <2>2. \A c \in CPU : [state |-> "running", on_rq |-> TRUE, on_cpu |-> FALSE, cpu |-> c, allowed |-> CPU] \in Fields
    BY <2>1 DEF Fields
  <2>3. task \in [Task -> Fields]
    BY <2>2 DEF Init
  <2>4. ASSUME NEW t \in Task
        PROVE  \E c \in CPU : task[t] = [state |-> "running", on_rq |-> TRUE, on_cpu |-> FALSE, cpu |-> c, allowed |-> CPU]
    BY DEF Init
  <2> QED BY <2>2, <2>3, <2>4
<1>2. \A c \in CPU : /\ curr[c] = Idle /\ prev[c] = Nobody /\ at[c] = Run
                     /\ wake_list[c] = {} /\ work[c] = {}
  BY DEF Init
<1>3. \A c \in CPU : at[c].in = "run"
  BY <1>2, PlaceFields
<1>4. TypeOK
  <2>1. at \in [CPU -> Positions]
    BY PositionsAre DEF Init
  <2>2. need \subseteq CPU /\ ipi \subseteq CPU
    BY <1>1 DEF Init
  <2>3. /\ loop \in [Task -> {"awake", "test", "schedule"}] /\ event \subseteq Task
        /\ curr \in [CPU -> Task \cup {Idle, Stop}] /\ prev \in [CPU -> Task \cup {Idle, Stop, Nobody}]
    BY DEF Init
  <2>4. wake_list \in [CPU -> SUBSET Task] /\ work \in [CPU -> SUBSET (Task \X CPU)]
    BY DEF Init
  <2>5. /\ active \subseteq online /\ online \subseteq CPU /\ active # {}
        /\ dying \in CPU \cup {Nobody} /\ build \in {"irqs_off", "irqs_on"}
    BY CpuAssumption, SwitchAssumption DEF Init
  <2> QED BY <1>1, <2>1, <2>2, <2>3, <2>4, <2>5 DEF TypeOK, Fields
<1>5. StacksOK
  BY <1>1, <1>2, Names DEF StacksOK
<1>6. StatesOK
  BY <1>1 DEF StatesOK
<1>7. PiOK /\ AtOK
  BY <1>2, <1>3 DEF PiOK, AtOK, HoldsPi, Moving
<1>8. WorkOK /\ IpiOK
  BY <1>2 DEF Init, WorkOK, IpiOK
<1>9. PlacesOK
  BY <1>1, <1>2, <1>3 DEF PlacesOK, InHands
<1> QED BY <1>4, <1>5, <1>6, <1>7, <1>8, <1>9 DEF IInv

-----------------------------------------------------------------------------
(* The updates that several steps share. *)

\* A step that moves CPU c to x.
LEMMA MoveTo ==
    ASSUME TypeOK, NEW c \in CPU, NEW x \in Positions, at' = [at EXCEPT ![c] = x]
    PROVE  at' \in [CPU -> Positions] /\ \A d \in CPU : at'[d] = IF d = c THEN x ELSE at[d]
BY DEF TypeOK

\* A step that leaves every pi_lock to the CPU that holds it.
LEMMA PiKept ==
    ASSUME PiOK,
           \A d \in CPU : /\ at'[d].in \in HoldsPi <=> at[d].in \in HoldsPi
                          /\ at'[d].in \in HoldsPi => at'[d].p = at[d].p
    PROVE  PiOK'
<1> SUFFICES ASSUME NEW c \in CPU, NEW d \in CPU, at'[c].in \in HoldsPi, at'[d].in \in HoldsPi, at'[c].p = at'[d].p
             PROVE  c = d
  BY Zenon DEF PiOK
<1>1. at[c].in \in HoldsPi /\ at[d].in \in HoldsPi /\ at[c].p = at[d].p
  OBVIOUS
<1> QED BY <1>1, Zenon DEF PiOK

\* Activation queues the threads ps, changes nothing else about them and
\* nothing about any other thread.
LEMMA Activated ==
    ASSUME TypeOK, NEW ps \in SUBSET Task, NEW d \in CPU, ttwu_do_activate(ps, d)
    PROVE  /\ task' \in [Task -> Fields]
           /\ need' \subseteq CPU
           /\ \A t \in Task : /\ task'[t].cpu = task[t].cpu /\ task'[t].on_cpu = task[t].on_cpu
                              /\ task'[t].allowed = task[t].allowed
           /\ \A t \in ps : task'[t].on_rq /\ task'[t].state = "running"
           /\ \A t \in Task \ ps : task'[t] = task[t]
<1>1. /\ task \in [Task -> Fields] /\ need \subseteq CPU
  BY DEF TypeOK, Fields
<1>2. task' = [p \in Task |-> IF p \in ps THEN [task[p] EXCEPT !.on_rq = TRUE, !.state = "running"] ELSE task[p]]
  BY DEF ttwu_do_activate
<1>3. ASSUME NEW t \in Task
      PROVE  /\ task'[t] \in Fields
             /\ task'[t].cpu = task[t].cpu /\ task'[t].on_cpu = task[t].on_cpu
             /\ task'[t].allowed = task[t].allowed
             /\ t \in ps => task'[t].on_rq /\ task'[t].state = "running"
             /\ t \notin ps => task'[t] = task[t]
  <2>1. task[t] \in Fields
    BY <1>1
  <2>2. task'[t] = IF t \in ps THEN [task[t] EXCEPT !.on_rq = TRUE, !.state = "running"] ELSE task[t]
    BY <1>2
  <2>3. CASE t \in ps
    <3>1. task'[t] = [task[t] EXCEPT !.on_rq = TRUE, !.state = "running"]
      BY <2>2, <2>3
    <3> QED BY <2>1, <2>3, <3>1 DEF Fields
  <2>4. CASE t \notin ps
    BY <2>1, <2>2, <2>4
  <2> QED BY <2>3, <2>4
<1>4. task' \in [Task -> Fields]
  BY <1>2, <1>3
<1>5. need' \subseteq CPU
  BY <1>1 DEF ttwu_do_activate, check_preempt_curr
<1> QED BY <1>3, <1>4, <1>5

\* Whoever has a thread in hands has the only hands that have it.
LEMMA OnlyHands ==
    ASSUME PlacesOK, NEW t \in Task
    PROVE  /\ task[t].state = "waking" <=> \E c \in CPU, w \in Hands : InHands(t, c, w)
           /\ \A c, d \in CPU, w, v \in Hands : InHands(t, c, w) /\ InHands(t, d, v) => c = d /\ w = v
BY Zenon DEF PlacesOK

\* A step after which the threads outside ps are in the same hands, and those
\* of ps are not waking and in none, keeps PlacesOK.
LEMMA HandsLetGo ==
    ASSUME PlacesOK, NEW ps \in SUBSET Task,
           \A t \in Task \ ps : task'[t].state = task[t].state,
           \A t \in Task \ ps, d \in CPU, w \in Hands : InHands(t, d, w)' <=> InHands(t, d, w),
           \A t \in ps : task'[t].state # "waking",
           \A t \in ps, d \in CPU, w \in Hands : ~InHands(t, d, w)'
    PROVE  PlacesOK'
<1> SUFFICES ASSUME NEW t \in Task
             PROVE  /\ task'[t].state = "waking" <=> \E c \in CPU, w \in Hands : InHands(t, c, w)'
                    /\ \A c, d \in CPU, w, v \in Hands : InHands(t, c, w)' /\ InHands(t, d, v)' => c = d /\ w = v
  BY Zenon DEF PlacesOK
<1>1. CASE t \in ps
  BY <1>1
<1>2. CASE t \notin ps
  BY <1>2, OnlyHands
<1> QED BY <1>1, <1>2

\* A step that puts the threads of ps in the hands e, h and leaves those of the
\* others keeps PlacesOK.
TakenBy(ps, e, h) ==
    /\ \A t \in Task \ ps : task'[t].state = task[t].state
    /\ \A t \in Task \ ps, d \in CPU, w \in Hands : InHands(t, d, w)' <=> InHands(t, d, w)
    /\ \A t \in ps : task'[t].state = "waking"
    /\ \A t \in ps, d \in CPU, w \in Hands : InHands(t, d, w)' <=> d = e /\ w = h

LEMMA HandsTake ==
    ASSUME PlacesOK, NEW ps \in SUBSET Task, NEW e \in CPU, NEW h \in Hands, TakenBy(ps, e, h)
    PROVE  PlacesOK'
<1> SUFFICES ASSUME NEW t \in Task
             PROVE  /\ task'[t].state = "waking" <=> \E c \in CPU, w \in Hands : InHands(t, c, w)'
                    /\ \A c, d \in CPU, w, v \in Hands : InHands(t, c, w)' /\ InHands(t, d, v)' => c = d /\ w = v
  BY Zenon DEF PlacesOK
<1>1. CASE t \in ps
  BY <1>1 DEF TakenBy
<1>2. CASE t \notin ps
  BY <1>2, OnlyHands DEF TakenBy
<1> QED BY <1>1, <1>2

\* The same of one thread.
LEMMA HandsTakeOne ==
    ASSUME PlacesOK, NEW p \in Task, NEW e \in CPU, NEW h \in Hands,
           \A t \in Task \ {p} : task'[t].state = task[t].state,
           \A t \in Task \ {p}, d \in CPU, w \in Hands : InHands(t, d, w)' <=> InHands(t, d, w),
           task'[p].state = "waking",
           \A d \in CPU, w \in Hands : InHands(p, d, w)' <=> d = e /\ w = h
    PROVE  PlacesOK'
<1> SUFFICES ASSUME NEW t \in Task
             PROVE  /\ task'[t].state = "waking" <=> \E c \in CPU, w \in Hands : InHands(t, c, w)'
                    /\ \A c, d \in CPU, w, v \in Hands : InHands(t, c, w)' /\ InHands(t, d, v)' => c = d /\ w = v
  BY Zenon DEF PlacesOK
<1>1. CASE t = p
  BY <1>1
<1>2. CASE t # p
  BY <1>2, OnlyHands
<1> QED BY <1>1, <1>2

\* It leaves alone what is true of stacks and states.
LEMMA ActivationKeeps ==
    ASSUME IInv, NEW ps \in SUBSET Task, NEW d \in CPU, ttwu_do_activate(ps, d), UNCHANGED <<curr, prev>>
    PROVE  StacksOK' /\ StatesOK'
<1>1. /\ \A t \in Task : task'[t].cpu = task[t].cpu /\ task'[t].on_cpu = task[t].on_cpu
      /\ \A t \in ps : task'[t].on_rq /\ task'[t].state = "running"
      /\ \A t \in Task \ ps : task'[t] = task[t]
  BY Activated DEF IInv
<1>2. StacksOK'
  BY <1>1 DEF IInv, StacksOK
<1>3. StatesOK'
  BY <1>1 DEF IInv, StatesOK
<1> QED BY <1>2, <1>3

-----------------------------------------------------------------------------
(* try_to_wake_up keeps IInv. *)

LEMMA PostKeeps ==
    ASSUME IInv, NEW c \in CPU, NEW p \in Task, Post(c, p)
    PROVE  IInv'
<1>1. On("wake", p) \in Positions /\ On("wake", p).in = "wake" /\ On("wake", p).p = p
  BY PositionsAre, PlaceFields DEF Waking
<1>2. at[c] = Run /\ at[c].in = "run" /\ c \in online /\ (build = "irqs_off" => prev[c] = Nobody)
  BY PlaceFields DEF Post, Interruptible, IInv, TypeOK
<1>3. \A d \in CPU : at'[d] = IF d = c THEN On("wake", p) ELSE at[d]
  BY DEF Post, IInv, TypeOK
<1>4. TypeOK'
  BY <1>1 DEF Post, IInv, TypeOK, cpus, plug
<1>5. StacksOK' /\ StatesOK' /\ WorkOK' /\ IpiOK'
  BY DEF Post, IInv, StacksOK, StatesOK, WorkOK, IpiOK, cpus, plug
<1>6. PiOK'
  BY <1>1, <1>3 DEF IInv, PiOK, HoldsPi
<1>7. AtOK'
  BY <1>1, <1>2, <1>3 DEF Post, IInv, AtOK, Moving, cpus, plug
<1>8. PlacesOK'
  BY <1>1, <1>2, <1>3 DEF Post, IInv, PlacesOK, InHands
<1> QED BY <1>4, <1>5, <1>6, <1>7, <1>8 DEF IInv

\* A step of one CPU's wake-up leaves the others what they rely on.
LEMMA AtKept ==
    ASSUME AtOK, NEW c \in CPU, at[c] # Run, UNCHANGED <<curr, prev, online, build>>,
           \A d \in CPU \ {c} :
              /\ at'[d] = at[d]
              /\ at[d].in \in {"remote", "spin", "queue"} => task'[at[d].p] = task[at[d].p],
           at'[c].in \notin Moving,
           at'[c].in = "remote" => task'[at'[c].p].state # "waking",
           at'[c].in = "spin" => task'[at'[c].p].state = "sleep" /\ ~task'[at'[c].p].on_rq,
           at'[c].in = "queue" => task'[at'[c].p].cpu \in online
    PROVE  AtOK'
BY DEF AtOK

\* try_to_wake_up looks at the state under p->pi_lock.
LEMMA TtwuLockKeeps ==
    ASSUME IInv, NEW c \in CPU, TtwuLock(c)
    PROVE  IInv'
<1> DEFINE p == at[c].p
           x == IF task[p].state # "sleep" THEN Run ELSE On(IF task[p].on_rq THEN "remote" ELSE "spin", p)
<1>1. p \in Task /\ at[c].in = "wake" /\ PiFree(p)
  BY PositionFacts DEF TtwuLock, IInv, Waking
<1>2. /\ x \in Positions
      /\ x.in \in {"run", "remote", "spin"}
      /\ x.in # "run" => x.p = p /\ task[p].state = "sleep"
      /\ x.in = "spin" => ~task[p].on_rq
  BY <1>1, PositionsAre, PlaceFields DEF Waking
<1> HIDE DEF x
<1>3. at' \in [CPU -> Positions] /\ \A d \in CPU : at'[d] = IF d = c THEN x ELSE at[d]
  BY <1>2, MoveTo DEF TtwuLock, IInv, x
<1>4. TypeOK'
  BY <1>3 DEF TtwuLock, IInv, TypeOK, cpus, plug
<1>5. StacksOK' /\ StatesOK' /\ WorkOK' /\ IpiOK'
  BY DEF TtwuLock, IInv, StacksOK, StatesOK, WorkOK, IpiOK, cpus, plug
<1>6. PiOK'
  BY <1>1, <1>2, <1>3 DEF IInv, PiOK, HoldsPi, PiFree
<1>7. AtOK'
  <2>1. at[c] # Run
    BY <1>1, PlaceFields
  <2>2. UNCHANGED <<task, curr, prev, online, build>>
    BY DEF TtwuLock, cpus, plug
  <2>3. at'[c].in \in {"run", "remote", "spin"} /\ at'[c].in \notin Moving
    BY <1>2, <1>3 DEF Moving
  <2>4. at'[c].in # "run" => at'[c].p = p /\ task'[p].state = "sleep"
    BY <1>2, <1>3, <2>2
  <2>5. at'[c].in = "spin" => ~task'[p].on_rq
    BY <1>2, <1>3, <2>2
  <2> QED BY <1>3, <2>1, <2>2, <2>3, <2>4, <2>5, AtKept DEF IInv
<1>8. PlacesOK'
  <2>1. \A t \in Task, d \in CPU, w \in Hands : InHands(t, d, w)' <=> InHands(t, d, w)
    BY <1>1, <1>2, <1>3 DEF TtwuLock, InHands
  <2> QED BY <2>1 DEF TtwuLock, IInv, PlacesOK
<1> QED BY <1>4, <1>5, <1>6, <1>7, <1>8 DEF IInv

\* The three ways to queue the thread that a waker holds the pi_lock of: it was
\* still queued, its CPU is still in the switch, or it has been given a CPU.
LEMMA ActivateOneKeeps ==
    ASSUME IInv, NEW c \in CPU, at[c].in \in {"remote", "spin", "queue"},
           at[c].in = "remote" => task[at[c].p].on_rq,
           ttwu_do_activate({at[c].p}, task[at[c].p].cpu), at' = [at EXCEPT ![c] = Run],
           UNCHANGED <<loop, event, curr, prev, wake_list, ipi, work, plug>>
    PROVE  IInv'
<1>1. PICK p \in Task : p = at[c].p /\ {p} \in SUBSET Task /\ task[p].cpu \in CPU
  BY PositionFacts DEF IInv, Waking, TypeOK
<1>2. /\ task' \in [Task -> Fields] /\ need' \subseteq CPU
      /\ \A t \in Task : task'[t].cpu = task[t].cpu
      /\ task'[p].on_rq /\ task'[p].state = "running"
      /\ \A t \in Task \ {p} : task'[t] = task[t]
  BY <1>1, Activated DEF IInv
<1>3. at' \in [CPU -> Positions] /\ \A d \in CPU : at'[d] = IF d = c THEN Run ELSE at[d]
  BY MoveTo, PositionsAre DEF IInv
<1>4. Run.in = "run" /\ at[c] # Run
  BY PlaceFields
<1>5. TypeOK'
  BY <1>2, <1>3 DEF IInv, TypeOK, Fields, plug
<1>6. StacksOK' /\ StatesOK'
  BY <1>1, ActivationKeeps
<1>7. WorkOK' /\ IpiOK'
  BY DEF IInv, WorkOK, IpiOK, plug
<1>8. PiOK'
  BY <1>3, <1>4 DEF IInv, PiOK, HoldsPi
<1>9. AtOK'
  <2>1. ASSUME NEW d \in CPU, d # c, at[d].in \in {"remote", "spin", "queue"}
        PROVE  task'[at[d].p] = task[at[d].p]
    <3>1. at[d].p # p
      BY <1>1, <2>1 DEF IInv, PiOK, HoldsPi
    <3> QED BY <1>2, <2>1, <3>1, PositionFacts DEF IInv, Waking
  <2> QED BY <1>3, <1>4, <2>1 DEF IInv, AtOK, Moving, plug
<1>10. PlacesOK'
  <2>1. \A t \in Task \ {p}, d \in CPU, w \in Hands : InHands(t, d, w)' <=> InHands(t, d, w)
    BY <1>1, <1>3, <1>4 DEF InHands
  <2>2. task[p].state = "waking" => at[c].in = "queue"
    BY <1>1 DEF IInv, AtOK, StatesOK
  <2>3. ASSUME NEW d \in CPU, NEW w \in Hands, InHands(p, d, w)'
        PROVE  FALSE
    <3>1. InHands(p, d, w)
      BY <1>3, <1>4, <2>3 DEF InHands
    <3>2. task[p].state = "waking"
      BY <1>1, <3>1, OnlyHands DEF IInv
    <3>3. InHands(p, c, "queue")
      BY <1>1, <2>2, <3>2 DEF InHands
    <3>4. d = c /\ w = "queue"
      BY <1>1, <3>1, <3>3, OnlyHands DEF IInv, Hands
    <3> QED BY <1>3, <1>4, <2>3, <3>4 DEF InHands
  <2> QED BY <1>1, <1>2, <2>1, <2>3, HandsLetGo DEF IInv
<1> QED BY <1>5, <1>6, <1>7, <1>8, <1>9, <1>10 DEF IInv

LEMMA RemoteKeeps ==
    ASSUME IInv, NEW c \in CPU, ttwu_remote(c)
    PROVE  IInv'
<1>1. PICK p \in Task : p = at[c].p
  BY PositionFacts DEF ttwu_remote, IInv, Waking
<1>2. CASE task[p].on_rq /\ ttwu_do_activate({p}, task[p].cpu) /\ at' = [at EXCEPT ![c] = Run]
  BY <1>1, <1>2, ActivateOneKeeps DEF ttwu_remote
<1>3. CASE ~task[p].on_rq /\ at' = [at EXCEPT ![c].in = "spin"] /\ UNCHANGED <<task, need>>
  <2>1. at[c].in = "remote" /\ at[c] = On("remote", p)
    BY <1>1, PositionFacts DEF ttwu_remote, IInv, Waking
  <2>2. [at[c] EXCEPT !.in = "spin"] = On("spin", p)
    BY <2>1 DEF On
  <2>3. On("spin", p) \in Positions /\ On("spin", p).in = "spin" /\ On("spin", p).p = p
    BY PositionsAre, PlaceFields DEF Waking
  <2>4. at' = [at EXCEPT ![c] = On("spin", p)]
    BY <1>3, <2>2
  <2>5. at' \in [CPU -> Positions] /\ \A d \in CPU : at'[d] = IF d = c THEN On("spin", p) ELSE at[d]
    BY <2>3, <2>4, MoveTo DEF IInv
  <2>6. TypeOK'
    BY <1>3, <2>5 DEF ttwu_remote, IInv, TypeOK, plug
  <2>7. StacksOK' /\ StatesOK' /\ WorkOK' /\ IpiOK'
    BY <1>3 DEF ttwu_remote, IInv, StacksOK, StatesOK, WorkOK, IpiOK, plug
  <2>8. PiOK'
    <3>1. \A d \in CPU : /\ at'[d].in \in HoldsPi <=> at[d].in \in HoldsPi
                         /\ at'[d].in \in HoldsPi => at'[d].p = at[d].p
      BY <1>1, <2>1, <2>3, <2>5 DEF HoldsPi
    <3> QED BY <3>1, PiKept DEF IInv
  <2>9. AtOK'
    <3>1. task[p].state = "sleep" /\ at[c] # Run
      BY <1>1, <1>3, <2>1, PlaceFields DEF IInv, AtOK, StatesOK
    <3>2. UNCHANGED <<curr, prev, online, build>>
      BY DEF ttwu_remote, plug
    <3> QED BY <1>3, <2>3, <2>5, <3>1, <3>2, AtKept DEF IInv, Moving
  <2>10. PlacesOK'
    <3>1. \A t \in Task, d \in CPU, w \in Hands : InHands(t, d, w)' <=> InHands(t, d, w)
      BY <2>1, <2>3, <2>5 DEF ttwu_remote, InHands
    <3>2. {} \in SUBSET Task
      OBVIOUS
    <3> QED BY <1>3, <3>1, <3>2, HandsLetGo DEF IInv
  <2> QED BY <2>6, <2>7, <2>8, <2>9, <2>10 DEF IInv
<1> QED BY <1>1, <1>2, <1>3 DEF ttwu_remote

LEMMA ActivateRemoteKeeps ==
    ASSUME IInv, NEW c \in CPU, ttwu_activate_remote(c)
    PROVE  IInv'
BY ActivateOneKeeps DEF ttwu_activate_remote

LEMMA QueueLocalKeeps ==
    ASSUME IInv, NEW c \in CPU, TtwuQueueLocal(c)
    PROVE  IInv'
BY ActivateOneKeeps DEF TtwuQueueLocal

\* Where a thread may be placed.
LEMMA Fallback ==
    ASSUME TypeOK, NEW p \in Task, NEW to \in select_fallback_rq(p)
    PROVE  to.cpu \in active /\ to.cpu \in CPU /\ to.cpu \in to.allowed /\ to.allowed \in (SUBSET CPU) \ {{}}
<1>1. active \subseteq CPU /\ task[p].allowed \in (SUBSET CPU) \ {{}}
  BY DEF TypeOK
<1>2. CASE task[p].allowed \cap active # {}
  BY <1>1, <1>2 DEF select_fallback_rq
<1>3. CASE task[p].allowed \cap active = {}
  BY <1>1, <1>3 DEF select_fallback_rq
<1> QED BY <1>2, <1>3

LEMMA Selected ==
    ASSUME TypeOK, NEW p \in Task, NEW to \in select_task_rq(p)
    PROVE  to.cpu \in online /\ to.cpu \in CPU /\ to.cpu \in to.allowed /\ to.allowed \in (SUBSET CPU) \ {{}}
<1>1. active \subseteq online /\ online \subseteq CPU /\ task[p].allowed \in (SUBSET CPU) \ {{}}
  BY DEF TypeOK
<1>2. CASE to \in select_fallback_rq(p)
  BY <1>1, <1>2, Fallback
<1>3. CASE to \in {[cpu |-> d, allowed |-> task[p].allowed] : d \in task[p].allowed \cap online}
  BY <1>1, <1>3
<1> QED BY <1>2, <1>3 DEF select_task_rq

\* The thread that TtwuPlace gives a CPU is waking from then on.
LEMMA Placed ==
    ASSUME IInv, NEW c \in CPU, TtwuPlace(c), NEW p \in Task, p = at[c].p
    PROVE  /\ task' \in [Task -> Fields]
           /\ \A t \in Task \ {p} : task'[t] = task[t]
           /\ task'[p].state = "waking" /\ task'[p].cpu \in online /\ task'[p].cpu \in task'[p].allowed
           /\ task'[p].on_rq = task[p].on_rq /\ task'[p].on_cpu = task[p].on_cpu
<1>1. PICK to \in select_task_rq(p) :
         task' = [task EXCEPT ![p] = set_task_cpu([@ EXCEPT !.state = "waking", !.allowed = to.allowed], to.cpu)]
  BY DEF TtwuPlace
<1>2. /\ to.cpu \in online /\ to.cpu \in CPU /\ to.cpu \in to.allowed
      /\ to.allowed \in (SUBSET CPU) \ {{}}
  BY Selected DEF IInv
<1> DEFINE new == set_task_cpu([task[p] EXCEPT !.state = "waking", !.allowed = to.allowed], to.cpu)
<1>3. task \in [Task -> Fields] /\ task' = [task EXCEPT ![p] = new]
  BY <1>1 DEF IInv, TypeOK, Fields
<1>4. /\ new \in Fields /\ new.state = "waking" /\ new.cpu = to.cpu /\ new.allowed = to.allowed
      /\ new.on_rq = task[p].on_rq /\ new.on_cpu = task[p].on_cpu
  <2>1. PICK u : u = [task[p] EXCEPT !.state = "waking", !.allowed = to.allowed]
    OBVIOUS
  <2>2. task[p] \in Fields
    BY <1>1, <1>3
  <2>3. /\ u \in Fields /\ u.state = "waking" /\ u.allowed = to.allowed
        /\ u.on_rq = task[p].on_rq /\ u.on_cpu = task[p].on_cpu
    BY <1>2, <2>1, <2>2 DEF Fields
  <2>4. new = [u EXCEPT !.cpu = to.cpu]
    BY <2>1 DEF set_task_cpu
  <2> QED BY <1>2, <2>3, <2>4 DEF Fields
<1> HIDE DEF new
<1>5. task' \in [Task -> Fields] /\ task'[p] = new /\ \A t \in Task \ {p} : task'[t] = task[t]
  BY <1>3, <1>4
<1> QED BY <1>2, <1>4, <1>5

LEMMA PlaceKeeps ==
    ASSUME IInv, NEW c \in CPU, TtwuPlace(c)
    PROVE  IInv'
<1>1. PICK p \in Task : p = at[c].p
  BY PositionFacts DEF TtwuPlace, IInv, Waking
<1>4. /\ task' \in [Task -> Fields]
      /\ \A t \in Task \ {p} : task'[t] = task[t]
      /\ task'[p].state = "waking" /\ task'[p].cpu \in online
      /\ task'[p].on_rq = task[p].on_rq /\ task'[p].on_cpu = task[p].on_cpu
  BY <1>1, Placed
<1>5. /\ at[c].in = "spin" /\ at[c] = On("spin", p) /\ at[c] # Run
      /\ task[p].state = "sleep" /\ ~task[p].on_rq /\ ~task[p].on_cpu
  BY <1>1, PositionFacts, PlaceFields DEF TtwuPlace, IInv, Waking, AtOK
<1>6. On("queue", p) \in Positions /\ On("queue", p).in = "queue" /\ On("queue", p).p = p
  BY PositionsAre, PlaceFields DEF Waking
<1>7. at' \in [CPU -> Positions] /\ \A d \in CPU : at'[d] = IF d = c THEN On("queue", p) ELSE at[d]
  <2>1. at' = [at EXCEPT ![c] = On("queue", p)]
    <3>1. [at[c] EXCEPT !.in = "queue"] = On("queue", p)
      BY <1>5 DEF On
    <3> QED BY <3>1 DEF TtwuPlace
  <2> QED BY <1>6, <2>1, MoveTo DEF IInv
<1>8. TypeOK'
  <2>1. UNCHANGED <<loop, event, curr, prev, need, wake_list, ipi, work, online, active, dying, build>>
    BY DEF TtwuPlace, cpus, plug
  <2> QED BY <1>4, <1>7, <2>1 DEF IInv, TypeOK, Fields
<1>9. StacksOK'
  <2>1. UNCHANGED <<curr, prev>>
    BY DEF TtwuPlace, cpus
  <2>2. StacksOK /\ \A d \in CPU : p \notin {curr[d], prev[d]}
    BY <1>5 DEF IInv, StacksOK
  <2> QED BY <1>4, <1>5, <2>1, <2>2 DEF StacksOK
<1>10. StatesOK'
  BY <1>4, <1>5 DEF IInv, StatesOK
<1>11. WorkOK' /\ IpiOK'
  BY DEF TtwuPlace, IInv, WorkOK, IpiOK, cpus, plug
<1>12. PiOK'
  <2>1. \A d \in CPU : /\ at'[d].in \in HoldsPi <=> at[d].in \in HoldsPi
                       /\ at'[d].in \in HoldsPi => at'[d].p = at[d].p
    BY <1>1, <1>5, <1>6, <1>7 DEF HoldsPi
  <2> QED BY <2>1, PiKept DEF IInv
<1>13. AtOK'
  <2>1. ASSUME NEW d \in CPU, d # c, at[d].in \in {"remote", "spin", "queue"}
        PROVE  task'[at[d].p] = task[at[d].p]
    <3>1. at[d].p # p
      BY <1>1, <1>5, <2>1 DEF IInv, PiOK, HoldsPi
    <3> QED BY <1>4, <2>1, <3>1, PositionFacts DEF IInv, Waking
  <2>2. UNCHANGED <<curr, prev, online, build>>
    BY DEF TtwuPlace, cpus, plug
  <2>3. at'[c].in = "queue" /\ at'[c].p = p /\ at'[c].in \notin Moving
    BY <1>6, <1>7 DEF Moving
  <2> QED BY <1>4, <1>5, <1>7, <2>1, <2>2, <2>3, AtKept DEF IInv
<1>14. PlacesOK'
  <2>1. \A t \in Task \ {p}, d \in CPU, w \in Hands : InHands(t, d, w)' <=> InHands(t, d, w)
    <3>1. \A d \in CPU : at'[d] = at[d] \/ /\ at[d].in = "spin" /\ at'[d].in = "queue" /\ at'[d].p = p
      BY <1>5, <1>6, <1>7
    <3>2. wake_list' = wake_list
      BY Zenon DEF TtwuPlace
    <3> QED BY <3>1, <3>2 DEF InHands
  <2>2. \A d \in CPU, w \in Hands : ~InHands(p, d, w)
    BY <1>5, OnlyHands DEF IInv
  <2>3. \A d \in CPU, w \in Hands : InHands(p, d, w)' <=> d = c /\ w = "queue"
    BY <1>6, <1>7, <2>2 DEF TtwuPlace, InHands, Hands
  <2>4. "queue" \in Hands
    BY DEF Hands
  <2> QED BY <1>4, <2>1, <2>3, <2>4, HandsTakeOne DEF IInv
<1> QED BY <1>8, <1>9, <1>10, <1>11, <1>12, <1>13, <1>14 DEF IInv

LEMMA QueueRemoteKeeps ==
    ASSUME IInv, NEW c \in CPU, ttwu_queue_remote(c)
    PROVE  IInv'
<1>1. PICK p \in Task : p = at[c].p
  BY PositionFacts DEF ttwu_queue_remote, IInv, Waking
<1>2. PICK e \in CPU : e = task[p].cpu
  BY DEF IInv, TypeOK
<1>3. /\ at[c].in = "queue" /\ at[c] # Run /\ e \in online
  BY <1>1, <1>2, PlaceFields DEF ttwu_queue_remote, IInv, AtOK
<1>4. at' \in [CPU -> Positions] /\ \A d \in CPU : at'[d] = IF d = c THEN Run ELSE at[d]
  BY MoveTo, PositionsAre DEF IInv, ttwu_queue_remote
<1>5. Run.in = "run"
  BY PlaceFields
<1>6. /\ wake_list' \in [CPU -> SUBSET Task]
      /\ \A d \in CPU : wake_list'[d] = IF d = e THEN wake_list[d] \cup {p} ELSE wake_list[d]
  BY <1>1, <1>2 DEF ttwu_queue_remote, IInv, TypeOK
<1>7. ipi \subseteq ipi' /\ ipi' \subseteq CPU /\ (wake_list[e] = {} => e \in ipi')
  BY <1>1, <1>2 DEF ttwu_queue_remote, IInv, TypeOK
<1>8. UNCHANGED <<task, loop, event, curr, prev, need, work, online, active, dying, build>>
  BY DEF ttwu_queue_remote, cpus, plug
<1>9. TypeOK'
  BY <1>4, <1>6, <1>7, <1>8 DEF IInv, TypeOK
<1>10. StacksOK' /\ StatesOK' /\ WorkOK'
  BY <1>8 DEF IInv, StacksOK, StatesOK, WorkOK
<1>11. IpiOK'
  BY <1>3, <1>6, <1>7, <1>8 DEF IInv, IpiOK
<1>12. PiOK'
  BY <1>4, <1>5 DEF IInv, PiOK, HoldsPi
<1>13. AtOK'
  BY <1>4, <1>5, <1>8 DEF IInv, AtOK, Moving
<1>14. PlacesOK'
  <2>1. \A t \in Task \ {p}, d \in CPU, w \in Hands : InHands(t, d, w)' <=> InHands(t, d, w)
    BY <1>1, <1>3, <1>4, <1>5, <1>6 DEF InHands
  <2>2. InHands(p, c, "queue")
    BY <1>1, <1>3 DEF InHands
  <2>3. task[p].state = "waking" /\ \A d \in CPU, w \in Hands : InHands(p, d, w) => d = c /\ w = "queue"
    BY <2>2, OnlyHands DEF IInv, Hands
  <2>4. \A d \in CPU, w \in Hands : InHands(p, d, w)' <=> d = e /\ w = "list"
    BY <1>4, <1>5, <1>6, <2>3 DEF InHands, Hands
  <2>5. "list" \in Hands
    BY DEF Hands
  <2> QED BY <1>8, <2>1, <2>3, <2>4, <2>5, HandsTakeOne DEF IInv
<1> QED BY <1>9, <1>10, <1>11, <1>12, <1>13, <1>14 DEF IInv

LEMMA IpiKeeps ==
    ASSUME IInv, NEW c \in CPU, scheduler_ipi(c)
    PROVE  IInv'
<1>1. PICK ps \in SUBSET Task : ps = wake_list[c]
  BY DEF IInv, TypeOK
<1>2. PICK x \in Positions : /\ x = IF ps = {} THEN Run ELSE Pending(ps)
                             /\ ps = {} => x = Run /\ x.in = "run"
                             /\ ps # {} => x.in = "pending" /\ x.todo = ps
  BY PositionsAre, PlaceFields
<1>3. at' \in [CPU -> Positions] /\ \A d \in CPU : at'[d] = IF d = c THEN x ELSE at[d]
  BY <1>1, <1>2, MoveTo DEF scheduler_ipi, IInv, Pending
<1>4. /\ wake_list' \in [CPU -> SUBSET Task]
      /\ \A d \in CPU : wake_list'[d] = IF d = c THEN {} ELSE wake_list[d]
  BY DEF scheduler_ipi, IInv, TypeOK
<1>5. ipi' = ipi \ {c} /\ UNCHANGED <<task, loop, event, curr, prev, need, work, online, active, dying, build>>
  BY DEF scheduler_ipi, cpus, plug
<1>6. at[c] = Run /\ at[c].in = "run" /\ c \in online /\ (build = "irqs_off" => prev[c] = Nobody)
  BY PlaceFields DEF scheduler_ipi, Interruptible, IInv, TypeOK
<1>7. TypeOK'
  BY <1>3, <1>4, <1>5 DEF IInv, TypeOK
<1>8. StacksOK' /\ StatesOK' /\ WorkOK'
  BY <1>5 DEF IInv, StacksOK, StatesOK, WorkOK
<1>9. IpiOK'
  BY <1>4, <1>5 DEF IInv, IpiOK
<1>10. PiOK'
  BY <1>2, <1>3 DEF IInv, PiOK, HoldsPi
<1>11. AtOK'
  BY <1>2, <1>3, <1>5, <1>6 DEF IInv, AtOK, Moving
<1>12. PlacesOK'
  <2>1. \A t \in Task \ ps, d \in CPU, w \in Hands : InHands(t, d, w)' <=> InHands(t, d, w)
    BY <1>1, <1>2, <1>3, <1>4, <1>6 DEF InHands
  <2>2. ASSUME NEW t \in ps
        PROVE  task[t].state = "waking" /\ \A d \in CPU, w \in Hands : InHands(t, d, w) => d = c /\ w = "list"
    <3>1. t \in Task /\ InHands(t, c, "list")
      BY <1>1, <2>2 DEF InHands
    <3> QED BY <3>1, OnlyHands DEF IInv, Hands
  <2>3. \A t \in ps, d \in CPU, w \in Hands : InHands(t, d, w)' <=> d = c /\ w = "pending"
    <3> TAKE t \in ps, d \in CPU, w \in Hands
    <3>1. ps # {} /\ x.in = "pending" /\ x.todo = ps
      BY <1>2
    <3>2. InHands(t, d, w) => d = c /\ w = "list"
      BY <2>2
    <3> QED BY <1>3, <1>4, <3>1, <3>2 DEF InHands, Hands
  <2>4. "pending" \in Hands /\ PlacesOK
    BY DEF Hands, IInv
  <2>5. \A t \in ps : task'[t].state = "waking"
    BY <1>5, <2>2
  <2>6. \A t \in Task \ ps : task'[t].state = task[t].state
    BY <1>5
  <2>7. TakenBy(ps, c, "pending")
    BY <2>1, <2>3, <2>5, <2>6 DEF TakenBy
  <2> QED BY <2>4, <2>7, HandsTake
<1> QED BY <1>7, <1>8, <1>9, <1>10, <1>11, <1>12 DEF IInv

LEMMA PendingKeeps ==
    ASSUME IInv, NEW c \in CPU, sched_ttwu_pending(c)
    PROVE  IInv'
<1>1. at[c].in = "pending" /\ at[c] # Run
  BY PlaceFields DEF sched_ttwu_pending
<1>2. PICK ps \in SUBSET Task : ps = at[c].todo
  BY <1>1, PositionFacts DEF IInv
<1>3. /\ task' \in [Task -> Fields] /\ need' \subseteq CPU
      /\ \A t \in Task : task'[t].cpu = task[t].cpu
      /\ \A t \in ps : task'[t].on_rq /\ task'[t].state = "running"
      /\ \A t \in Task \ ps : task'[t] = task[t]
  BY <1>2, Activated DEF IInv, sched_ttwu_pending
<1>4. at' \in [CPU -> Positions] /\ \A d \in CPU : at'[d] = IF d = c THEN Run ELSE at[d]
  BY MoveTo, PositionsAre DEF IInv, sched_ttwu_pending
<1>5. Run.in = "run"
  BY PlaceFields
<1>6. UNCHANGED <<loop, event, curr, prev, wake_list, ipi, work, online, active, dying, build>>
  BY DEF sched_ttwu_pending, plug
<1>7. TypeOK'
  BY <1>3, <1>4, <1>6 DEF IInv, TypeOK, Fields
<1>8. StacksOK' /\ StatesOK'
  BY <1>2, <1>6, ActivationKeeps DEF sched_ttwu_pending
<1>9. WorkOK' /\ IpiOK'
  BY <1>6 DEF IInv, WorkOK, IpiOK
<1>10. PiOK'
  BY <1>4, <1>5 DEF IInv, PiOK, HoldsPi
<1>11. \A t \in ps : InHands(t, c, "pending") /\ task[t].state = "waking"
  <2>1. \A t \in ps : t \in Task /\ InHands(t, c, "pending")
    BY <1>1, <1>2 DEF InHands
  <2> QED BY <2>1, OnlyHands DEF IInv, Hands
<1>12. AtOK'
  <2>1. ASSUME NEW d \in CPU, at[d].in = "spin"
        PROVE  task'[at[d].p] = task[at[d].p]
    <3>1. at[d].p \in Task \ ps
      BY <1>11, <2>1, PositionFacts DEF IInv, AtOK, Waking
    <3> QED BY <1>3, <3>1
  <2>2. ASSUME NEW d \in CPU, at[d].in \in {"remote", "queue"}
        PROVE  at[d].p \in Task /\ (task'[at[d].p] = task[at[d].p] \/ task'[at[d].p].state = "running")
    BY <1>3, <2>2, PositionFacts DEF IInv, Waking
  <2> QED BY <1>3, <1>4, <1>5, <1>6, <2>1, <2>2 DEF IInv, AtOK, Moving
<1>13. PlacesOK'
  <2>1. \A t \in Task \ ps, d \in CPU, w \in Hands : InHands(t, d, w)' <=> InHands(t, d, w)
    BY <1>1, <1>2, <1>4, <1>5, <1>6 DEF InHands
  <2>2. \A t \in ps, d \in CPU, w \in Hands : ~InHands(t, d, w)'
    <3> SUFFICES ASSUME NEW t \in ps, NEW d \in CPU, NEW w \in Hands, InHands(t, d, w)'
                 PROVE  FALSE
      OBVIOUS
    <3>1. InHands(t, d, w)
      BY <1>4, <1>5, <1>6 DEF InHands
    <3>2. d = c /\ w = "pending"
      BY <1>11, <3>1, OnlyHands DEF IInv, Hands
    <3> QED BY <1>4, <1>5, <3>2 DEF InHands
  <2> QED BY <1>3, <2>1, <2>2, HandsLetGo DEF IInv
<1> QED BY <1>7, <1>8, <1>9, <1>10, <1>12, <1>13 DEF IInv

-----------------------------------------------------------------------------
(* The sleeping loop and the switch keep IInv. *)

\* A queued thread may say that it is to sleep, or that it is not.
LEMMA SetStateKeeps ==
    ASSUME IInv, NEW t \in Task, task[t].on_rq, NEW s \in {"running", "sleep"},
           task' = [task EXCEPT ![t].state = s],
           loop' \in [Task -> {"awake", "test", "schedule"}], event' \subseteq Task,
           UNCHANGED <<cpus, at, wake_list, ipi, work, plug>>
    PROVE  IInv'
<1>1. /\ task' \in [Task -> Fields]
      /\ \A u \in Task \ {t} : task'[u] = task[u]
      /\ task'[t].state = s /\ task'[t].on_rq /\ task'[t].cpu = task[t].cpu /\ task'[t].on_cpu = task[t].on_cpu
  <2>1. task \in [Task -> Fields]
    BY Zenon DEF IInv, TypeOK, Fields
  <2>2. PICK u : u = [task[t] EXCEPT !.state = s]
    OBVIOUS
  <2>3. /\ u \in Fields /\ u.state = s
        /\ u.on_rq = task[t].on_rq /\ u.cpu = task[t].cpu /\ u.on_cpu = task[t].on_cpu
    BY <2>1, <2>2 DEF Fields
  <2>4. task' = [task EXCEPT ![t] = u]
    BY <2>2
  <2> QED BY <2>1, <2>3, <2>4
<1>2. UNCHANGED <<curr, prev, need, at, wake_list, ipi, work, online, active, dying, build>>
  BY DEF cpus, plug
<1>3. task[t].state # "waking"
  BY DEF IInv, StatesOK
<1>4. TypeOK'
  BY <1>1, <1>2 DEF IInv, TypeOK, Fields
<1>5. StacksOK'
  BY <1>1, <1>2 DEF IInv, StacksOK
<1>6. StatesOK' /\ WorkOK' /\ IpiOK' /\ PiOK'
  BY <1>1, <1>2 DEF IInv, StatesOK, WorkOK, IpiOK, PiOK
<1>7. AtOK'
  <2>1. \A d \in CPU : at[d].in \in {"remote", "queue"} => at[d].p \in Task
    BY PositionFacts DEF IInv, Waking
  <2>2. \A d \in CPU : at[d].in = "spin" => at[d].p \in Task \ {t}
    BY PositionFacts DEF IInv, AtOK, Waking
  <2> QED BY <1>1, <1>2, <2>1, <2>2 DEF IInv, AtOK
<1>8. PlacesOK'
  <2>1. \A d \in CPU, w \in Hands : ~InHands(t, d, w)
    BY <1>3, OnlyHands DEF IInv
  <2>2. \A u \in Task, d \in CPU, w \in Hands : InHands(u, d, w)' <=> InHands(u, d, w)
    BY <1>2 DEF InHands
  <2>3. \A u \in Task \ {t} : task'[u].state = task[u].state
    BY <1>1
  <2>4. \A u \in {t} : task'[u].state # "waking"
    BY <1>1
  <2>5. \A u \in {t}, d \in CPU, w \in Hands : ~InHands(u, d, w)'
    BY <2>1, <2>2
  <2>6. {t} \in SUBSET Task /\ PlacesOK
    BY DEF IInv
  <2> QED BY <2>2, <2>3, <2>4, <2>5, <2>6, HandsLetGo
<1> QED BY <1>4, <1>5, <1>6, <1>7, <1>8 DEF IInv

LEMMA SetSleepingKeeps ==
    ASSUME IInv, NEW c \in CPU, SetSleeping(c)
    PROVE  IInv'
<1>1. curr[c] \in Task /\ task[curr[c]].on_rq
  BY DEF SetSleeping, IInv, StacksOK
<1>2. loop' \in [Task -> {"awake", "test", "schedule"}] /\ event' \subseteq Task
  BY <1>1 DEF SetSleeping, IInv, TypeOK
<1> QED BY <1>1, <1>2, SetStateKeeps DEF SetSleeping

LEMMA TestConditionKeeps ==
    ASSUME IInv, NEW c \in CPU, TestCondition(c)
    PROVE  IInv'
<1>1. curr[c] \in Task /\ task[curr[c]].on_rq
  BY DEF TestCondition, IInv, StacksOK
<1>2. loop' \in [Task -> {"awake", "test", "schedule"}] /\ event' \subseteq Task
  BY <1>1 DEF TestCondition, IInv, TypeOK
<1>3. CASE task' = [task EXCEPT ![curr[c]].state = "running"]
  BY <1>1, <1>2, <1>3, SetStateKeeps DEF TestCondition
<1>4. CASE UNCHANGED task
  <2>1. UNCHANGED <<task, curr, prev, need, at, wake_list, ipi, work, online, active, dying, build>>
    BY <1>4 DEF TestCondition, cpus, plug
  <2> QED BY <1>2, <2>1 DEF IInv, TypeOK, StacksOK, StatesOK, PiOK, AtOK, WorkOK, PlacesOK, InHands, IpiOK
<1> QED BY <1>3, <1>4 DEF TestCondition

\* The thread that CPU c has left is off the CPU from then on.
LEMMA Unswitched ==
    ASSUME IInv, NEW c \in CPU, FinishSwitch(c)
    PROVE  /\ task' \in [Task -> Fields]
           /\ \A t \in Task : /\ task'[t].on_rq = task[t].on_rq /\ task'[t].state = task[t].state
                              /\ task'[t].cpu = task[t].cpu
                              /\ task'[t].on_cpu <=> task[t].on_cpu /\ t # prev[c]
<1>1. CASE prev[c] \in Task
  <2>1. PICK u \in Task : u = prev[c]
    BY <1>1
  <2>2. task \in [Task -> Fields] /\ task' = [task EXCEPT ![u].on_cpu = FALSE]
    BY <2>1 DEF FinishSwitch, IInv, TypeOK, Fields
  <2>3. \A t \in Task \ {u} : task'[t] = task[t]
    BY <2>2
  <2>4. task' \in [Task -> Fields]
    BY <2>2 DEF Fields
  <2>5. /\ task'[u].on_rq = task[u].on_rq /\ task'[u].state = task[u].state
        /\ task'[u].cpu = task[u].cpu /\ ~task'[u].on_cpu
    BY <2>2 DEF Fields
  <2> QED BY <2>1, <2>3, <2>4, <2>5
<1>2. CASE prev[c] \notin Task
  BY <1>2 DEF FinishSwitch, IInv, TypeOK, Fields
<1> QED BY <1>1, <1>2

LEMMA FinishSwitchKeeps ==
    ASSUME IInv, NEW c \in CPU, FinishSwitch(c)
    PROVE  IInv'
<1>1. /\ at[c] = Run /\ prev[c] # Nobody
      /\ prev' \in [CPU -> Task \cup {Idle, Stop, Nobody}]
      /\ \A d \in CPU : prev'[d] = IF d = c THEN Nobody ELSE prev[d]
  BY DEF FinishSwitch, IInv, TypeOK
<1>2. UNCHANGED <<loop, event, curr, need, at, wake_list, ipi, work, online, active, dying, build>>
  BY DEF FinishSwitch, plug
<1>3. /\ task' \in [Task -> Fields]
      /\ \A t \in Task : /\ task'[t].on_rq = task[t].on_rq /\ task'[t].state = task[t].state
                         /\ task'[t].cpu = task[t].cpu
                         /\ task'[t].on_cpu <=> task[t].on_cpu /\ t # prev[c]
  BY Unswitched
<1>4. TypeOK'
  BY <1>1, <1>2, <1>3 DEF IInv, TypeOK, Fields
<1>5. StacksOK'
  <2>1. \A d \in CPU, t \in Task : t \in {curr'[d], prev'[d]} => task'[t].cpu = d /\ task'[t].on_cpu
    <3> SUFFICES ASSUME NEW d \in CPU, NEW t \in Task, t \in {curr'[d], prev'[d]}
                 PROVE  task'[t].cpu = d /\ task'[t].on_cpu
      OBVIOUS
    <3>1. t \in {curr[d], prev[d]}
      BY <1>1, <1>2, Names
    <3>2. task[t].cpu = d /\ task[t].on_cpu
      BY <3>1 DEF IInv, StacksOK
    <3>3. t # prev[c]
      <4>1. CASE d = c
        BY <4>1, <1>1, <1>2, Names DEF IInv, StacksOK
      <4>2. CASE d # c
        BY <4>2, <3>2 DEF IInv, StacksOK
      <4> QED BY <4>1, <4>2
    <3> QED BY <1>3, <3>2, <3>3
  <2>2. \A t \in Task : task'[t].on_cpu => t \in {curr'[task'[t].cpu], prev'[task'[t].cpu]}
    <3> SUFFICES ASSUME NEW t \in Task, task'[t].on_cpu
                 PROVE  t \in {curr'[task'[t].cpu], prev'[task'[t].cpu]}
      OBVIOUS
    <3>1. task[t].on_cpu /\ t # prev[c] /\ task'[t].cpu = task[t].cpu
      BY <1>3
    <3>2. t \in {curr[task[t].cpu], prev[task[t].cpu]} /\ task[t].cpu \in CPU
      BY <3>1 DEF IInv, StacksOK, TypeOK
    <3> QED BY <1>1, <1>2, <3>1, <3>2
  <2>3. \A d \in CPU : (curr'[d] \in Task => task'[curr'[d]].on_rq) /\ curr'[d] # prev'[d]
    BY <1>1, <1>2, <1>3, Names DEF IInv, StacksOK, TypeOK
  <2> QED BY <2>1, <2>2, <2>3 DEF StacksOK
<1>6. StatesOK' /\ WorkOK' /\ IpiOK' /\ PiOK'
  BY <1>2, <1>3 DEF IInv, StatesOK, WorkOK, IpiOK, PiOK
<1>7. AtOK'
  <2>1. \A d \in CPU : at[d].in \in {"remote", "spin", "queue"} => at[d].p \in Task
    BY PositionFacts DEF IInv, Waking
  <2>2. \A d \in CPU : prev[d] = Nobody => prev'[d] = Nobody
    BY <1>1
  <2> QED BY <1>2, <1>3, <2>1, <2>2 DEF IInv, AtOK
<1>8. PlacesOK'
  <2>1. \A t \in Task, d \in CPU, w \in Hands : InHands(t, d, w)' <=> InHands(t, d, w)
    BY <1>2 DEF InHands
  <2>2. {} \in SUBSET Task
    OBVIOUS
  <2> QED BY <1>3, <2>1, <2>2, HandsLetGo DEF IInv
<1> QED BY <1>4, <1>5, <1>6, <1>7, <1>8 DEF IInv

\* tasks is task, but for curr[c], which may have been dequeued to sleep.
Descheduled(c, tasks) ==
    /\ tasks \in [Task -> Fields]
    /\ \A t \in Task : tasks[t].cpu = task[t].cpu /\ (tasks[t].on_cpu <=> task[t].on_cpu)
    /\ \A t \in Task : t # curr[c] => tasks[t] = task[t]
    /\ \A t \in Task : t = curr[c] => tasks[t].state # "waking" /\ (tasks[t].on_rq \/ tasks[t].state = "sleep")

\* The CPU leaves curr[c] for a thread of its queue, the stopper or the idle
\* thread; on_cpu is set before it does and cleared only by finish_lock_switch.
SwitchedTo(c, tasks, next) ==
    /\ next \in Task \cup {Idle, Stop}
    /\ next \in Task => tasks[next].on_rq /\ tasks[next].cpu = c
    /\ curr' \in [CPU -> Task \cup {Idle, Stop}]
    /\ prev' \in [CPU -> Task \cup {Idle, Stop, Nobody}]
    /\ curr'[c] = next /\ prev'[c] = IF next = curr[c] THEN Nobody ELSE curr[c]
    /\ \A d \in CPU : d # c => curr'[d] = curr[d] /\ prev'[d] = prev[d]
    /\ task' \in [Task -> Fields]
    /\ \A t \in Task : /\ task'[t].cpu = tasks[t].cpu /\ task'[t].state = tasks[t].state
                       /\ task'[t].on_rq <=> tasks[t].on_rq
                       /\ task'[t].on_cpu <=> tasks[t].on_cpu \/ (t = next /\ next # curr[c])

LEMMA Switched ==
    ASSUME IInv, NEW c \in CPU, NEW tasks, Current(c), Descheduled(c, tasks), __schedule(c, tasks)
    PROVE  \E next : SwitchedTo(c, tasks, next)
<1>1. at[c] = Run /\ prev[c] = Nobody /\ curr[c] \in Task \cup {Idle, Stop}
  BY DEF Current, IInv, TypeOK
<1>3. PICK next \in pick_next_task(c, tasks) :
         \/ next = curr[c] /\ task' = tasks /\ UNCHANGED <<curr, prev>>
         \/ /\ next # curr[c]
            /\ curr' = [curr EXCEPT ![c] = next]
            /\ prev' = [prev EXCEPT ![c] = curr[c]]
            /\ task' = [t \in Task |-> IF t = next THEN [tasks[t] EXCEPT !.on_cpu = TRUE] ELSE tasks[t]]
  BY DEF __schedule
<1>4. next \in Task \cup {Idle, Stop} /\ (next \in Task => tasks[next].on_rq /\ tasks[next].cpu = c)
  BY Names DEF pick_next_task
<1>5. /\ curr' \in [CPU -> Task \cup {Idle, Stop}]
      /\ prev' \in [CPU -> Task \cup {Idle, Stop, Nobody}]
      /\ curr'[c] = next /\ prev'[c] = IF next = curr[c] THEN Nobody ELSE curr[c]
      /\ \A d \in CPU : d # c => curr'[d] = curr[d] /\ prev'[d] = prev[d]
  <2>1. curr \in [CPU -> Task \cup {Idle, Stop}] /\ prev \in [CPU -> Task \cup {Idle, Stop, Nobody}]
    BY DEF IInv, TypeOK
  <2>2. CASE next = curr[c]
    BY <1>1, <1>3, <2>1, <2>2
  <2>3. CASE next # curr[c]
    <3>1. curr' = [curr EXCEPT ![c] = next] /\ prev' = [prev EXCEPT ![c] = curr[c]]
      BY <1>3, <2>3
    <3>2. curr' \in [CPU -> Task \cup {Idle, Stop}] /\ prev' \in [CPU -> Task \cup {Idle, Stop, Nobody}]
      BY <1>1, <1>4, <2>1, <3>1
    <3> QED BY <2>1, <2>3, <3>1, <3>2
  <2> QED BY <2>2, <2>3
<1>6. /\ task' \in [Task -> Fields]
      /\ \A t \in Task : /\ task'[t].cpu = tasks[t].cpu /\ task'[t].state = tasks[t].state
                         /\ task'[t].on_rq <=> tasks[t].on_rq
                         /\ task'[t].on_cpu <=> tasks[t].on_cpu \/ (t = next /\ next # curr[c])
  <2>1. tasks \in [Task -> Fields]
    BY DEF Descheduled
  <2>2. CASE next = curr[c]
    BY <1>3, <2>1, <2>2
  <2>3. CASE next # curr[c]
    <3>1. task' = [t \in Task |-> IF t = next THEN [tasks[t] EXCEPT !.on_cpu = TRUE] ELSE tasks[t]]
      BY <1>3, <2>3
    <3>2. ASSUME NEW t \in Task
          PROVE  /\ task'[t] \in Fields
                 /\ task'[t].cpu = tasks[t].cpu /\ task'[t].state = tasks[t].state
                 /\ task'[t].on_rq <=> tasks[t].on_rq
                 /\ task'[t].on_cpu <=> tasks[t].on_cpu \/ t = next
      <4>1. tasks[t] \in Fields
        BY <2>1
      <4>2. CASE t = next
        <5>1. task'[t] = [tasks[t] EXCEPT !.on_cpu = TRUE]
          BY <3>1, <4>2
        <5> QED BY <4>1, <4>2, <5>1 DEF Fields
      <4>3. CASE t # next
        BY <3>1, <4>1, <4>3
      <4> QED BY <4>2, <4>3
    <3>3. task' \in [Task -> Fields]
      BY <3>1, <3>2
    <3> QED BY <2>3, <3>2, <3>3
  <2> QED BY <2>2, <2>3
<1> QED BY <1>4, <1>5, <1>6 DEF SwitchedTo

LEMMA SwitchKeeps ==
    ASSUME IInv, NEW c \in CPU, NEW tasks, Current(c), Descheduled(c, tasks), __schedule(c, tasks),
           loop' \in [Task -> {"awake", "test", "schedule"}]
    PROVE  IInv'
<1>1. at[c] = Run /\ prev[c] = Nobody /\ curr[c] \in Task \cup {Idle, Stop}
  BY DEF Current, IInv, TypeOK
<1>2. need' \subseteq CPU /\ UNCHANGED <<event, at, wake_list, ipi, work, online, active, dying, build>>
  BY DEF __schedule, plug, IInv, TypeOK
<1>3. PICK next : SwitchedTo(c, tasks, next)
  BY Switched
<1>4. next \in Task \cup {Idle, Stop} /\ (next \in Task => tasks[next].on_rq /\ tasks[next].cpu = c)
  BY <1>3 DEF SwitchedTo
<1>5. /\ curr' \in [CPU -> Task \cup {Idle, Stop}]
      /\ prev' \in [CPU -> Task \cup {Idle, Stop, Nobody}]
      /\ curr'[c] = next /\ prev'[c] = IF next = curr[c] THEN Nobody ELSE curr[c]
      /\ \A d \in CPU : d # c => curr'[d] = curr[d] /\ prev'[d] = prev[d]
  BY <1>3 DEF SwitchedTo
<1>6. /\ task' \in [Task -> Fields]
      /\ \A t \in Task : /\ task'[t].cpu = tasks[t].cpu /\ task'[t].state = tasks[t].state
                         /\ task'[t].on_rq <=> tasks[t].on_rq
                         /\ task'[t].on_cpu <=> tasks[t].on_cpu \/ (t = next /\ next # curr[c])
  BY <1>3 DEF SwitchedTo
<1>7. TypeOK'
  BY <1>2, <1>5, <1>6 DEF IInv, TypeOK, Fields
<1>8. StacksOK'
  <2>1. ASSUME NEW d \in CPU, NEW t \in Task, t \in {curr'[d], prev'[d]}
        PROVE  task'[t].cpu = d /\ task'[t].on_cpu
    <3>1. CASE d # c
      BY <1>5, <1>6, <2>1, <3>1 DEF IInv, StacksOK, Descheduled
    <3>2. CASE d = c /\ t = next
      BY <1>1, <1>4, <1>6, <3>2 DEF IInv, StacksOK, Descheduled
    <3>3. CASE d = c /\ t # next
      <4>1. t = curr[c]
        BY <1>5, <2>1, <3>3, Names
      <4> QED BY <1>6, <3>3, <4>1 DEF IInv, StacksOK, Descheduled
    <3> QED BY <3>1, <3>2, <3>3
  <2>2. ASSUME NEW t \in Task, task'[t].on_cpu
        PROVE  t \in {curr'[task'[t].cpu], prev'[task'[t].cpu]}
    <3>1. CASE t = next
      BY <1>4, <1>5, <1>6, <3>1
    <3>2. CASE t # next
      <4>1. task[t].on_cpu /\ task'[t].cpu = task[t].cpu /\ task[t].cpu \in CPU
        BY <1>6, <2>2, <3>2 DEF Descheduled, IInv, TypeOK
      <4>2. t \in {curr[task[t].cpu], prev[task[t].cpu]}
        BY <4>1 DEF IInv, StacksOK
      <4>3. CASE task[t].cpu = c
        BY <1>1, <1>5, <3>2, <4>1, <4>2, <4>3, Names
      <4>4. CASE task[t].cpu # c
        BY <1>5, <4>1, <4>2, <4>4
      <4> QED BY <4>3, <4>4
    <3> QED BY <3>1, <3>2
  <2>3. ASSUME NEW d \in CPU
        PROVE  (curr'[d] \in Task => task'[curr'[d]].on_rq) /\ curr'[d] # prev'[d]
    <3>1. CASE d = c
      BY <1>1, <1>4, <1>5, <1>6, <3>1, Names
    <3>2. CASE d # c
      <4>1. curr'[d] = curr[d] /\ prev'[d] = prev[d]
        BY <1>5, <3>2
      <4>2. curr[d] \in Task => curr[d] # curr[c]
        BY <3>2 DEF IInv, StacksOK
      <4> QED BY <1>6, <4>1, <4>2 DEF IInv, StacksOK, Descheduled
    <3> QED BY <3>1, <3>2
  <2> QED BY <2>1, <2>2, <2>3 DEF StacksOK
<1>9. StatesOK'
  <2>1. \A t \in Task : t = curr[c] => task[t].on_rq
    BY DEF IInv, StacksOK
  <2> QED BY <1>6, <2>1 DEF IInv, StatesOK, Descheduled
<1>10. WorkOK' /\ IpiOK' /\ PiOK'
  BY <1>2 DEF IInv, WorkOK, IpiOK, PiOK
<1>11. \A t \in Task : t = curr[c] => task[t].on_rq /\ task[t].state # "waking" /\ task'[t].state # "waking"
  BY <1>6 DEF IInv, StacksOK, StatesOK, Descheduled
<1>12. AtOK'
  <2>1. \A d \in CPU : at[d].in \in {"remote", "queue"} => at[d].p \in Task
    BY PositionFacts DEF IInv, Waking
  <2>2. \A d \in CPU : at[d].in = "spin" => at[d].p \in Task /\ at[d].p # curr[c]
    BY <1>11, PositionFacts DEF IInv, AtOK, Waking
  <2>3. \A d \in CPU : at[d] # Run => d # c
    BY <1>1
  <2>4. \A d \in CPU : at[d].in \in Moving => d # c
    BY <1>1, PlaceFields DEF Moving
  <2> QED BY <1>2, <1>5, <1>6, <1>11, <2>1, <2>2, <2>3, <2>4 DEF IInv, AtOK, Descheduled
<1>13. PlacesOK'
  <2>1. PICK ps \in SUBSET Task : ps = {t \in Task : t = curr[c]}
    OBVIOUS
  <2>2. \A t \in Task, d \in CPU, w \in Hands : InHands(t, d, w)' <=> InHands(t, d, w)
    BY <1>2 DEF InHands
  <2>3. \A t \in ps, d \in CPU, w \in Hands : ~InHands(t, d, w)'
    BY <1>11, <2>1, <2>2, OnlyHands DEF IInv
  <2>4. \A t \in Task \ ps : task'[t].state = task[t].state
    BY <1>6, <2>1 DEF Descheduled
  <2>5. \A t \in ps : task'[t].state # "waking"
    BY <1>11, <2>1
  <2> QED BY <2>2, <2>3, <2>4, <2>5, HandsLetGo DEF IInv
<1> QED BY <1>7, <1>8, <1>9, <1>10, <1>12, <1>13 DEF IInv

\* schedule() and a preemption are such a switch.
LEMMA Rescheduled ==
    ASSUME IInv, NEW c \in CPU, Schedule(c) \/ PreemptSchedule(c)
    PROVE  Current(c) /\ \E tasks : Descheduled(c, tasks) /\ __schedule(c, tasks)
<1>1. CASE Schedule(c)
  <2>1. PICK t \in Task : t = curr[c]
    BY <1>1 DEF Schedule
  <2>2. task \in [Task -> Fields] /\ task[t].on_rq /\ task[t].state # "waking" /\ Current(c)
    BY <1>1, <2>1 DEF Schedule, IInv, StacksOK, StatesOK, TypeOK, Fields
  <2>3. CASE task[t].state = "sleep" /\ __schedule(c, [task EXCEPT ![t].on_rq = FALSE])
    <3>1. Descheduled(c, [task EXCEPT ![t].on_rq = FALSE])
      <4>1. PICK u : u = [task[t] EXCEPT !.on_rq = FALSE]
        OBVIOUS
      <4>2. u \in Fields /\ u.state = "sleep" /\ u.cpu = task[t].cpu /\ u.on_cpu = task[t].on_cpu
        BY <2>2, <2>3, <4>1 DEF Fields
      <4>3. [task EXCEPT ![t].on_rq = FALSE] = [task EXCEPT ![t] = u]
        BY <4>1
      <4> QED BY <2>1, <2>2, <4>2, <4>3 DEF Descheduled
    <3> QED BY <2>2, <2>3, <3>1
  <2>4. CASE __schedule(c, [task EXCEPT ![t].state = "running"])
    <3>1. Descheduled(c, [task EXCEPT ![t].state = "running"])
      BY <2>1, <2>2 DEF Descheduled, Fields
    <3> QED BY <2>2, <2>4, <3>1
  <2> QED BY <1>1, <2>1, <2>3, <2>4 DEF Schedule
<1>2. CASE PreemptSchedule(c)
  <2>1. Descheduled(c, task)
    BY DEF IInv, TypeOK, StacksOK, StatesOK, Descheduled, Fields
  <2> QED BY <1>2, <2>1 DEF PreemptSchedule
<1> QED BY <1>1, <1>2

LEMMA RescheduleKeeps ==
    ASSUME IInv, NEW c \in CPU, Schedule(c) \/ PreemptSchedule(c)
    PROVE  IInv'
<1>1. loop' \in [Task -> {"awake", "test", "schedule"}]
  BY DEF Schedule, PreemptSchedule, IInv, TypeOK
<1> QED BY <1>1, Rescheduled, SwitchKeeps

-----------------------------------------------------------------------------
(* Affinity, the stopper and hotplug keep IInv. *)

\* A step after which every thread has its state and its CPU and every CPU is
\* where it was.
LEMMA StandStill ==
    ASSUME IInv, TypeOK', WorkOK', IpiOK',
           UNCHANGED <<curr, prev, at, wake_list, build>>,
           \A t \in Task : /\ task'[t].state = task[t].state /\ task'[t].cpu = task[t].cpu
                           /\ task'[t].on_rq <=> task[t].on_rq
                           /\ task'[t].on_cpu <=> task[t].on_cpu,
           online \subseteq online'
    PROVE  IInv'
<1>1. StacksOK' /\ StatesOK'
  BY DEF IInv, StacksOK, StatesOK
<1>2. PiOK'
  BY DEF IInv, PiOK
<1>3. AtOK'
  <2>1. \A d \in CPU : at[d].in \in {"remote", "spin", "queue"} => at[d].p \in Task
    BY PositionFacts DEF IInv, Waking
  <2> QED BY <2>1 DEF IInv, AtOK
<1>4. PlacesOK'
  <2>1. \A t \in Task, d \in CPU, w \in Hands : InHands(t, d, w)' <=> InHands(t, d, w)
    BY DEF InHands
  <2>2. {} \in SUBSET Task
    OBVIOUS
  <2> QED BY <2>1, <2>2, HandsLetGo DEF IInv
<1> QED BY <1>1, <1>2, <1>3, <1>4 DEF IInv

LEMMA AllowedKeeps ==
    ASSUME IInv, NEW p \in Task, NEW mask \in Masks, set_cpus_allowed_ptr(p, mask)
    PROVE  IInv'
<1>1. mask \in (SUBSET CPU) \ {{}} /\ task[p].cpu \in CPU
  BY MaskAssumption DEF set_cpus_allowed_ptr, IInv, TypeOK
<1>2. PICK src \in CPU : src = task[p].cpu
  BY <1>1
<1>3. /\ task' \in [Task -> Fields]
      /\ \A t \in Task : /\ task'[t].state = task[t].state /\ task'[t].cpu = task[t].cpu
                         /\ task'[t].on_rq <=> task[t].on_rq
                         /\ task'[t].on_cpu <=> task[t].on_cpu
  BY <1>1 DEF set_cpus_allowed_ptr, IInv, TypeOK, Fields
<1>4. /\ work' \in [CPU -> SUBSET (Task \X CPU)] /\ need' \subseteq CPU
      /\ \A c \in CPU : \A w \in work'[c] : w[2] # c
  <2>1. CASE UNCHANGED <<work, need>>
    BY <2>1 DEF IInv, TypeOK, WorkOK
  <2>2. CASE src \notin mask /\ \E dest \in mask \cap active : /\ work' = [work EXCEPT ![src] = @ \cup {<<p, dest>>}]
                                                             /\ need' = need \cup {src}
    <3>1. PICK dest \in mask \cap active : work' = [work EXCEPT ![src] = @ \cup {<<p, dest>>}] /\ need' = need \cup {src}
      BY <2>2
    <3>2. dest \in CPU /\ dest # src
      BY <1>1, <2>2
    <3>3. work \in [CPU -> SUBSET (Task \X CPU)] /\ need \subseteq CPU
      BY DEF IInv, TypeOK
    <3>4. work' \in [CPU -> SUBSET (Task \X CPU)] /\ need' \subseteq CPU
      BY <3>1, <3>2, <3>3
    <3>5. \A c \in CPU : \A w \in work'[c] : w[2] # c
      BY <3>1, <3>2, <3>3 DEF IInv, WorkOK
    <3> QED BY <3>4, <3>5
  <2> QED BY <1>2, <2>1, <2>2 DEF set_cpus_allowed_ptr
<1>5. UNCHANGED <<loop, event, curr, prev, at, wake_list, ipi, online, active, dying, build>>
  BY DEF set_cpus_allowed_ptr, plug
<1>6. TypeOK'
  BY <1>3, <1>4, <1>5 DEF IInv, TypeOK, Fields
<1>7. WorkOK' /\ IpiOK'
  BY <1>4, <1>5 DEF IInv, WorkOK, IpiOK
<1> QED BY <1>3, <1>5, <1>6, <1>7, StandStill

LEMMA ExecKeeps ==
    ASSUME IInv, NEW c \in CPU, sched_exec(c)
    PROVE  IInv'
<1>1. PICK t \in Task : t = curr[c]
  BY MaskAssumption DEF sched_exec
<1>2. PICK dest \in (task[t].allowed \cap active) \ {c} : work' = [work EXCEPT ![c] = @ \cup {<<t, dest>>}]
  BY <1>1 DEF sched_exec
<1>3. work \in [CPU -> SUBSET (Task \X CPU)] /\ need' \subseteq CPU /\ dest \in CPU
  BY DEF sched_exec, IInv, TypeOK
<1>4. work' \in [CPU -> SUBSET (Task \X CPU)]
  BY <1>2, <1>3
<1>5. \A d \in CPU : \A w \in work'[d] : w[2] # d
  BY <1>2, <1>3 DEF IInv, WorkOK
<1>6. UNCHANGED <<task, loop, event, curr, prev, at, wake_list, ipi, online, active, dying, build>>
  BY DEF sched_exec, plug
<1>7. TypeOK'
  BY <1>3, <1>4, <1>6 DEF IInv, TypeOK
<1>8. WorkOK' /\ IpiOK'
  BY <1>5, <1>6 DEF IInv, WorkOK, IpiOK
<1> QED BY <1>6, <1>7, <1>8, StandStill

LEMMA MigrationStopKeeps ==
    ASSUME IInv, NEW c \in CPU, MigrationStop(c)
    PROVE  IInv'
<1>1. at[c] = Run /\ c \in online /\ prev[c] = Nobody /\ curr[c] = Stop
  BY DEF MigrationStop, Current
<1>2. PICK w \in work[c] :
         /\ work' = [work EXCEPT ![c] = @ \ {w}]
         /\ \/ w[2] \notin active /\ UNCHANGED at
            \/ /\ w[2] \in active /\ PiFree(w[1])
               /\ at' = [at EXCEPT ![c] = [in |-> "migrate", p |-> w[1], dest |-> w[2], first |-> lock_first(c, w[2])]]
  BY DEF MigrationStop
<1>3. w \in Task \X CPU /\ w[1] \in Task /\ w[2] \in CPU /\ w[2] # c
  BY DEF IInv, TypeOK, WorkOK
<1>4. work' \in [CPU -> SUBSET (Task \X CPU)] /\ \A d \in CPU : work'[d] \subseteq work[d]
  BY <1>2 DEF IInv, TypeOK
<1>5. UNCHANGED <<task, loop, event, curr, prev, need, wake_list, ipi, online, active, dying, build>>
  BY DEF MigrationStop, cpus, plug
<1>6. WorkOK' /\ IpiOK'
  BY <1>4, <1>5 DEF IInv, WorkOK, IpiOK
<1>7. CASE UNCHANGED at
  <2>1. TypeOK'
    BY <1>4, <1>5, <1>7 DEF IInv, TypeOK
  <2> QED BY <1>5, <1>6, <1>7, <2>1, StandStill
<1>8. CASE PiFree(w[1]) /\ at' = [at EXCEPT ![c] = Migrant("migrate", w[1], w[2], lock_first(c, w[2]))]
  <2>1. PICK x : x = Migrant("migrate", w[1], w[2], lock_first(c, w[2]))
    OBVIOUS
  <2>2. /\ x \in Positions /\ x.in = "migrate" /\ x.p = w[1] /\ x.dest = w[2]
        /\ x.first = lock_first(c, w[2])
    BY <1>3, <2>1, PositionsAre, PlaceFields DEF Moving, lock_first
  <2>3. at' \in [CPU -> Positions] /\ \A d \in CPU : at'[d] = IF d = c THEN x ELSE at[d]
    BY <1>8, <2>1, <2>2, MoveTo DEF IInv
  <2>4. TypeOK'
    BY <1>4, <1>5, <2>3 DEF IInv, TypeOK
  <2>5. StacksOK' /\ StatesOK'
    BY <1>5 DEF IInv, StacksOK, StatesOK
  <2>6. PiOK'
    BY <1>8, <2>2, <2>3 DEF IInv, PiOK, HoldsPi, PiFree
  <2>7. AtOK'
    BY <1>1, <1>3, <1>5, <2>2, <2>3 DEF IInv, AtOK, Moving, lock_first
  <2>8. PlacesOK'
    <3>1. at[c].in = "run"
      BY <1>1, PlaceFields
    <3>2. \A t \in Task, d \in CPU, v \in Hands : InHands(t, d, v)' <=> InHands(t, d, v)
      BY <1>5, <2>2, <2>3, <3>1 DEF InHands
    <3>3. {} \in SUBSET Task
      OBVIOUS
    <3> QED BY <1>5, <3>2, <3>3, HandsLetGo DEF IInv
  <2> QED BY <1>6, <2>4, <2>5, <2>6, <2>7, <2>8 DEF IInv
<1> QED BY <1>2, <1>7, <1>8 DEF Migrant

LEMMA MigrateLockKeeps ==
    ASSUME IInv, NEW c \in CPU, MigrateLock(c)
    PROVE  IInv'
<1>1. at[c].in = "migrate" /\ at[c] # Run
  BY PlaceFields DEF MigrateLock
<1>2. PICK p \in Task, dest \in CPU, f \in CPU : at[c] = Migrant("migrate", p, dest, f)
  BY <1>1, PositionFacts DEF IInv, Moving
<1>3. [at[c] EXCEPT !.in = "migrate2"] = Migrant("migrate2", p, dest, f)
  BY <1>2 DEF Migrant
<1>4. PICK x : x = Migrant("migrate2", p, dest, f)
  OBVIOUS
<1>5. /\ x \in Positions /\ x.in = "migrate2" /\ x.p = p /\ x.dest = dest /\ x.first = f
      /\ at[c].p = p /\ at[c].dest = dest /\ at[c].first = f
  BY <1>2, <1>4, PositionsAre, PlaceFields DEF Moving
<1>6. at' \in [CPU -> Positions] /\ \A d \in CPU : at'[d] = IF d = c THEN x ELSE at[d]
  <2>1. at' = [at EXCEPT ![c] = x]
    BY <1>3, <1>4 DEF MigrateLock
  <2> QED BY <1>5, <2>1, MoveTo DEF IInv
<1>7. UNCHANGED <<task, loop, event, curr, prev, need, wake_list, ipi, work, online, active, dying, build>>
  BY DEF MigrateLock, cpus, plug
<1>8. TypeOK'
  BY <1>6, <1>7 DEF IInv, TypeOK
<1>9. StacksOK' /\ StatesOK' /\ WorkOK' /\ IpiOK'
  BY <1>7 DEF IInv, StacksOK, StatesOK, WorkOK, IpiOK
<1>10. PiOK'
  <2>1. \A d \in CPU : /\ at'[d].in \in HoldsPi <=> at[d].in \in HoldsPi
                       /\ at'[d].in \in HoldsPi => at'[d].p = at[d].p
    BY <1>1, <1>5, <1>6 DEF HoldsPi
  <2> QED BY <2>1, PiKept DEF IInv
<1>11. AtOK'
  BY <1>1, <1>5, <1>6, <1>7 DEF IInv, AtOK, Moving, lock_first
<1>12. PlacesOK'
  <2>1. \A t \in Task, d \in CPU, v \in Hands : InHands(t, d, v)' <=> InHands(t, d, v)
    BY <1>1, <1>5, <1>6, <1>7 DEF InHands
  <2>2. {} \in SUBSET Task
    OBVIOUS
  <2> QED BY <1>7, <2>1, <2>2, HandsLetGo DEF IInv
<1> QED BY <1>8, <1>9, <1>10, <1>11, <1>12 DEF IInv

\* What __migrate_task does to the threads.
LEMMA Migrated ==
    ASSUME IInv, NEW c \in CPU, __migrate_task(c), NEW p \in Task, p = at[c].p
    PROVE  /\ task' \in [Task -> Fields]
           /\ \A t \in Task : /\ task'[t].state = task[t].state
                              /\ task'[t].on_rq <=> task[t].on_rq
                              /\ task'[t].on_cpu <=> task[t].on_cpu
                              /\ task'[t].cpu # task[t].cpu =>
                                    t = p /\ task[t].cpu = c /\ task'[t].cpu \in task'[t].allowed
<1>1. PICK dest \in CPU : dest = at[c].dest
  BY PositionFacts DEF __migrate_task, IInv, Moving
<1>2. task \in [Task -> Fields]
  BY DEF IInv, TypeOK, Fields
<1>3. CASE UNCHANGED task
  BY <1>2, <1>3
<1>4. CASE task[p].cpu = c /\ dest \in task[p].allowed /\ task' = [task EXCEPT ![p] = set_task_cpu(@, dest)]
  <2>1. task' = [task EXCEPT ![p] = [task[p] EXCEPT !.cpu = dest]]
    BY <1>4 DEF set_task_cpu
  <2>2. task' \in [Task -> Fields]
    BY <1>2, <2>1 DEF Fields
  <2>3. \A t \in Task \ {p} : task'[t] = task[t]
    BY <1>2, <2>1
  <2>4. /\ task'[p].state = task[p].state /\ task'[p].on_rq = task[p].on_rq
        /\ task'[p].on_cpu = task[p].on_cpu
        /\ task'[p].cpu = dest /\ task'[p].allowed = task[p].allowed
    BY <1>2, <2>1 DEF Fields
  <2> QED BY <1>4, <2>2, <2>3, <2>4
<1> QED BY <1>1, <1>3, <1>4 DEF __migrate_task

LEMMA MigrateTaskKeeps ==
    ASSUME IInv, NEW c \in CPU, __migrate_task(c)
    PROVE  IInv'
<1>1. at[c].in = "migrate2" /\ at[c] # Run
  BY PlaceFields DEF __migrate_task
<1>2. PICK p \in Task, dest \in CPU : p = at[c].p /\ dest = at[c].dest
  BY <1>1, PositionFacts DEF IInv, Moving
<1>3. curr[c] = Stop /\ prev[c] = Nobody
  BY <1>1 DEF IInv, AtOK, Moving
<1>4. at' \in [CPU -> Positions] /\ \A d \in CPU : at'[d] = IF d = c THEN Run ELSE at[d]
  BY MoveTo, PositionsAre DEF IInv, __migrate_task
<1>5. Run.in = "run"
  BY PlaceFields
<1>6. UNCHANGED <<loop, event, curr, prev, wake_list, ipi, work, online, active, dying, build>>
  BY DEF __migrate_task, plug
<1>7. need' \subseteq CPU
  BY <1>2 DEF __migrate_task, check_preempt_curr, IInv, TypeOK
<1>8. /\ task' \in [Task -> Fields]
      /\ \A t \in Task : /\ task'[t].state = task[t].state
                         /\ task'[t].on_rq <=> task[t].on_rq
                         /\ task'[t].on_cpu <=> task[t].on_cpu
                         /\ task'[t].cpu # task[t].cpu => t = p /\ task[t].cpu = c
  BY <1>2, Migrated
<1>9. TypeOK'
  BY <1>4, <1>6, <1>7, <1>8 DEF IInv, TypeOK, Fields
<1>10. ASSUME NEW t \in Task, task'[t].cpu # task[t].cpu
       PROVE  /\ ~task[t].on_cpu
              /\ \A d \in CPU : t \notin {curr[d], prev[d]}
  <2>1. task[t].cpu = c /\ t \notin {curr[c], prev[c]}
    BY <1>3, <1>8, <1>10, Names
  <2> QED BY <2>1 DEF IInv, StacksOK
<1>11. StacksOK'
  BY <1>6, <1>8, <1>10 DEF IInv, StacksOK
<1>12. StatesOK' /\ WorkOK' /\ IpiOK'
  BY <1>6, <1>8 DEF IInv, StatesOK, WorkOK, IpiOK
<1>13. PiOK'
  BY <1>4, <1>5 DEF IInv, PiOK, HoldsPi
<1>14. AtOK'
  <2>1. ASSUME NEW d \in CPU, d # c, at[d].in \in {"remote", "spin", "queue"}
        PROVE  at[d].p \in Task /\ task'[at[d].p].cpu = task[at[d].p].cpu
    <3>1. at[d].p # p
      BY <1>1, <1>2, <2>1 DEF IInv, PiOK, HoldsPi
    <3> QED BY <1>8, <2>1, <3>1, PositionFacts DEF IInv, Waking
  <2> QED BY <1>4, <1>5, <1>6, <1>8, <2>1 DEF IInv, AtOK, Moving
<1>15. PlacesOK'
  <2>1. \A t \in Task, d \in CPU, v \in Hands : InHands(t, d, v)' <=> InHands(t, d, v)
    BY <1>1, <1>4, <1>5, <1>6 DEF InHands
  <2>2. {} \in SUBSET Task
    OBVIOUS
  <2> QED BY <1>8, <2>1, <2>2, HandsLetGo DEF IInv
<1> QED BY <1>9, <1>11, <1>12, <1>13, <1>14, <1>15 DEF IInv

LEMMA PlugKeeps ==
    ASSUME IInv, NEW d \in CPU, CpuDownPrepare(d) \/ CpuDownFailed(d) \/ StopMachine(d) \/ CpuUp(d)
    PROVE  IInv'
<1>1. UNCHANGED <<task, loop, event, curr, prev, at, wake_list, ipi, work, build>> /\ online \subseteq online'
  BY DEF CpuDownPrepare, CpuDownFailed, StopMachine, CpuUp, cpus
<1>2. need' \subseteq CPU
  BY DEF CpuDownPrepare, CpuDownFailed, StopMachine, CpuUp, cpus, IInv, TypeOK
<1>3. /\ active' \subseteq online' /\ online' \subseteq CPU /\ active' # {}
      /\ dying' \in CPU \cup {Nobody}
      /\ dying' # Nobody => dying' \in online' \ active'
  BY DEF CpuDownPrepare, CpuDownFailed, StopMachine, CpuUp, IInv, TypeOK, WorkOK
<1>4. TypeOK'
  BY <1>1, <1>2, <1>3 DEF IInv, TypeOK
<1>5. WorkOK' /\ IpiOK'
  BY <1>1, <1>3 DEF IInv, WorkOK, IpiOK
<1> QED BY <1>1, <1>4, <1>5, StandStill

\* What CPU_DYING does to the threads: those on the wake_list are queued, and
\* every queued thread is given a CPU it may use.
LEMMA Evacuated ==
    ASSUME IInv, CpuDying
    PROVE  /\ task' \in [Task -> Fields]
           /\ \A t \in wake_list[dying] : t \in Task /\ task'[t].on_rq /\ task'[t].state = "running"
           /\ \A t \in Task \ wake_list[dying] : task'[t].state = task[t].state /\ (task'[t].on_rq <=> task[t].on_rq)
           /\ \A t \in Task : /\ task'[t].on_cpu <=> task[t].on_cpu
                              /\ task'[t].cpu # task[t].cpu => task[t].cpu = dying /\ task'[t].cpu \in task'[t].allowed
<1>1. PICK d \in CPU : d = dying /\ d \in online \ active /\ d # Nobody
  BY DEF CpuDying, IInv, TypeOK, WorkOK
<1>2. PICK ps \in SUBSET Task : ps = wake_list[d]
  BY <1>1 DEF IInv, TypeOK
<1>3. PICK woken : /\ woken \in [Task -> Fields]
                   /\ woken = [t \in Task |-> IF t \in ps THEN [task[t] EXCEPT !.on_rq = TRUE, !.state = "running"] ELSE task[t]]
  <2> DEFINE new == [t \in Task |-> IF t \in ps THEN [task[t] EXCEPT !.on_rq = TRUE, !.state = "running"] ELSE task[t]]
  <2>1. ASSUME NEW t \in Task
        PROVE  new[t] \in Fields
    <3>1. task[t] \in Fields
      BY DEF IInv, TypeOK, Fields
    <3>2. CASE t \in ps
      <4>1. new[t] = [task[t] EXCEPT !.on_rq = TRUE, !.state = "running"]
        BY <3>2
      <4> QED BY <3>1, <4>1 DEF Fields
    <3>3. CASE t \notin ps
      BY <3>1, <3>3
    <3> QED BY <3>2, <3>3
  <2> QED BY <2>1
<1>4. \A t \in Task : /\ woken[t].cpu = task[t].cpu /\ (woken[t].on_cpu <=> task[t].on_cpu)
                      /\ t \in ps => woken[t].on_rq /\ woken[t].state = "running"
                      /\ t \notin ps => woken[t] = task[t]
  <2>1. task \in [Task -> Fields]
    BY Zenon DEF IInv, TypeOK, Fields
  <2>2. ASSUME NEW t \in Task
        PROVE  /\ woken[t].cpu = task[t].cpu /\ (woken[t].on_cpu <=> task[t].on_cpu)
               /\ t \in ps => woken[t].on_rq /\ woken[t].state = "running"
               /\ t \notin ps => woken[t] = task[t]
    <3>1. task[t] \in Fields
      BY <2>1
    <3>2. CASE t \in ps
      <4>1. woken[t] = [task[t] EXCEPT !.on_rq = TRUE, !.state = "running"]
        BY <1>3, <3>2
      <4> QED BY <3>1, <3>2, <4>1 DEF Fields
    <3>3. CASE t \notin ps
      BY <1>3, <3>3
    <3> QED BY <3>2, <3>3
  <2> QED BY <2>2
<1> DEFINE moved == {t \in Task : woken[t].on_rq /\ woken[t].cpu = d}
<1>5. moved = {t \in Task : woken[t].on_rq /\ woken[t].cpu = d} /\ moved \subseteq Task
  OBVIOUS
<1> HIDE DEF moved
<1>6. PICK to \in [moved -> UNION {select_fallback_rq(t) : t \in moved}] :
         /\ \A t \in moved : to[t] \in select_fallback_rq(t)
         /\ task' = [t \in Task |-> IF t \in moved THEN set_task_cpu([woken[t] EXCEPT !.allowed = to[t].allowed], to[t].cpu)
                                   ELSE woken[t]]
  <2> DEFINE W == [t \in Task |-> IF t \in wake_list[dying] THEN [task[t] EXCEPT !.on_rq = TRUE, !.state = "running"]
                                 ELSE task[t]]
             M == {t \in Task : W[t].on_rq /\ W[t].cpu = dying}
  <2>1. migrate_tasks(W, M)
    BY Zenon DEF CpuDying
  <2>2. W = woken
    BY <1>1, <1>2, <1>3
  <2>3. M = moved
    BY <1>1, <1>5, <2>2
  <2>4. migrate_tasks(woken, moved)
    BY <2>1, <2>2, <2>3
  <2> QED BY <2>4 DEF migrate_tasks
<1>7. /\ task' \in [Task -> Fields]
      /\ \A t \in Task : /\ task'[t].state = woken[t].state
                         /\ task'[t].on_rq <=> woken[t].on_rq
                         /\ task'[t].on_cpu <=> task[t].on_cpu
                         /\ task'[t].cpu # task[t].cpu => t \in moved /\ task'[t].cpu \in task'[t].allowed
  <2>1. ASSUME NEW t \in Task
        PROVE  /\ task'[t] \in Fields /\ task'[t].state = woken[t].state
               /\ task'[t].on_rq <=> woken[t].on_rq
               /\ task'[t].on_cpu <=> task[t].on_cpu
               /\ task'[t].cpu # task[t].cpu => t \in moved /\ task'[t].cpu \in task'[t].allowed
    <3>1. woken[t] \in Fields
      BY <1>3
    <3>2. CASE t \in moved
      <4>1. to[t].cpu \in CPU /\ to[t].cpu \in to[t].allowed /\ to[t].allowed \in (SUBSET CPU) \ {{}}
        BY <1>6, <3>2, Fallback DEF IInv
      <4>2. task'[t] = [[woken[t] EXCEPT !.allowed = to[t].allowed] EXCEPT !.cpu = to[t].cpu]
        BY <1>6, <3>2 DEF set_task_cpu
      <4>3. /\ task'[t] \in Fields /\ task'[t].state = woken[t].state
            /\ task'[t].on_rq = woken[t].on_rq /\ task'[t].on_cpu = woken[t].on_cpu
        BY <3>1, <4>1, <4>2 DEF Fields
      <4>4. task'[t].cpu = to[t].cpu /\ task'[t].allowed = to[t].allowed
        BY <3>1, <4>1, <4>2 DEF Fields
      <4> QED BY <1>4, <3>2, <4>1, <4>3, <4>4
    <3>3. CASE t \notin moved
      BY <1>4, <1>6, <3>1, <3>3
    <3> QED BY <3>2, <3>3
  <2>2. task' \in [Task -> Fields]
    BY <1>6, <2>1
  <2> QED BY <2>1, <2>2
<1> QED BY <1>1, <1>2, <1>4, <1>5, <1>7

LEMMA DyingKeeps ==
    ASSUME IInv, CpuDying
    PROVE  IInv'
<1>1. PICK d \in CPU : d = dying /\ d \in online \ active /\ d # Nobody
  BY DEF CpuDying, IInv, TypeOK, WorkOK
<1>2. \A c \in online : at[c] = Run /\ prev[c] = Nobody /\ curr[c] = Stop
  BY DEF CpuDying, Current
<1>3. \A c \in CPU : at[c] = Run /\ at[c].in = "run"
  BY <1>2, PlaceFields DEF IInv, AtOK
<1>4. PICK ps \in SUBSET Task : ps = wake_list[d]
  BY DEF IInv, TypeOK
<1>5. /\ task' \in [Task -> Fields]
      /\ \A t \in ps : task'[t].on_rq /\ task'[t].state = "running"
      /\ \A t \in Task \ ps : task'[t].state = task[t].state /\ (task'[t].on_rq <=> task[t].on_rq)
      /\ \A t \in Task : /\ task'[t].on_cpu <=> task[t].on_cpu
                         /\ task'[t].cpu # task[t].cpu => task[t].cpu = d
  BY <1>1, <1>4, Evacuated
<1>6. /\ UNCHANGED <<loop, event, prev, at, active, build>>
       /\ need' \subseteq CPU /\ ipi' = ipi \ {d} /\ online' = online \ {d} /\ dying' = Nobody
       /\ curr' \in [CPU -> Task \cup {Idle, Stop}]
       /\ wake_list' \in [CPU -> SUBSET Task] /\ work' \in [CPU -> SUBSET (Task \X CPU)]
       /\ \A c \in CPU : /\ curr'[c] = IF c = d THEN Idle ELSE curr[c]
                         /\ wake_list'[c] = IF c = d THEN {} ELSE wake_list[c]
                         /\ work'[c] = IF c = d THEN {} ELSE work[c]
  BY <1>1 DEF CpuDying, IInv, TypeOK
<1>7. TypeOK'
  BY <1>1, <1>5, <1>6 DEF IInv, TypeOK, Fields
<1>8. StacksOK'
  <2>1. ASSUME NEW t \in Task, task'[t].cpu # task[t].cpu
        PROVE  ~task[t].on_cpu /\ \A c \in CPU : t \notin {curr[c], prev[c]}
    <3>1. task[t].cpu = d /\ t \notin {curr[d], prev[d]}
      BY <1>1, <1>2, <1>5, <2>1, Names
    <3> QED BY <3>1 DEF IInv, StacksOK
  <2>2. \A c \in CPU, t \in Task : t \in {curr'[c], prev'[c]} => task'[t].cpu = c /\ task'[t].on_cpu
    BY <1>5, <1>6, <2>1, Names DEF IInv, StacksOK
  <2>3. ASSUME NEW t \in Task, task'[t].on_cpu
        PROVE  t \in {curr'[task'[t].cpu], prev'[task'[t].cpu]}
    <3>1. task[t].on_cpu /\ task'[t].cpu = task[t].cpu /\ task[t].cpu \in CPU
      BY <1>5, <2>1, <2>3 DEF IInv, TypeOK
    <3>2. t \in {curr[task[t].cpu], prev[task[t].cpu]}
      BY <3>1 DEF IInv, StacksOK
    <3>3. task[t].cpu # d
      BY <1>1, <1>2, <3>2, Names
    <3> QED BY <1>6, <3>1, <3>2, <3>3
  <2>4. \A c \in CPU : curr'[c] \in Task => task'[curr'[c]].on_rq
    BY <1>5, <1>6, Names DEF IInv, StacksOK
  <2>5. \A c \in CPU : curr'[c] # prev'[c]
    BY <1>1, <1>2, <1>6, Names DEF IInv, StacksOK
  <2> QED BY <2>2, <2>3, <2>4, <2>5 DEF StacksOK
<1>9. StatesOK'
  BY <1>5 DEF IInv, StatesOK
<1>10. WorkOK' /\ IpiOK'
  BY <1>6 DEF IInv, WorkOK, IpiOK
<1>11. PiOK' /\ AtOK'
  BY <1>3, <1>6 DEF PiOK, AtOK, HoldsPi, Moving
<1>12. PlacesOK'
  <2>1. \A t \in Task, c \in CPU, w \in Hands : InHands(t, c, w)' <=> InHands(t, c, w) /\ c # d
    BY <1>3, <1>6 DEF InHands
  <2>2. \A t \in ps : t \in Task /\ InHands(t, d, "list")
    BY <1>4 DEF InHands
  <2>3. \A t \in ps, c \in CPU, w \in Hands : ~InHands(t, c, w)'
    BY <2>1, <2>2, OnlyHands DEF IInv, Hands
  <2>4. \A t \in Task \ ps, c \in CPU, w \in Hands : InHands(t, c, w)' <=> InHands(t, c, w)
    <3>1. \A t \in Task \ ps, w \in Hands : ~InHands(t, d, w)
      BY <1>3, <1>4 DEF InHands
    <3> QED BY <2>1, <3>1
  <2>5. /\ \A t \in ps : task'[t].state # "waking"
        /\ \A t \in Task \ ps : task'[t].state = task[t].state
    BY <1>5
  <2> QED BY <2>3, <2>4, <2>5, HandsLetGo DEF IInv
<1> QED BY <1>7, <1>8, <1>9, <1>10, <1>11, <1>12 DEF IInv

-----------------------------------------------------------------------------
(* IInv is an invariant. *)

LEMMA NextKeeps == IInv /\ [Next]_vars => IInv'
<1> SUFFICES ASSUME IInv, [Next]_vars PROVE IInv'
  OBVIOUS
<1>1. ASSUME NEW c \in CPU, NEW p \in Task, Post(c, p) PROVE IInv'
  BY <1>1, PostKeeps
<1>2. ASSUME NEW c \in CPU, Busy(c) PROVE IInv'
  BY <1>2, TtwuLockKeeps, RemoteKeeps, ActivateRemoteKeeps, PlaceKeeps, QueueLocalKeeps,
     QueueRemoteKeeps, PendingKeeps, MigrateLockKeeps, MigrateTaskKeeps DEF Busy
<1>3. ASSUME NEW c \in CPU, scheduler_ipi(c) \/ FinishSwitch(c) \/ Stopper(c) PROVE IInv'
  BY <1>3, IpiKeeps, FinishSwitchKeeps, MigrationStopKeeps, RescheduleKeeps DEF Stopper
<1>4. ASSUME NEW c \in CPU, Thread(c) PROVE IInv'
  BY <1>4, SetSleepingKeeps, TestConditionKeeps, RescheduleKeeps, ExecKeeps DEF Thread
<1>5. ASSUME NEW p \in Task, NEW mask \in Masks, set_cpus_allowed_ptr(p, mask) PROVE IInv'
  BY <1>5, AllowedKeeps
<1>6. CASE HotplugStep
  BY <1>6, DyingKeeps, PlugKeeps DEF HotplugStep
<1>7. CASE UNCHANGED vars
  <2>1. UNCHANGED <<task, loop, event, curr, prev, need, at, wake_list, ipi, work, online, active, dying, build>>
    BY <1>7 DEF vars
  <2>2. TypeOK' /\ WorkOK' /\ IpiOK'
    BY <2>1 DEF IInv, TypeOK, WorkOK, IpiOK
  <2> QED BY <2>1, <2>2, StandStill
<1> QED BY <1>1, <1>2, <1>3, <1>4, <1>5, <1>6, <1>7 DEF Next

\* Every reachable state satisfies IInv.
LEMMA Invariant == Spec => []IInv
BY InitInv, NextKeeps, PTL DEF Spec

-----------------------------------------------------------------------------
(* What IInv says of wake-ups and of waiting CPUs. *)

LEMMA HandsAreOne ==
    ASSUME IInv, NEW t \in Task, task[t].state = "waking"
    PROVE  Cardinality({c \in CPU : t \in wake_list[c]})
             + Cardinality({c \in CPU : at[c].in = "queue" /\ at[c].p = t})
             + Cardinality({c \in CPU : at[c].in = "pending" /\ t \in at[c].todo}) = 1
<1> DEFINE L == {c \in CPU : t \in wake_list[c]}
           Q == {c \in CPU : at[c].in = "queue" /\ at[c].p = t}
           P == {c \in CPU : at[c].in = "pending" /\ t \in at[c].todo}
<1>1. PICK e \in CPU, h \in Hands : InHands(t, e, h)
  BY OnlyHands DEF IInv
<1>2. \A c \in CPU, w \in Hands : InHands(t, c, w) => c = e /\ w = h
  BY <1>1, OnlyHands DEF IInv
<1>3. /\ L = {c \in CPU : InHands(t, c, "list")}
      /\ Q = {c \in CPU : InHands(t, c, "queue")}
      /\ P = {c \in CPU : InHands(t, c, "pending")}
  BY DEF InHands
<1>4. /\ L = IF h = "list" THEN {e} ELSE {}
      /\ Q = IF h = "queue" THEN {e} ELSE {}
      /\ P = IF h = "pending" THEN {e} ELSE {}
  BY <1>1, <1>2, <1>3 DEF Hands
<1>5. Cardinality({}) = 0 /\ Cardinality({e}) = 1
  BY FS_EmptySet, FS_Singleton
<1>6. h \in {"list", "queue", "pending"}
  BY DEF Hands
<1> HIDE DEF L, Q, P
<1>7. /\ Cardinality(L) = IF h = "list" THEN 1 ELSE 0
      /\ Cardinality(Q) = IF h = "queue" THEN 1 ELSE 0
      /\ Cardinality(P) = IF h = "pending" THEN 1 ELSE 0
  BY <1>4, <1>5
<1>8. Cardinality(L) + Cardinality(Q) + Cardinality(P) = 1
  BY <1>6, <1>7
<1> QED BY <1>8 DEF L, Q, P

\* No list of wake-ups is left without an interrupt on its way, and a thread in
\* TASK_WAKING is in the hands of exactly one CPU or list (try_to_wake_up,
\* ttwu_queue_remote, scheduler_ipi, sched_ttwu_pending).
THEOREM WakingDelivered == Spec => []WakingIsDelivered
<1>1. IInv => WakingIsDelivered
  BY HandsAreOne DEF WakingIsDelivered, IInv, IpiOK
<1> QED BY <1>1, Invariant, PTL

\* A CPU that another waits for has a lock: a pi_lock, the first of the two
\* queues of a migration, or what it switches with.
LEMMA Holders ==
    ASSUME IInv, NEW c \in CPU, NEW d \in WaitsFor(c)
    PROVE  /\ d \in CPU /\ at[c] # Run
           /\ \/ at[c].in = "wake" /\ at[d].in \in HoldsPi
              \/ at[d] = Run
              \/ /\ at[c].in # "wake" /\ at[d].in = "migrate2"
                 /\ at[c].in = "migrate2" => at[d].first = c + at[c].dest - at[c].first
<1> USE PlaceFields
<1>1. at[c].in \in {"run", "pending"} \cup Waking \cup Moving
  BY PositionFacts DEF IInv
<1>2. \A e \in CPU : prev[e] # Nobody /\ build = "irqs_off" => at[e] = Run
  BY DEF IInv, AtOK
<1>3. CASE at[c].in = "run"
  BY <1>3 DEF WaitsFor
<1>4. CASE at[c].in = "wake"
  BY <1>4 DEF WaitsFor, HoldsPi
<1>5. CASE at[c].in \in {"remote", "queue"}
  BY <1>2, <1>5 DEF WaitsFor
<1>6. CASE at[c].in = "spin"
  <2>1. at[c].p \in Task /\ ~task[at[c].p].on_rq
    BY <1>6, PositionFacts DEF IInv, AtOK, Waking
  <2>2. CASE d \in CPU /\ build = "irqs_off" /\ at[c].p \in {prev[d], curr[d]}
    BY <1>2, <1>6, <2>1, <2>2, Names DEF IInv, StacksOK
  <2>3. CASE ~(task[at[c].p].on_cpu /\ build = "irqs_off")
    BY <1>2, <1>6, <2>3 DEF WaitsFor
  <2> QED BY <1>6, <2>2, <2>3 DEF WaitsFor
<1>7. CASE at[c].in = "pending"
  BY <1>2, <1>7 DEF WaitsFor
<1>8. CASE at[c].in = "migrate"
  BY <1>2, <1>8 DEF WaitsFor
<1>9. CASE at[c].in = "migrate2"
  BY <1>2, <1>9 DEF WaitsFor
<1> QED BY <1>1, <1>3, <1>4, <1>5, <1>6, <1>7, <1>8, <1>9 DEF Waking, Moving

\* The queues of a migration are locked in the order of their addresses.
LEMMA SecondIsGreater ==
    ASSUME IInv, NEW c \in CPU, at[c].in = "migrate2"
    PROVE  /\ at[c].first \in Nat /\ c + at[c].dest - at[c].first \in Nat
           /\ at[c].first < c + at[c].dest - at[c].first
<1>1. at[c].dest \in CPU /\ at[c].dest # c /\ at[c].first = lock_first(c, at[c].dest)
  BY PositionFacts DEF IInv, AtOK, Moving
<1>2. PICK m \in Nat, n \in Nat : m = c /\ n = at[c].dest /\ m # n
  BY <1>1, CpuAssumption
<1>3. at[c].first = IF m < n THEN m ELSE n
  BY <1>1, <1>2 DEF lock_first
<1>4. c + at[c].dest - at[c].first = IF m < n THEN n ELSE m
  BY <1>2, <1>3
<1> QED BY <1>2, <1>3, <1>4

\* No CPU waits for itself and no two wait for each other, whatever locks they
\* hold (double_rq_lock, the spin on on_cpu, the wake-up of a thread that a
\* stopper moves).
THEOREM NoCircle == Spec => []NoCircularWait
<1>1. ASSUME IInv PROVE NoCircularWait
  <2>1. ASSUME NEW c \in CPU, c \in WaitsFor(c) PROVE FALSE
    <3>1. at[c].in # "wake" /\ at[c].in = "migrate2" /\ at[c].first = c + at[c].dest - at[c].first
      BY <1>1, <2>1, Holders, PlaceFields DEF HoldsPi
    <3> QED BY <1>1, <3>1, SecondIsGreater
  <2>2. ASSUME NEW c \in CPU, NEW d \in WaitsFor(c), c \in WaitsFor(d) PROVE FALSE
    <3>1. d \in CPU /\ at[c] # Run /\ at[d] # Run
      BY <1>1, <2>2, Holders
    <3>2. /\ at[c].in = "migrate2" /\ at[d].in = "migrate2"
          /\ at[d].first = c + at[c].dest - at[c].first
          /\ at[c].first = d + at[d].dest - at[d].first
      BY <1>1, <2>2, <3>1, Holders DEF HoldsPi
    <3>3. at[c].first \in Nat /\ at[d].first \in Nat
      BY <1>1, <3>1, <3>2, SecondIsGreater
    <3>4. at[c].first < at[d].first /\ at[d].first < at[c].first
      BY <1>1, <3>1, <3>2, SecondIsGreater
    <3> QED BY <3>3, <3>4
  <2> QED BY <2>1, <2>2 DEF NoCircularWait
<1> QED BY <1>1, Invariant, PTL

-----------------------------------------------------------------------------
(* Where threads move. *)

LEMMA Moves ==
    ASSUME IInv, [Next]_vars, NEW t \in Task, task'[t].cpu # task[t].cpu
    PROVE  task'[t].cpu \in task'[t].allowed
<1>1. ASSUME NEW c \in CPU, at[c].in \in {"remote", "spin", "queue"}, ttwu_do_activate({at[c].p}, task[at[c].p].cpu)
      PROVE  FALSE
  <2>1. PICK p \in Task, d \in CPU : p = at[c].p /\ d = task[p].cpu
    BY <1>1, PositionFacts DEF IInv, TypeOK, Waking
  <2>2. {p} \in SUBSET Task
    OBVIOUS
  <2> QED BY <1>1, <2>1, <2>2, Activated DEF IInv
<1>2. ASSUME NEW c \in CPU, Busy(c) PROVE task'[t].cpu \in task'[t].allowed
  <2>1. CASE TtwuLock(c) \/ ttwu_queue_remote(c) \/ MigrateLock(c)
    BY <2>1 DEF TtwuLock, ttwu_queue_remote, MigrateLock
  <2>2. CASE ttwu_remote(c) \/ ttwu_activate_remote(c) \/ TtwuQueueLocal(c)
    BY <1>1, <2>2 DEF ttwu_remote, ttwu_activate_remote, TtwuQueueLocal
  <2>3. CASE TtwuPlace(c)
    <3>1. at[c].p \in Task
      BY <2>3, PositionFacts DEF TtwuPlace, IInv, Waking
    <3> QED BY <2>3, <3>1, Placed
  <2>4. CASE sched_ttwu_pending(c)
    <3>1. at[c].todo \in SUBSET Task
      BY <2>4, PositionFacts DEF sched_ttwu_pending, IInv
    <3> QED BY <2>4, <3>1, Activated DEF sched_ttwu_pending, IInv
  <2>5. CASE __migrate_task(c)
    <3>1. at[c].p \in Task
      BY <2>5, PositionFacts DEF __migrate_task, IInv, Moving
    <3> QED BY <2>5, <3>1, Migrated
  <2> QED BY <1>2, <2>1, <2>2, <2>3, <2>4, <2>5 DEF Busy
<1>3. ASSUME NEW c \in CPU, Schedule(c) \/ PreemptSchedule(c) PROVE FALSE
  <2>1. PICK tasks : Descheduled(c, tasks) /\ __schedule(c, tasks) /\ Current(c)
    BY <1>3, Rescheduled
  <2>2. PICK next : SwitchedTo(c, tasks, next)
    BY <2>1, Switched
  <2> QED BY <2>1, <2>2 DEF SwitchedTo, Descheduled
<1>4. ASSUME NEW c \in CPU, SetSleeping(c) \/ TestCondition(c) PROVE FALSE
  <2>1. CASE UNCHANGED task
    BY <2>1
  <2>2. CASE \E s \in {"sleep", "running"} : task' = [task EXCEPT ![curr[c]].state = s]
    BY <2>2 DEF IInv, TypeOK
  <2> QED BY <1>4, <2>1, <2>2 DEF SetSleeping, TestCondition
<1>5. ASSUME NEW p \in Task, NEW mask \in Masks, set_cpus_allowed_ptr(p, mask) PROVE FALSE
  BY <1>5 DEF set_cpus_allowed_ptr, IInv, TypeOK
<1>6. ASSUME NEW c \in CPU, FinishSwitch(c) PROVE FALSE
  BY <1>6, Unswitched
<1>7. CASE HotplugStep
  <2>1. CASE CpuDying
    BY <2>1, Evacuated
  <2>2. ASSUME NEW d \in CPU, CpuDownPrepare(d) \/ CpuDownFailed(d) \/ StopMachine(d) \/ CpuUp(d)
        PROVE  FALSE
    BY <2>2 DEF CpuDownPrepare, CpuDownFailed, StopMachine, CpuUp
  <2> QED BY <1>7, <2>1, <2>2 DEF HotplugStep
<1>8. ASSUME NEW c \in CPU, NEW p \in Task, Post(c, p) PROVE FALSE
  BY <1>8 DEF Post
<1>9. ASSUME NEW c \in CPU, scheduler_ipi(c) \/ MigrationStop(c) \/ sched_exec(c) PROVE FALSE
  BY <1>9 DEF scheduler_ipi, MigrationStop, sched_exec
<1>10. CASE UNCHANGED vars
  BY <1>10 DEF vars
<1> QED BY <1>2, <1>3, <1>4, <1>5, <1>6, <1>7, <1>8, <1>9, <1>10 DEF Next, Stopper, Thread

\* Every move takes a thread to a CPU of the mask it has at that time
\* (select_task_rq, __migrate_task, migrate_tasks).
THEOREM MovesAllowed == Spec => MovesAreAllowed
<1>1. IInv /\ [Next]_vars => [\A t \in Task : task'[t].cpu # task[t].cpu => task'[t].cpu \in task'[t].allowed]_vars
  BY Moves
<1> QED BY <1>1, Invariant, PTL DEF Spec, MovesAreAllowed

-----------------------------------------------------------------------------
(* The locks, lists and interrupts implement SleepWakeup. *)

\* A CPU executes the thread it switches away from, or else its current one.
LEMMA ExecutingIs ==
    ASSUME IInv, NEW c \in CPU
    PROVE  /\ executing[c] = Executing(c)
           /\ executing[c] \in Task \cup {Nobody}
           /\ prev[c] \in Task => executing[c] = prev[c]
           /\ prev[c] = Nobody /\ curr[c] \in Task => executing[c] = curr[c]
           /\ executing[c] \in Task => executing[c] \in {curr[c], prev[c]}
BY Names DEF executing, Executing

\* A thread that executes has on_cpu set, and executes on its own CPU only.
LEMMA ExecutesOnce ==
    ASSUME IInv, NEW t \in Task, NEW c \in CPU, Executing(c) = t
    PROVE  task[t].on_cpu /\ task[t].cpu = c
<1>1. t \in {curr[c], prev[c]}
  BY ExecutingIs
<1> QED BY <1>1 DEF IInv, StacksOK

\* A step that leaves the CPUs where they are and lets every thread sleep, or
\* not, as before is none of SleepWakeup.
LEMMA NoStep ==
    ASSUME IInv, \A c \in CPU : Executing(c)' = Executing(c), event' = event,
           \A t \in Task : t \in asleep' <=> t \in asleep
    PROVE  UNCHANGED Abstract!vars
<1>1. executing' = executing
  BY DEF executing
<1>2. asleep' = asleep
  BY DEF asleep
<1> QED BY <1>1, <1>2 DEF Abstract!vars

\* Threads in the hands of a waker are queued without a step of SleepWakeup:
\* they are waking, or they still execute.
LEMMA ActivationIsNoStep ==
    ASSUME IInv, NEW ps \in SUBSET Task, NEW d \in CPU, ttwu_do_activate(ps, d),
           \A t \in ps : t \notin asleep, UNCHANGED <<curr, prev, event>>
    PROVE  UNCHANGED Abstract!vars
<1>1. /\ \A t \in ps : task'[t].on_rq
      /\ \A t \in Task \ ps : task'[t] = task[t]
  BY Activated DEF IInv
<1>2. \A c \in CPU : Executing(c)' = Executing(c)
  BY DEF Executing
<1>3. \A t \in Task : t \in asleep' <=> t \in asleep
  BY <1>1, <1>2 DEF asleep
<1> QED BY <1>2, <1>3, NoStep

\* The states and the queues as before.
LEMMA SameStates ==
    ASSUME IInv, UNCHANGED <<curr, prev, event>>,
           \A t \in Task : task'[t].state = task[t].state /\ (task'[t].on_rq <=> task[t].on_rq)
    PROVE  UNCHANGED Abstract!vars
<1>1. \A c \in CPU : Executing(c)' = Executing(c)
  BY DEF Executing
<1>2. \A t \in Task : t \in asleep' <=> t \in asleep
  BY <1>1 DEF asleep
<1> QED BY <1>1, <1>2, NoStep

LEMMA BusySteps ==
    ASSUME IInv, NEW c \in CPU, Busy(c)
    PROVE  [Abstract!Next]_(Abstract!vars)
<1>1. CASE TtwuLock(c) \/ ttwu_queue_remote(c) \/ MigrateLock(c)
  <2>1. UNCHANGED <<task, curr, prev, event>>
    BY <1>1 DEF TtwuLock, ttwu_queue_remote, MigrateLock, cpus
  <2> QED BY <2>1, SameStates
<1>2. CASE ttwu_remote(c) \/ ttwu_activate_remote(c) \/ TtwuQueueLocal(c)
  <2>1. PICK p \in Task, d \in CPU : p = at[c].p /\ d = task[p].cpu
    BY <1>2, PositionFacts DEF ttwu_remote, ttwu_activate_remote, TtwuQueueLocal, IInv, TypeOK, Waking
  <2>2. UNCHANGED <<curr, prev, event>>
    BY <1>2 DEF ttwu_remote, ttwu_activate_remote, TtwuQueueLocal
  <2>3. CASE UNCHANGED task
    BY <2>2, <2>3, SameStates
  <2>4. CASE ttwu_do_activate({p}, d) /\ (ttwu_remote(c) => task[p].on_rq)
    <3>1. p \notin asleep
      <4>1. CASE ttwu_remote(c)
        BY <2>4, <4>1 DEF asleep
      <4>2. CASE ttwu_activate_remote(c)
        <5>1. task[p].on_cpu /\ ~task[p].on_rq
          BY <2>1, <4>2 DEF ttwu_activate_remote, IInv, AtOK
        <5>2. prev[d] = p
          BY <2>1, <5>1 DEF IInv, StacksOK
        <5>3. Executing(d) = p
          BY <5>2, Names DEF Executing
        <5> QED BY <5>3 DEF asleep
      <4>3. CASE TtwuQueueLocal(c)
        <5>1. InHands(p, c, "queue")
          BY <2>1, <4>3 DEF TtwuQueueLocal, InHands
        <5>2. task[p].state = "waking"
          BY <5>1, OnlyHands DEF IInv, Hands
        <5> QED BY <5>2 DEF asleep
      <4> QED BY <1>2, <4>1, <4>2, <4>3
    <3>2. {p} \in SUBSET Task /\ \A t \in {p} : t \notin asleep
      BY <3>1
    <3> QED BY <2>2, <2>4, <3>2, ActivationIsNoStep
  <2> QED BY <1>2, <2>1, <2>3, <2>4 DEF ttwu_remote, ttwu_activate_remote, TtwuQueueLocal
<1>3. CASE sched_ttwu_pending(c)
  <2>1. PICK ps \in SUBSET Task : ps = at[c].todo
    BY <1>3, PositionFacts DEF sched_ttwu_pending, IInv
  <2>2. \A t \in ps : InHands(t, c, "pending")
    BY <1>3, <2>1 DEF sched_ttwu_pending, InHands
  <2>3. \A t \in ps : task[t].state = "waking"
    BY <2>2, OnlyHands DEF IInv, Hands
  <2>4. \A t \in ps : t \notin asleep
    BY <2>3 DEF asleep
  <2> QED BY <1>3, <2>1, <2>4, ActivationIsNoStep DEF sched_ttwu_pending
<1>4. CASE __migrate_task(c)
  <2>1. at[c].p \in Task /\ UNCHANGED <<curr, prev, event>>
    BY <1>4, PositionFacts DEF __migrate_task, IInv, Moving
  <2> QED BY <1>4, <2>1, Migrated, SameStates
<1>5. CASE TtwuPlace(c)
  <2>1. PICK p \in Task : p = at[c].p
    BY <1>5, PositionFacts DEF TtwuPlace, IInv, Waking
  <2>2. /\ \A t \in Task \ {p} : task'[t] = task[t]
        /\ task'[p].state = "waking"
    BY <1>5, <2>1, Placed
  <2>3. p \in asleep
    <3>1. task[p].state = "sleep" /\ ~task[p].on_rq /\ ~task[p].on_cpu
      BY <1>5, <2>1 DEF TtwuPlace, IInv, AtOK
    <3> QED BY <3>1, ExecutesOnce DEF asleep
  <2>4. UNCHANGED <<curr, prev, event>> /\ \A d \in CPU : Executing(d)' = Executing(d)
    BY <1>5 DEF TtwuPlace, cpus, Executing
  <2>5. asleep' = asleep \ {p}
    BY <2>2, <2>4 DEF asleep
  <2>6. executing' = executing
    BY <2>4 DEF executing
  <2>7. Abstract!Wake(p)
    BY <2>3, <2>4, <2>5, <2>6 DEF Abstract!Wake
  <2> QED BY <2>7 DEF Abstract!Next
<1> QED BY <1>1, <1>2, <1>3, <1>4, <1>5 DEF Busy

LEMMA SwitchSteps ==
    ASSUME IInv, NEW c \in CPU, FinishSwitch(c)
    PROVE  Abstract!Next
<1>1. /\ prev[c] # Nobody /\ curr' = curr /\ event' = event
      /\ \A d \in CPU : prev'[d] = IF d = c THEN Nobody ELSE prev[d]
      /\ curr[c] \in Task \cup {Idle, Stop} /\ prev[c] \in Task \cup {Idle, Stop}
  BY DEF FinishSwitch, IInv, TypeOK
<1>2. \A t \in Task : task'[t].state = task[t].state /\ (task'[t].on_rq <=> task[t].on_rq)
  BY Unswitched
<1>3. PICK in \in Task \cup {Nobody} : in = IF curr[c] \in Task THEN curr[c] ELSE Nobody
  OBVIOUS
<1>4. /\ Executing(c)' = in
      /\ \A d \in CPU : d # c => Executing(d)' = Executing(d)
  BY <1>1, <1>3 DEF Executing
<1>5. PICK out : out = Executing(c)
  OBVIOUS
<1>6. executing' = [executing EXCEPT ![c] = in] /\ executing[c] = out
  BY <1>4, <1>5 DEF executing
<1>7. in # Nobody => in \notin asleep /\ \A d \in CPU : executing[d] # in
  <2>1. SUFFICES ASSUME in # Nobody PROVE in \notin asleep /\ \A d \in CPU : Executing(d) # in
    BY DEF executing
  <2>2. in \in Task /\ in = curr[c] /\ in # prev[c]
    BY <1>3, <2>1 DEF IInv, StacksOK
  <2>3. in \notin asleep
    BY <2>2 DEF IInv, StacksOK, asleep
  <2>4. task[in].cpu = c
    BY <2>2 DEF IInv, StacksOK
  <2>5. \A d \in CPU : Executing(d) = in => d = c
    BY <2>2, <2>4, ExecutesOnce
  <2>6. Executing(c) # in
    BY <1>1, <2>1, <2>2 DEF Executing
  <2> QED BY <2>3, <2>5, <2>6
<1>8. asleep' \in {asleep, asleep \cup ({out} \ {Nobody})}
  <2>1. ASSUME NEW t \in Task, t # out
        PROVE  t \in asleep' <=> t \in asleep
    <3>1. CASE t = in
      <4>1. task[t].on_rq
        BY <1>3, <3>1, Names DEF IInv, StacksOK
      <4> QED BY <1>2, <4>1 DEF asleep
    <3>2. CASE t # in
      <4>1. (\A d \in CPU : Executing(d)' # t) <=> \A d \in CPU : Executing(d) # t
        BY <1>4, <1>5, <2>1, <3>2
      <4> QED BY <1>2, <4>1 DEF asleep
    <3> QED BY <3>1, <3>2
  <2>2. out \notin asleep
    BY <1>5 DEF asleep
  <2>3. asleep \subseteq Task /\ asleep' \subseteq Task
    BY DEF asleep
  <2>4. asleep' \ {out} = asleep
    BY <2>1, <2>2, <2>3
  <2>5. out \in asleep' => out \in Task /\ out # Nobody
    BY <2>3, Names
  <2> QED BY <2>4, <2>5
<1>9. Abstract!Switch(c, in)
  BY <1>1, <1>6, <1>7, <1>8 DEF Abstract!Switch
<1> QED BY <1>9 DEF Abstract!Next

LEMMA RescheduleSteps ==
    ASSUME IInv, NEW c \in CPU, Schedule(c) \/ PreemptSchedule(c)
    PROVE  UNCHANGED Abstract!vars
<1>1. PICK tasks : Descheduled(c, tasks) /\ __schedule(c, tasks) /\ Current(c)
  BY Rescheduled
<1>2. PICK next : SwitchedTo(c, tasks, next)
  BY <1>1, Switched
<1>3. prev[c] = Nobody /\ curr[c] \in Task \cup {Idle, Stop} /\ event' = event
  BY <1>1 DEF Current, IInv, TypeOK, __schedule
<1>4. ASSUME NEW d \in CPU PROVE Executing(d)' = Executing(d)
  <2>1. CASE d = c
    BY <1>2, <1>3, <2>1, Names DEF SwitchedTo, Executing
  <2>2. CASE d # c
    BY <1>2, <2>2 DEF SwitchedTo, Executing
  <2> QED BY <2>1, <2>2
<1>5. ASSUME NEW t \in Task PROVE t \in asleep' <=> t \in asleep
  <2>1. CASE t = curr[c]
    <3>1. Executing(c) = t
      BY <1>3, <2>1, Names DEF Executing
    <3> QED BY <1>4, <3>1 DEF asleep
  <2>2. CASE t # curr[c]
    <3>1. task'[t].state = task[t].state /\ (task'[t].on_rq <=> task[t].on_rq)
      BY <1>1, <1>2, <2>2 DEF SwitchedTo, Descheduled
    <3> QED BY <1>4, <3>1 DEF asleep
  <2> QED BY <2>1, <2>2
<1> QED BY <1>3, <1>4, <1>5, NoStep

LEMMA LoopSteps ==
    ASSUME IInv, NEW c \in CPU, SetSleeping(c) \/ TestCondition(c)
    PROVE  [Abstract!Next]_(Abstract!vars)
<1>1. PICK t \in Task : t = curr[c] /\ prev[c] = Nobody /\ task[t].on_rq
  BY DEF SetSleeping, TestCondition, Current, IInv, StacksOK
<1>2. UNCHANGED <<curr, prev>> /\ \A d \in CPU : Executing(d)' = Executing(d)
  BY DEF SetSleeping, TestCondition, cpus, Executing
<1>3. /\ task'[t].on_rq
      /\ \A u \in Task : u # t => task'[u] = task[u]
  <2>1. CASE UNCHANGED task
    BY <1>1, <2>1
  <2>2. CASE \E s \in {"sleep", "running"} : task' = [task EXCEPT ![t].state = s]
    BY <1>1, <2>2 DEF IInv, TypeOK
  <2> QED BY <1>1, <2>1, <2>2 DEF SetSleeping, TestCondition
<1>4. \A u \in Task : u \in asleep' <=> u \in asleep
  BY <1>1, <1>2, <1>3 DEF asleep
<1>5. executing' = executing /\ asleep' = asleep
  BY <1>2, <1>4 DEF executing, asleep
<1>6. CASE event' = event
  BY <1>5, <1>6 DEF Abstract!vars
<1>7. CASE t \in event /\ event' = event \ {t}
  <2>1. executing[c] = t
    BY <1>1, ExecutingIs
  <2>2. Abstract!See(c)
    BY <1>5, <1>7, <2>1 DEF Abstract!See
  <2> QED BY <2>2 DEF Abstract!Next
<1> QED BY <1>1, <1>6, <1>7 DEF SetSleeping, TestCondition

LEMMA DyingSteps ==
    ASSUME IInv, CpuDying
    PROVE  UNCHANGED Abstract!vars
<1>1. PICK d \in CPU : d = dying /\ d \in online
  BY DEF CpuDying, IInv, TypeOK, WorkOK
<1>2. /\ curr[d] = Stop /\ prev[d] = Nobody /\ event' = event /\ prev' = prev
      /\ \A c \in CPU : curr'[c] = IF c = d THEN Idle ELSE curr[c]
  BY <1>1 DEF CpuDying, Current, IInv, TypeOK
<1>3. \A c \in CPU : Executing(c)' = Executing(c)
  BY <1>2, Names DEF Executing
<1>4. ASSUME NEW t \in Task PROVE t \in asleep' <=> t \in asleep
  <2>1. CASE t \in wake_list[d]
    <3>1. InHands(t, d, "list")
      BY <2>1 DEF InHands
    <3>2. task[t].state = "waking"
      BY <3>1, OnlyHands DEF IInv, Hands
    <3>3. task'[t].on_rq
      BY <1>1, <2>1, Evacuated
    <3> QED BY <3>2, <3>3 DEF asleep
  <2>2. CASE t \notin wake_list[d]
    <3>1. task'[t].state = task[t].state /\ (task'[t].on_rq <=> task[t].on_rq)
      BY <1>1, <2>2, Evacuated
    <3> QED BY <1>3, <3>1 DEF asleep
  <2> QED BY <2>1, <2>2
<1> QED BY <1>2, <1>3, <1>4, NoStep

LEMMA StepSimulation ==
    ASSUME IInv, [Next]_vars
    PROVE  [Abstract!Next]_(Abstract!vars)
<1>1. ASSUME NEW c \in CPU, NEW p \in Task, Post(c, p) PROVE Abstract!Post(p)
  <2>1. UNCHANGED <<task, curr, prev>> /\ event' = event \cup {p}
    BY <1>1 DEF Post, cpus
  <2>2. \A d \in CPU : Executing(d)' = Executing(d)
    BY <2>1 DEF Executing
  <2> QED BY <2>1, <2>2 DEF Abstract!Post, executing, asleep
<1>2. ASSUME NEW c \in CPU, scheduler_ipi(c) \/ MigrationStop(c) \/ sched_exec(c)
      PROVE  UNCHANGED Abstract!vars
  <2>1. UNCHANGED <<task, curr, prev, event>>
    BY <1>2 DEF scheduler_ipi, MigrationStop, sched_exec, cpus
  <2> QED BY <2>1, SameStates
<1>3. ASSUME NEW p \in Task, NEW mask \in Masks, set_cpus_allowed_ptr(p, mask)
      PROVE  UNCHANGED Abstract!vars
  <2>1. /\ UNCHANGED <<curr, prev, event>>
        /\ \A t \in Task : task'[t].state = task[t].state /\ (task'[t].on_rq <=> task[t].on_rq)
    BY <1>3 DEF set_cpus_allowed_ptr, IInv, TypeOK
  <2> QED BY <2>1, SameStates
<1>4. ASSUME NEW d \in CPU, CpuDownPrepare(d) \/ CpuDownFailed(d) \/ StopMachine(d) \/ CpuUp(d)
      PROVE  UNCHANGED Abstract!vars
  <2>1. UNCHANGED <<task, curr, prev, event>>
    BY <1>4 DEF CpuDownPrepare, CpuDownFailed, StopMachine, CpuUp, cpus
  <2> QED BY <2>1, SameStates
<1>5. CASE UNCHANGED vars
  BY <1>5, SameStates DEF vars
<1>6. CASE \E c \in CPU, p \in Task : Post(c, p)
  BY <1>1, <1>6 DEF Abstract!Next
<1>7. CASE HotplugStep
  BY <1>4, <1>7, DyingSteps DEF HotplugStep
<1> QED BY <1>2, <1>3, <1>5, <1>6, <1>7, BusySteps, SwitchSteps, RescheduleSteps, LoopSteps
        DEF Next, Stopper, Thread

\* Initially no CPU executes a thread and none sleeps.
LEMMA InitSimulation == Init => Abstract!Init
<1> SUFFICES ASSUME Init PROVE Abstract!Init
  OBVIOUS
<1>1. \A c \in CPU : Executing(c) = Nobody
  BY Names DEF Init, Executing
<1>2. executing = [c \in CPU |-> Nobody]
  BY <1>1 DEF executing
<1>3. asleep = {}
  BY DEF Init, asleep
<1> QED BY <1>2, <1>3 DEF Abstract!Init, Init

\* try_to_wake_up, the wake_lists and the interrupts, the context switch and
\* hotplug let a thread sleep and wake as SleepWakeup says: on one CPU at a
\* time, never while it sleeps, and off its sleep only by a wake-up.
THEOREM WakeupImplements == Spec => Abstract!Safety
<1>1. IInv /\ [Next]_vars => [Abstract!Next]_(Abstract!vars)
  BY StepSimulation
<1> QED BY <1>1, InitSimulation, Invariant, PTL DEF Spec, Abstract!Safety
=============================================================================
