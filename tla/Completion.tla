----------------------------- MODULE Completion -----------------------------
(***************************************************************************)
(* Wait queues and completions of kernel/core.c: complete, complete_all,   *)
(* the wait_for_completion family with its timeouts and signals,           *)
(* try_wait_for_completion, sleep_on and __wake_up.                        *)
(*                                                                         *)
(* A step is what runs under one hold of the wait queue's lock.            *)
(***************************************************************************)
EXTENDS LinkedList, Naturals, FiniteSets

CONSTANTS
    Thread,
    Sleepers,   \* the threads that call sleep_on
    Calls,      \* the ways to wait: [mode, timed]
    UMax,       \* UINT_MAX
    Ones, Alls  \* how often complete and complete_all are called: bounds

ASSUME CompletionAssumption == UMax \in Nat \ {0} /\ Ones \in Nat /\ Alls \in Nat
ASSUME CallAssumption ==
    /\ Sleepers \subseteq Thread
    /\ Calls \subseteq [mode : {"interruptible", "uninterruptible", "killable"}, timed : BOOLEAN]

VARIABLES
    done,       \* x->done
    list,       \* x->wait: the threads in it, all exclusive
    queue,      \* another wait queue, that of sleep_on, none of them exclusive
    thread,     \* what each thread waits in, and whether it is asleep
    signalled,  \* the threads with a signal pending
    calls       \* how often complete and complete_all were called

vars == <<done, list, queue, thread, signalled, calls>>

Out        == [in |-> "out"]
In(w, c)   == [in |-> w, call |-> c, asleep |-> TRUE, expired |-> FALSE]
Asleep(t)  == thread[t].in # "out" /\ thread[t].asleep

\* signal_pending_state: the signals of this model do not kill.
signal_pending_state(mode, t) == mode = "interruptible" /\ t \in signalled

-----------------------------------------------------------------------------
(* Waking. *)

\* default_wake_function wakes a thread that is asleep in a state of mode.
TASK_NORMAL == {"interruptible", "uninterruptible", "killable"}
Wakeable(t, mode) == Asleep(t) /\ thread[t].call.mode \in mode

\* Defect: a thread that runs already counts as woken.
wake_first(q, mode, exclusive, nr) ==
    {q[i] : i \in {j \in DOMAIN q : Wakeable(q[j], mode) /\ (exclusive /\ nr = 1 => j = 1)}}

\* __wake_up_common: all threads of q, or nr of them when they are exclusive,
\* where one that does not sleep does not count.
__wake_up_common(q, mode, exclusive, nr) ==
    LET w == {i \in DOMAIN q : Wakeable(q[i], mode)}
    IN  {q[i] : i \in {j \in w : exclusive /\ nr # 0 => Cardinality({k \in w : k < j}) < nr}}

Woken(ts) == [t \in Thread |-> IF t \in ts THEN [thread[t] EXCEPT !.asleep = FALSE] ELSE thread[t]]

-----------------------------------------------------------------------------
(* Completions. *)

complete ==
    /\ calls.one < Ones /\ calls' = [calls EXCEPT !.one = @ + 1]
    /\ done' = (done + 1) % (UMax + 1)
    /\ thread' = Woken(__wake_up_common(list, TASK_NORMAL, TRUE, 1))
    /\ UNCHANGED <<list, queue, signalled>>

complete_all ==
    /\ calls.all < Alls /\ calls' = [calls EXCEPT !.all = @ + 1]
    /\ done' = (done + UMax \div 2) % (UMax + 1)
    /\ thread' = Woken(__wake_up_common(list, TASK_NORMAL, TRUE, 0))
    /\ UNCHANGED <<list, queue, signalled>>

\* wait_for_common, up to the first sleep.
Wait(t, call) ==
    /\ thread[t] = Out
    /\ \/ /\ done # 0
          /\ done' = done - 1
          /\ UNCHANGED <<list, thread>>
       \/ /\ done = 0 /\ ~signal_pending_state(call.mode, t)
          /\ list' = list_insert(list, t, FALSE)
          /\ thread' = [thread EXCEPT ![t] = In("completion", call)]
          /\ UNCHANGED done
    /\ UNCHANGED <<queue, signalled, calls>>

\* Defect: a thread that was interrupted or that is too late returns at once.
resume_giving_up(t) ==
    LET c == thread[t].call
        left == ~thread[t].expired
    IN  /\ thread[t].in = "completion" /\ ~thread[t].asleep
        /\ IF signal_pending_state(c.mode, t) \/ ~left \/ done # 0
           THEN /\ list' = list_del_init(list, t)
                /\ thread' = [thread EXCEPT ![t] = Out]
                /\ done' = IF ~signal_pending_state(c.mode, t) /\ left THEN done - 1 ELSE done
           ELSE /\ thread' = [thread EXCEPT ![t].asleep = TRUE]
                /\ UNCHANGED <<list, done>>
        /\ UNCHANGED <<queue, signalled, calls>>

\* Defect: a thread that is interrupted leaves its entry on the list.
resume_and_stay(t) ==
    LET c    == thread[t].call
        left == ~thread[t].expired
        gone == done = 0 /\ left /\ signal_pending_state(c.mode, t)
    IN  /\ thread[t].in = "completion" /\ ~thread[t].asleep
        /\ IF done = 0 /\ left /\ ~signal_pending_state(c.mode, t)
           THEN thread' = [thread EXCEPT ![t].asleep = TRUE] /\ UNCHANGED <<list, done>>
           ELSE /\ list' = IF gone THEN list ELSE list_del_init(list, t)
                /\ thread' = [thread EXCEPT ![t] = Out]
                /\ done' = IF done = 0 THEN 0 ELSE done - 1
        /\ UNCHANGED <<queue, signalled, calls>>

\* do_wait_for_common after schedule_timeout: the loop goes round while there
\* is nothing to take and time is left; a signal is looked at only then.
Resume(t) ==
    LET c    == thread[t].call
        left == ~thread[t].expired
    IN  /\ thread[t].in = "completion" /\ ~thread[t].asleep
        /\ IF done = 0 /\ left /\ ~signal_pending_state(c.mode, t)
           THEN thread' = [thread EXCEPT ![t].asleep = TRUE] /\ UNCHANGED <<list, done>>
           ELSE /\ list' = list_del_init(list, t)
                /\ thread' = [thread EXCEPT ![t] = Out]
                /\ done' = IF done = 0 THEN 0 ELSE done - 1
        /\ UNCHANGED <<queue, signalled, calls>>

try_wait_for_completion(t) ==
    /\ thread[t] = Out /\ done # 0
    /\ done' = done - 1
    /\ UNCHANGED <<list, queue, thread, signalled, calls>>

-----------------------------------------------------------------------------
(* sleep_on, on the other queue. *)

\* sleep_on_common sets the state before it takes the lock: a signal that is
\* pending keeps schedule from sleeping, a wake-up in between finds no entry.
SleepOn(t, call) ==
    /\ t \in Sleepers /\ thread[t] = Out
    /\ queue' = list_insert(queue, t, TRUE)
    /\ thread' = [thread EXCEPT ![t] = [In("queue", call) EXCEPT !.asleep = ~signal_pending_state(call.mode, t)]]
    /\ UNCHANGED <<done, list, signalled, calls>>

SleepOnReturns(t) ==
    /\ thread[t].in = "queue" /\ ~thread[t].asleep
    /\ queue' = list_del_init(queue, t)
    /\ thread' = [thread EXCEPT ![t] = Out]
    /\ UNCHANGED <<done, list, signalled, calls>>

__wake_up(mode) ==
    /\ queue # <<>>
    /\ thread' = Woken(__wake_up_common(queue, mode, FALSE, 1))
    /\ UNCHANGED <<done, list, queue, signalled, calls>>

-----------------------------------------------------------------------------
(* Signals and timers. *)

Signal(t) ==
    /\ t \notin signalled
    /\ signalled' = signalled \cup {t}
    /\ thread' = IF Asleep(t) /\ thread[t].call.mode = "interruptible" THEN Woken({t}) ELSE thread
    /\ UNCHANGED <<done, list, queue, calls>>

Handled(t) ==
    /\ t \in signalled /\ thread[t] = Out
    /\ signalled' = signalled \ {t}
    /\ UNCHANGED <<done, list, queue, thread, calls>>

\* The timer of schedule_timeout; it may expire just when the thread is woken.
Expire(t) ==
    /\ thread[t].in # "out" /\ thread[t].call.timed /\ ~thread[t].expired
    /\ thread' = [thread EXCEPT ![t].expired = TRUE, ![t].asleep = FALSE]
    /\ UNCHANGED <<done, list, queue, signalled, calls>>

-----------------------------------------------------------------------------
Init ==
    /\ done = 0 /\ list = <<>> /\ queue = <<>>
    /\ thread = [t \in Thread |-> Out]
    /\ signalled = {}
    /\ calls = [one |-> 0, all |-> 0]

Next ==
    \/ complete \/ complete_all
    \/ \E mode \in {TASK_NORMAL, {"interruptible"}} : __wake_up(mode)
    \/ \E t \in Thread :
          \/ \E call \in Calls : Wait(t, call) \/ SleepOn(t, call)
          \/ Resume(t) \/ SleepOnReturns(t) \/ try_wait_for_completion(t)
          \/ Signal(t) \/ Handled(t) \/ Expire(t)

\* A thread that is woken runs again.
Spec == Init /\ [][Next]_vars /\ \A t \in Thread : WF_vars(Resume(t) \/ SleepOnReturns(t))

-----------------------------------------------------------------------------
\* The entry of a thread is on its stack: it is on a queue once while the
\* thread waits there, however it was woken, and not after it has returned.
EntriesLive ==
    /\ \A t \in Thread : /\ Cardinality({i \in DOMAIN list : list[i] = t}) = IF thread[t].in = "completion" THEN 1 ELSE 0
                         /\ Cardinality({i \in DOMAIN queue : queue[i] = t}) = IF thread[t].in = "queue" THEN 1 ELSE 0
    /\ done \in 0 .. UMax

\* A completion that nobody took has woken enough threads to take it, though
\* a signal, a timeout or a thief may come between the wake-up and the taking.
WokenForDone ==
    LET awake == {i \in DOMAIN list : ~Asleep(list[i])}
    IN  Cardinality(awake) >= IF done < Len(list) THEN done ELSE Len(list)

Event == INSTANCE CountingEvent WITH
    Amounts <- {1, UMax \div 2},
    signals <- done,
    waiting <- {t \in Thread : thread[t].in = "completion"}

\* Completions implement CountingEvent.
CountsEvents == Event!Spec
=============================================================================
