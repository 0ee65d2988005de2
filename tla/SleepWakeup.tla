---------------------------- MODULE SleepWakeup ----------------------------
(***************************************************************************)
(* What sleeping and waking promise to the threads of an SMP machine,      *)
(* whatever locks and lists implement it: a CPU executes one thread at a   *)
(* time, a thread executes on one CPU at a time and never while it sleeps, *)
(* and a thread that sleeps with an event posted for it is woken.          *)
(***************************************************************************)
CONSTANTS CPU, Task, Nobody

VARIABLES
    executing,  \* the thread each CPU executes, Nobody if none of Task
    asleep,     \* the threads that wait to be woken
    event       \* the threads for which an event is posted and not yet seen

vars == <<executing, asleep, event>>

TypeOK ==
    /\ executing \in [CPU -> Task \cup {Nobody}]
    /\ asleep \subseteq Task
    /\ event \subseteq Task

Init ==
    /\ executing \in [CPU -> Task \cup {Nobody}]
    /\ \A c, d \in CPU : executing[c] = executing[d] /\ executing[c] # Nobody => c = d
    /\ asleep = {}
    /\ event = {}

Post(t) ==
    /\ event' = event \cup {t}
    /\ UNCHANGED <<executing, asleep>>

\* A thread sees its event while it executes.
See(c) ==
    /\ executing[c] \in event
    /\ event' = event \ {executing[c]}
    /\ UNCHANGED <<executing, asleep>>

\* A CPU leaves one thread, which may fall asleep, for another that is awake
\* and that no CPU executes.
Switch(c, in) ==
    LET out == executing[c]
    IN  /\ in # Nobody => in \notin asleep /\ \A d \in CPU : executing[d] # in
        /\ executing' = [executing EXCEPT ![c] = in]
        /\ asleep' \in {asleep, asleep \cup ({out} \ {Nobody})}
        /\ UNCHANGED event

Wake(t) ==
    /\ t \in asleep
    /\ asleep' = asleep \ {t}
    /\ UNCHANGED <<executing, event>>

Next ==
    \/ \E t \in Task : Post(t) \/ Wake(t)
    \/ \E c \in CPU : See(c) \/ \E in \in Task \cup {Nobody} : Switch(c, in)

\* No thread sleeps for ever on an event that is posted.
NoLostWakeup == \A t \in Task : WF_vars(t \in event /\ Wake(t))

Safety == Init /\ [][Next]_vars

Spec == Safety /\ NoLostWakeup
=============================================================================
