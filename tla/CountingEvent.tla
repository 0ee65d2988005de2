---------------------------- MODULE CountingEvent ----------------------------
(***************************************************************************)
(* What a completion promises: every signal lets one thread go, whether it *)
(* waits already or comes later; a thread gives up waiting only when there *)
(* is no signal for it; and signals and waiters do not stay side by side.  *)
(***************************************************************************)
EXTENDS Naturals

CONSTANTS Thread, Amounts   \* how many signals are given at a time

VARIABLES
    signals,    \* the signals given and not yet taken
    waiting     \* the threads that wait for one

vars == <<signals, waiting>>

Init == signals = 0 /\ waiting = {}

Give(n) ==
    /\ signals' = signals + n
    /\ UNCHANGED waiting

Come(t) ==
    /\ t \notin waiting /\ signals = 0
    /\ waiting' = waiting \cup {t}
    /\ UNCHANGED signals

\* A signal is taken by a thread that waits, or by one that has just come.
Take ==
    /\ signals > 0 /\ signals' = signals - 1
    /\ \/ UNCHANGED waiting
       \/ \E t \in waiting : waiting' = waiting \ {t}

GiveUp(t) ==
    /\ t \in waiting /\ signals = 0
    /\ waiting' = waiting \ {t}
    /\ UNCHANGED signals

Next ==
    \/ \E n \in Amounts : Give(n)
    \/ Take
    \/ \E t \in Thread : Come(t) \/ GiveUp(t)

Safety == Init /\ [][Next]_vars

\* While threads wait, signals are taken.
Spec == Safety /\ WF_vars(waiting # {} /\ Take)
=============================================================================
