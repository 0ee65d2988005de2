----------------------------- MODULE SchedRequests -----------------------------
(* sched_setscheduler as its caller sees it: SchedCore with a record of the  *)
(* last request for each thread that returned 0.                             *)
EXTENDS SchedProps

VARIABLE asked      \* asked[p]: <<policy, priority>>, or <<>>

rvars == <<vars, asked>>

\* The return of __sched_setscheduler on "not changing anything".
SetSchedulerReturns(p, pol, prio) ==
    /\ "setscheduler" \in Ops
    /\ InUser
    /\ task[p].state # "FREE"
    /\ valid_request(pol, prio)
    /\ not_changing(task[p], pol, prio)
    /\ UNCHANGED vars

Request(p, pol, prio, reset) ==
    /\ \/ SetScheduler(p, pol, prio, reset)
       \/ SetSchedulerReturns(p, pol, prio)
    /\ asked' = [asked EXCEPT ![p] = <<pol, prio>>]

\* The number of a thread that is gone may be given to another.
Forget == asked' = [p \in Task |-> IF task'[p].state = "FREE" THEN <<>> ELSE asked[p]]

RInit == Init /\ asked = [p \in Task |-> <<>>]

RNext ==
    \/ Kernel /\ Forget
    \/ \E p \in Task, pol \in Policies, prio \in 0 .. NPrio - 1, reset \in Resets :
          Request(p, pol, prio, reset)

RSpec == RInit /\ [][RNext]_rvars

Honoured(p) == <<task[p].policy, task[p].rt_priority>> = asked[p]

\* sched_setscheduler "changes the scheduling policy and/or RT priority of a
\* thread": a request that returned 0 is in force until the next one, whatever
\* boosts, forks and sleeps come between.
OtherRequestsHonoured ==
    \A p \in Task : asked[p] # <<>> /\ ~wrr_policy(asked[p][1]) => Honoured(p)

\* The same of requests for the weighted round-robin policy.  The code does not
\* keep it: __sched_setscheduler takes a second request with another priority
\* for one that changes nothing.
WrrRequestsHonoured ==
    \A p \in Task : asked[p] # <<>> /\ wrr_policy(asked[p][1]) => Honoured(p)
=============================================================================
