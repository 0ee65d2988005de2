------------------------------- MODULE WrrBasic -------------------------------
(* The hooks of the basic weighted round-robin class (wrr_basic.c).          *)
(*                                                                           *)
(* A hook maps what it is given of struct rq and struct task_struct to what  *)
(* it leaves there: the run list a, the task's fields t, and whether it sets *)
(* TIF_NEED_RESCHED.  Hooks that can leave several results (the other build  *)
(* draws a random number) return the set of them; here it is a singleton.    *)
EXTENDS PrioArray

CONSTANTS
    ForeSlice,  \* WRR_FORE_TIMESLICE in ticks
    BackSlice,  \* WRR_BACK_TIMESLICE in ticks
    UMax        \* the largest unsigned int

result(a, t, resched) == [wrr |-> a, task |-> t, resched |-> resched]

wrr_se_prio(rt_priority) == rt_priority

get_rr_interval_wrr(t) == IF t.group = "bg" THEN BackSlice ELSE ForeSlice

\* --p->wrr.time_slice on an unsigned int
decremented(slice) == IF slice = 0 THEN UMax ELSE slice - 1

requeue_task_wrr(a, p, t, head) ==
    {result(move_in_queue(a, p, wrr_se_prio(t.rt_priority), head), t, FALSE)}

\* Defect: back to the head of the queue.
yield_to_head(a, p, t) == requeue_task_wrr(a, p, t, TRUE)

yield_task_wrr(a, p, t) == requeue_task_wrr(a, p, t, FALSE)

\* Defects: a thread alone at its level keeps the slice of 0; a thread goes back
\* to the head of its queue.
tick_without_renewal(a, p, t) ==
    LET left   == decremented(t.time_slice)
        ticked == [t EXCEPT !.time_slice = left]
    IN  IF left = 0 /\ Len(a.queue[wrr_se_prio(t.rt_priority)]) > 1
        THEN {[r EXCEPT !.resched = TRUE] : r \in requeue_task_wrr(a, p,
                  [t EXCEPT !.time_slice = get_rr_interval_wrr(t)], FALSE)}
        ELSE {result(a, ticked, FALSE)}

tick_to_head(a, p, t) ==
    LET left    == decremented(t.time_slice)
        renewed == [t EXCEPT !.time_slice = get_rr_interval_wrr(t)]
    IN  IF left = 0
        THEN {[r EXCEPT !.resched = TRUE] : r \in requeue_task_wrr(a, p, renewed, TRUE)}
        ELSE {result(a, [t EXCEPT !.time_slice = left], FALSE)}

task_tick_wrr(a, p, t) ==
    LET left    == decremented(t.time_slice)
        ticked  == [t EXCEPT !.time_slice = left]
        renewed == [t EXCEPT !.time_slice = get_rr_interval_wrr(t)]
        alone   == Len(a.queue[wrr_se_prio(t.rt_priority)]) = 1
    IN  CASE t.policy # "WRR"                      -> {result(a, t, FALSE)}
          [] t.policy = "WRR" /\ left # 0          -> {result(a, ticked, FALSE)}
          [] t.policy = "WRR" /\ left = 0 /\ alone -> {result(a, renewed, FALSE)}
          [] OTHER -> {[r EXCEPT !.resched = TRUE] :
                          r \in requeue_task_wrr(a, p, renewed, FALSE)}

\* resched_task(rq->curr)?
check_preempt_curr_wrr(t, c) == t.rt_priority > c.rt_priority

switched_to_wrr(t, c) == t.rt_priority < c.rt_priority
=============================================================================
