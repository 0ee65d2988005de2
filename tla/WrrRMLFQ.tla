------------------------------- MODULE WrrRMLFQ -------------------------------
(* The hooks of the random multi-level feedback class (wrr_RMLFQ.c), in the  *)
(* form WrrBasic has.  The queues are split into stages of StageWidth        *)
(* levels; a task that uses up its slice (or yields) stays at its level or   *)
(* jumps by one stage width, by a random number and the number of times it   *)
(* stayed.                                                                   *)
EXTENDS PrioArray

CONSTANTS
    ForeSlice,    \* WRR_FORE_TIMESLICE in ticks, the slice of stage 1
    BackSlice,    \* WRR_BACK_TIMESLICE in ticks
    UMax,         \* the largest unsigned int
    StageWidth,   \* levels of a stage, 10 in the code
    WideLiteral   \* TRUE where 4294967295 has a 64-bit type (LP64), FALSE
                  \* where it is a 32-bit unsigned long (gnu89 on ARM)

result(a, t, resched) == [wrr |-> a, task |-> t, resched |-> resched]

wrr_se_prio(rt_priority) == NPrio - 1 - rt_priority

get_rr_interval_wrr(t) ==
    IF t.group = "bg" THEN BackSlice
    ELSE ForeSlice * (wrr_se_prio(t.rt_priority) \div StageWidth + 1)

\* ++ and -- on an unsigned int
incremented(n) == IF n = UMax THEN 0 ELSE n + 1
decremented(n) == IF n = 0 THEN UMax ELSE n - 1

\* k * UNSIGNED_MAX / 10, where k is computed as an unsigned int.  In 32 bits
\* the product wraps.  In 64 bits it is exact, but for an unsigned k that stands
\* for a negative number: that product wraps to a negative long long.
threshold(k) ==
    LET M == UMax + 1
    IN  CASE ~WideLiteral           -> (((k % M) * UMax) % M) \div 10
          [] WideLiteral /\ k >= 0  -> (k * UMax) \div 10
          [] WideLiteral /\ k < 0   -> -1

bonus(prio) == prio \div (2 * StageWidth)

goes_low(r, t, prio) == r < threshold(t.times + bonus(prio))

\* Defect: the chance does not grow with the times the task stayed.
high_regardless(r, t, prio) ==
    ~goes_low(r, t, prio) /\ r > threshold(5 + bonus(prio))

goes_high(r, t, prio) == ~goes_low(r, t, prio)
                            /\ r > threshold(5 - t.times + bonus(prio))

\* Defect: a jump does not change rt_priority.
requeued_same_priority(a, p, t, head, r) ==
    LET prio  == wrr_se_prio(t.rt_priority)
        reset == [t EXCEPT !.times = 1]
    IN  IF goes_low(r, t, prio) /\ prio > StageWidth - 1
        THEN result(move_to_queue(a, p, prio, prio - StageWidth, head), reset, FALSE)
        ELSE result(move_in_queue(a, p, prio, head), reset, FALSE)

\* The result of requeue_task_wrr when getRand() returns r.
requeued(a, p, t, head, r) ==
    LET prio  == wrr_se_prio(t.rt_priority)
        here  == move_in_queue(a, p, prio, head)
        to(j) == move_to_queue(a, p, prio, j, head)
        reset == [t EXCEPT !.times = 1]
    IN  CASE goes_low(r, t, prio) /\ prio > StageWidth - 1 ->
                 result(to(prio - StageWidth),
                        [reset EXCEPT !.rt_priority = @ + StageWidth], FALSE)
          [] goes_high(r, t, prio) /\ prio < NPrio - StageWidth ->
                 result(to(prio + StageWidth),
                        [reset EXCEPT !.rt_priority = @ - StageWidth], FALSE)
          [] ~goes_low(r, t, prio) /\ ~goes_high(r, t, prio) ->
                 result(here, [t EXCEPT !.times = incremented(@)], FALSE)
          [] OTHER -> result(here, reset, FALSE)

requeue_task_wrr(a, p, t, head) ==
    {requeued(a, p, t, head, r) : r \in 0 .. UMax}

yield_task_wrr(a, p, t) == requeue_task_wrr(a, p, t, FALSE)

task_tick_wrr(a, p, t) ==
    LET left    == decremented(t.time_slice)
        ticked  == [t EXCEPT !.time_slice = left]
        renewed == [t EXCEPT !.time_slice = get_rr_interval_wrr(t)]
    IN  CASE t.policy # "WRR"             -> {result(a, t, FALSE)}
          [] t.policy = "WRR" /\ left # 0 -> {result(a, ticked, FALSE)}
          [] OTHER -> {[r EXCEPT !.resched = TRUE] :
                          r \in requeue_task_wrr(a, p, renewed, FALSE)}

\* Defect: the comparison of the other build.
preempt_by_rt_priority(t, c) ==
    wrr_se_prio(t.rt_priority) > wrr_se_prio(c.rt_priority)

\* resched_task(rq->curr)?
check_preempt_curr_wrr(t, c) ==
    wrr_se_prio(t.rt_priority) < wrr_se_prio(c.rt_priority)

switched_to_wrr(t, c) ==
    wrr_se_prio(t.rt_priority) < wrr_se_prio(c.rt_priority)
=============================================================================
