------------------------------ MODULE LoadDecay ------------------------------
(***************************************************************************)
(* The arithmetic of the two load estimates of kernel/core.c, with the     *)
(* numbers of the code: rq->cpu_load[1 .. 4] decayed over missed ticks by  *)
(* a table on a 128 point scale, and avenrun brought forward over missed   *)
(* windows by a fixed-point power.  Each shortcut is compared with doing   *)
(* the update once for every tick or window that was missed.               *)
(***************************************************************************)
EXTENDS Integers, Sequences, SequencesExt

DEGRADE_SHIFT == 7

degrade_zero_ticks == <<8, 32, 64, 128>>

degrade_factor ==
    << <<64, 32, 8, 0, 0, 0, 0, 0>>,
       <<96, 72, 40, 12, 1, 0, 0, 0>>,
       <<112, 98, 75, 43, 15, 1, 0, 0>>,
       <<120, 112, 98, 76, 45, 16, 2, 0>> >>

Bit(n, j) == (n \div 2^j) % 2 = 1

\* Defect: the columns of the table are read one too far.
decay_next_column(load, missed, i) ==
    CASE missed = 0 -> load
      [] missed >= degrade_zero_ticks[i] -> 0
      [] OTHER -> FoldLeft(LAMBDA l, j : IF Bit(missed, j - 1) THEN (l * degrade_factor[i][j + 1]) \div 2^DEGRADE_SHIFT ELSE l,
                           load, [j \in 1 .. DEGRADE_SHIFT |-> j])

decay_load_missed(load, missed, i) ==
    CASE missed = 0 -> load
      [] missed >= degrade_zero_ticks[i] -> 0
      [] i = 1 /\ missed \in 1 .. 7 -> load \div 2^missed
      [] OTHER -> FoldLeft(LAMBDA l, j : IF Bit(missed, j - 1) THEN (l * degrade_factor[i][j]) \div 2^DEGRADE_SHIFT ELSE l,
                           load, [j \in 1 .. DEGRADE_SHIFT |-> j])

\* cpu_load[i] when `pending` ticks have gone by since it was last updated.
update_cpu_load(old, this_load, pending, i) ==
    LET old_load == decay_load_missed(old, pending - 1, i)
        new_load == IF this_load > old_load THEN this_load + 2^i - 1 ELSE this_load
    IN  (old_load * (2^i - 1) + new_load) \div 2^i

-----------------------------------------------------------------------------
FSHIFT  == 11
FIXED_1 == 2^FSHIFT
EXP     == {1884, 2014, 2037}

calc_load(load, exp, active) == (load * exp + active * (FIXED_1 - exp) + 2^(FSHIFT - 1)) \div FIXED_1

times(a, b) == (a * b + 2^(FSHIFT - 1)) \div FIXED_1

\* x^n by the bits of n.
fixed_power_int(x, n) ==
    LET square[i \in Nat] == IF i = 0 THEN x ELSE times(square[i - 1], square[i - 1])
    IN  FoldLeft(LAMBDA r, i : IF Bit(n, i) THEN times(r, square[i]) ELSE r, FIXED_1, [i \in 1 .. 7 |-> i - 1])

calc_load_n(load, exp, active, n) == calc_load(load, fixed_power_int(exp, n), active)

-----------------------------------------------------------------------------
\* What the shortcuts stand for: the update, once for every tick or window.
EachTick(load, missed, i) == FoldLeft(LAMBDA l, k : (l * (2^i - 1)) \div 2^i, load, [k \in 1 .. missed |-> k])
EachWindow(load, exp, active, n) == FoldLeft(LAMBDA l, k : calc_load(l, exp, active), load, [k \in 1 .. n |-> k])

Off(a, b) == IF a > b THEN a - b ELSE b - a

\* A CPU that comes back after any number of ticks has about the load it would
\* have if it had ticked: decay_load_missed, "approximated on a 128 point scale".
DecayIsClose ==
    \A i \in 1 .. 4, load \in {100, 1024, 3072}, missed \in {1, 3, 7, 8, 21, 31, 33, 63, 64, 100, 127, 128} :
       Off(decay_load_missed(load, missed, i), EachTick(load, missed, i)) <= load \div 128 + 7

\* After any number of missed windows avenrun is about what one calc_load for
\* each would have made it: calc_load_n.
CatchUpIsClose ==
    \A exp \in EXP, load \in {0, 3 * FIXED_1, 8 * FIXED_1}, active \in {0, FIXED_1, 8 * FIXED_1}, n \in {1, 2, 7, 60} :
       Off(calc_load_n(load, exp, active, n), EachWindow(load, exp, active, n))
          <= (IF load > active THEN load ELSE active) \div 256 + 6

\* Under a steady load cpu_load[i] comes nearer with every tick, never passes
\* it and never stops short, "stuck on 9 if the load is 10".
LoadSettles ==
    \A i \in 1 .. 4, old \in 0 .. 40, this_load \in {0, 1, 10, 33} :
       LET new == update_cpu_load(old, this_load, 1, i)
       IN  /\ old < this_load => old < new /\ new <= this_load
           /\ old > this_load => this_load <= new /\ new < old
           /\ old = this_load => new = old
=============================================================================
