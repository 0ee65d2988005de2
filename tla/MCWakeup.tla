-------------------------------- MODULE MCWakeup --------------------------------
(* Instances of WakeupSMP for TLC. *)
EXTENDS WakeupSMP, TLC

CONSTANTS t1, t2

OneTask == {t1}
TwoTask == {t1, t2}
TwoCpu  == {0, 1}
Symmetry == Permutations(TwoTask)
=============================================================================
