------------------------------ MODULE MCRequests ------------------------------
(* Instances of SchedRequests for TLC. *)
EXTENDS SchedRequests, TLC

CONSTANTS t1, t2

Two       == {t1, t2}
MixedBoot == {<<"WRR", 1, "fg">>, <<"NORMAL", 0, "fg">>}
Symmetry2 == Permutations(Two)
=============================================================================
